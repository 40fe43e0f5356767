------------------------------- MODULE MCWorker ------------------------------
(* Worker for TLC, on the first three entries of init()'s table.           *)
EXTENDS Worker

MCMaxQuota == [cpu |-> 1000000, mem |-> 1024000]
MCTable == InitTable(3)

\* Without limits; a table entry as updatePodQuota would write it; a quota
\* that is not in the table.
MCLimits == {[cpu |-> 0, mem |-> 0], WithDelta(MCTable[2]), [cpu |-> 1000, mem |-> 2048]}

\* For the runs with temporal properties.
OneLimit == {WithDelta(MCTable[2])}

AllBuilds == SUBSET Parts

\* The committed one and the builds whose loop() takes events.
LiveBuilds == {b \in AllBuilds : b = {} \/ {"ticker", "eventC"} \subseteq b}
=============================================================================
