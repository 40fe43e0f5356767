------------------------------- MODULE MCQuota -------------------------------
(***************************************************************************)
(* QuotaLoops on every table of up to two entries at the boundary values   *)
(* of the constants, on a longer one out of order with duplicates and      *)
(* ties, and on the first rungs of the table of init().                    *)
(***************************************************************************)
EXTENDS QuotaLoops

MCMaxQuota == [cpu |-> 1000000, mem |-> 1024000]

Cpus == {50, 100, 1000001}
Mems == {0, 1024, 1088, 1089, 1024000}
Entries == [cpu : Cpus, mem : Mems]

\* 64 entries: cpu <= 32 in steps of one half.
CommittedTable == InitTable(64)

FirstRungs == InitTable(8)

\* Two equally good entries for each scan, before and after the others.
TiedTable == << [cpu |-> 100, mem |-> 1088], [cpu |-> 50, mem |-> 1024],
                [cpu |-> 100, mem |-> 1024], [cpu |-> 50, mem |-> 1024],
                [cpu |-> 50, mem |-> 1088] >>

MCTables == (UNION {[1..n -> Entries] : n \in 0..2}) \cup {TiedTable, FirstRungs}

MCQuotas == Entries \cup {FirstRungs[1], FirstRungs[5], FirstRungs[8]}

\* The two quotas pkg/config/quota_test.go uses.
TestQuotas == {[cpu |-> 1000, mem |-> 2048], [cpu |-> 1500, mem |-> 2048]}

CommittedTables == {CommittedTable}
=============================================================================
