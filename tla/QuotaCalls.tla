----------------------------- MODULE QuotaCalls ------------------------------
(***************************************************************************)
(* Sequences of calls of pkg/config/quota.go in which each call gets the   *)
(* result of the one before: the walk a pod makes over the table.          *)
(***************************************************************************)
EXTENDS Quota

CONSTANTS Tables,   \* the tables to try
          Quotas,   \* the quotas of the first call
          MaxRounds \* bound: trips through the pod's limits, each of which
                    \* adds DeltaMemory to a quota that is not in the table

ASSUME CallsConstants == /\ Tables \subseteq Seq(Quota)
                         /\ Quotas \subseteq Quota
                         /\ MaxRounds \in Nat

VARIABLES table,    \* allQuotas
          quota,    \* the quota of the next call
          last,     \* the name of the last call
          rounds    \* trips through the pod's limits so far

vars == <<table, quota, last, rounds>>

-----------------------------------------------------------------------------
Init == /\ table \in Tables
        /\ quota \in Quotas
        /\ last = "none"
        /\ rounds = 0

Call(name, next) == /\ quota' = next
                    /\ last' = name
                    /\ UNCHANGED table

ScaleUpCpu      == Call("UpCpu", GetScaleUpCpuQuota(table, quota)) /\ UNCHANGED rounds
ScaleUpMemory   == Call("UpMemory", GetScaleUpMemoryQuota(table, quota)) /\ UNCHANGED rounds
ScaleDownCpu    == Call("DownCpu", GetScaleDownCpuQuota(table, quota)) /\ UNCHANGED rounds
ScaleDownMemory == Call("DownMemory", GetScaleDownMemoryQuota(table, quota)) /\ UNCHANGED rounds

\* One trip through the pod's limits, as lines 184-187 of worker.go mean to
\* make it: they set the target plus DeltaMemory, and the Update event brings
\* that back.  The committed lines set copies (Worker's WritesQuota), so the
\* trip is about the functions: no event of the committed code makes it.
Floor == /\ rounds < MaxRounds
         /\ rounds' = rounds + 1
         /\ Call("Floor", GetFloorMemoryQuota(table, WithDelta(quota)))

Next == \/ ScaleUpCpu
        \/ ScaleUpMemory
        \/ ScaleDownCpu
        \/ ScaleDownMemory
        \/ Floor

Spec == Init /\ [][Next]_vars

-----------------------------------------------------------------------------
TypeOK == /\ table \in Seq(Quota)
          /\ quota \in Quota
          /\ last \in {"none", "UpCpu", "UpMemory", "DownCpu", "DownMemory", "Floor"}
          /\ rounds \in 0..MaxRounds

(***************************************************************************)
(* A walk that starts on a spaced table never leaves it: limits of target  *)
(* plus DeltaMemory, which updatePodQuota is written to set, are recognised *)
(* as the same table entry by GetFloorMemoryQuota, so that the 64Mi do not *)
(* accumulate in the functions of quota.go, however their calls follow     *)
(* each other.                                                             *)
(***************************************************************************)
StaysOnTable ==
    [][Spaced(table) /\ quota \in Rungs(table) => quota' \in Rungs(table)]_vars

(***************************************************************************)
(* GetFloorMemoryQuota undoes the DeltaMemory that updatePodQuota adds: the *)
(* floor of an entry's limits, as they are meant to be written to the pod, *)
(* is the very entry.                                                      *)
(***************************************************************************)
RoundTrip ==
    Spaced(table) =>
        \A e \in Rungs(table) : GetFloorMemoryQuota(table, WithDelta(e)) = e

(***************************************************************************)
(* On a ladder, as init() builds one, scaling up the CPU or the memory     *)
(* climbs exactly one rung and scaling down the CPU undoes it: the agent   *)
(* can neither skip a rung nor drift between two of them.                  *)
(***************************************************************************)
OneRungUpOneRungDown ==
    IsLadder(table) =>
        \A i \in 1..(Len(table) - 1) :
            /\ GetScaleUpCpuQuota(table, table[i])       = table[i + 1]
            /\ GetScaleUpMemoryQuota(table, table[i])    = table[i + 1]
            /\ GetScaleDownCpuQuota(table, table[i + 1]) = table[i]

(***************************************************************************)
(* Scaling down asks for no more of anything.  README.md says that the     *)
(* agent scales pods "up (or down)"; GetScaleDownCpuQuota compares only    *)
(* CPUs before it takes the most memory it finds.                          *)
(***************************************************************************)
ScaleDownAsksForNoMore ==
    [][last' = "DownCpu" => quota'.cpu <= quota.cpu /\ quota'.mem <= quota.mem]_vars
=============================================================================
