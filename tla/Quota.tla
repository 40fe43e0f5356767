-------------------------------- MODULE Quota --------------------------------
(***************************************************************************)
(* pkg/config/quota.go: the table of quotas a pod may be scaled to, and    *)
(* the functions that pick the next quota from it.                         *)
(*                                                                         *)
(* A quota is a record [cpu, mem].  cpu is in millicores (MilliValue()),   *)
(* mem in MiB: every memory constant of the package is a whole number of   *)
(* MiB, and TLC's integers are too narrow for bytes.                       *)
(*                                                                         *)
(* The Go functions scan allQuotas once, keeping the best entry so far.    *)
(* They are stated here by the entry that survives the scan: the best one  *)
(* among the eligible entries, the first of them when several are equally  *)
(* good.  Module QuotaLoops has the scans themselves, entry by entry, and  *)
(* shows that each of them ends with the entry stated here.                *)
(*                                                                         *)
(* The table is a parameter (T) of every operator: the package fills it    *)
(* once, in init() (InitTable below), before main() runs.                  *)
(***************************************************************************)
EXTENDS Integers, Sequences

CONSTANTS DeltaMemory,    \* added to the memory limit written to the pod
          BasicGiBValue,  \* 1Gi in the unit of memory
          maxQuota,       \* greater than every useful quota: no choice yet
          MilliPerCpu     \* what one CPU of the table counts in MilliValue()

Quota == [cpu : Nat, mem : Nat]

ASSUME QuotaConstants ==
    /\ DeltaMemory \in Nat
    /\ BasicGiBValue \in Nat \ {0}
    /\ maxQuota \in Quota
    /\ MilliPerCpu \in Nat \ {0}

minQuota == [cpu |-> 0, mem |-> 0]

-----------------------------------------------------------------------------
(* The choice made by each scan.                                           *)

\* The entries a scan for more CPU may pick.
MoreCpu(T, q) == {i \in DOMAIN T : T[i].cpu > q.cpu /\ T[i].mem < maxQuota.mem}

\* Eligible: more CPU.  Best: least memory, strictly below maxQuota's.
GetScaleUpCpuQuota(T, q) ==
    LET I == MoreCpu(T, q)
    IN  IF I = {} THEN q
        ELSE T[CHOOSE i \in I : \A j \in I : \/ T[i].mem < T[j].mem
                                             \/ T[i].mem = T[j].mem /\ i <= j]

\* Mutant: an entry with the same memory counts as more.
MoreMemoryOrSame(T, q) == {i \in DOMAIN T : T[i].mem >= q.mem /\ T[i].cpu < maxQuota.cpu}

MoreMemory(T, q) == {i \in DOMAIN T : T[i].mem > q.mem /\ T[i].cpu < maxQuota.cpu}

\* Eligible: more memory.  Best: least CPU, strictly below maxQuota's.
GetScaleUpMemoryQuota(T, q) ==
    LET I == MoreMemory(T, q)
    IN  IF I = {} THEN q
        ELSE T[CHOOSE i \in I : \A j \in I : \/ T[i].cpu < T[j].cpu
                                             \/ T[i].cpu = T[j].cpu /\ i <= j]

LessCpu(T, q) == {i \in DOMAIN T : T[i].cpu < q.cpu /\ T[i].mem > minQuota.mem}

\* Eligible: less CPU.  Best: most memory, strictly above minQuota's.
GetScaleDownCpuQuota(T, q) ==
    LET I == LessCpu(T, q)
    IN  IF I = {} THEN q
        ELSE T[CHOOSE i \in I : \A j \in I : \/ T[i].mem > T[j].mem
                                             \/ T[i].mem = T[j].mem /\ i <= j]

LessMemory(T, q) == {i \in DOMAIN T : T[i].mem < q.mem /\ T[i].cpu > maxQuota.cpu}

\* Eligible: less memory.  Best: most CPU, but strictly above maxQuota's: the
\* scan starts from maxQuota, where GetScaleDownCpuQuota starts from minQuota.
GetScaleDownMemoryQuota(T, q) ==
    LET I == LessMemory(T, q)
    IN  IF I = {} THEN q
        ELSE T[CHOOSE i \in I : \A j \in I : \/ T[i].cpu > T[j].cpu
                                             \/ T[i].cpu = T[j].cpu /\ i <= j]

\* Mutant: entries for less CPU are eligible too.
AtMostMemoryAnyCpu(T, q) ==
    {i \in DOMAIN T : T[i].cpu <= q.cpu /\ T[i].mem <= q.mem /\ T[i].mem > 0}

AtMostMemory(T, q) ==
    {i \in DOMAIN T : T[i].cpu = q.cpu /\ T[i].mem <= q.mem /\ T[i].mem > 0}

\* Eligible: the same CPU and no more memory.  Best: most memory.
GetFloorMemoryQuota(T, q) ==
    LET I == AtMostMemory(T, q)
    IN  IF I = {} THEN q
        ELSE T[CHOOSE i \in I : \A j \in I : \/ T[i].mem > T[j].mem
                                             \/ T[i].mem = T[j].mem /\ i <= j]

-----------------------------------------------------------------------------
(* init(): for cpu = 0.5, 1, ... the table gets cpu*2 Gi and cpu*100       *)
(* millicores (MilliPerCpu = 100).  Entry i is for cpu = i/2.              *)

InitTable(n) ==
    [i \in 1..n |-> [cpu |-> (i * MilliPerCpu) \div 2, mem |-> i * BasicGiBValue]]

\* A table that grows in both dimensions, inside (minQuota, maxQuota).
IsLadder(T) ==
    /\ \A i \in DOMAIN T : /\ T[i].mem > minQuota.mem /\ T[i].mem < maxQuota.mem
                            /\ T[i].cpu < maxQuota.cpu
    /\ \A i, j \in DOMAIN T : i < j => T[i].cpu < T[j].cpu /\ T[i].mem < T[j].mem

\* The quotas of a table.
Rungs(T) == {T[i] : i \in DOMAIN T}

\* No two entries for the same CPU are closer than the memory that
\* updatePodQuota adds, and none is without memory.
Spaced(T) ==
    /\ \A i \in DOMAIN T : T[i].mem > 0
    /\ \A i, j \in DOMAIN T :
          T[i].cpu = T[j].cpu /\ T[i].mem < T[j].mem
              => T[i].mem + DeltaMemory < T[j].mem

\* The limits updatePodQuota is written to set for quota q.
WithDelta(q) == [q EXCEPT !.mem = @ + DeltaMemory]

-----------------------------------------------------------------------------
(* What the cgroup gets for a quota.  Quota2Config has no entry, so        *)
(* GetQuotaConfig always calculates.  diskBW is in KiB, iops are counts.   *)

CalculatedQuotaConfig(q) ==
    [ goMaxProcs |-> q.cpu + 500,
      memCache   |-> q.mem,
      diskCache  |-> q.mem * 10,
      diskIOPS   |-> (q.mem \div BasicGiBValue) * 500,
      diskBW     |-> q.mem * 50 ]
=============================================================================
