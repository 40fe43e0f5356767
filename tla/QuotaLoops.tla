----------------------------- MODULE QuotaLoops ------------------------------
(***************************************************************************)
(* The walks of QuotaCalls with the scans of pkg/config/quota.go as the Go *)
(* code writes them: each call is a loop over allQuotas that keeps the     *)
(* best entry so far in target, one step for each entry.  The five loops   *)
(* differ in the target they begin with, the entries they skip, the        *)
(* comparison with the target, and how they tell that none was found.      *)
(***************************************************************************)
EXTENDS QuotaCalls

VARIABLES call,    \* the function that is running, "none" between calls
          arg,     \* its argument
          pos,     \* the entries it has looked at
          target   \* the best of them so far

scan     == <<call, arg, pos, target>>
loopVars == <<vars, scan>>

Scales == {"UpCpu", "UpMemory", "DownCpu", "DownMemory"}

-----------------------------------------------------------------------------
(* The body of the loops.                                                  *)

\* Mutant: scaling down the memory begins with minQuota.
StartDownFromMin(fn, q) == CASE fn \in {"UpCpu", "UpMemory"} -> maxQuota
                             [] fn = "Floor" -> [q EXCEPT !.mem = 0]
                             [] OTHER -> minQuota

\* var target
Start(fn, q) == CASE fn \in {"UpCpu", "UpMemory", "DownMemory"} -> maxQuota
                  [] fn = "DownCpu"                             -> minQuota
                  [] fn = "Floor"                               -> [q EXCEPT !.mem = 0]

\* Mutant: an entry as large as the argument counts as more.
SkipLess(fn, q, e) == CASE fn = "UpCpu"      -> e.cpu < q.cpu
                        [] fn = "UpMemory"   -> e.mem < q.mem
                        [] fn = "DownCpu"    -> e.cpu >= q.cpu
                        [] fn = "DownMemory" -> e.mem >= q.mem
                        [] fn = "Floor"      -> e.cpu # q.cpu \/ e.mem > q.mem

\* Mutant: the ceiling instead of the floor.
SkipBelow(fn, q, e) == CASE fn = "UpCpu"      -> e.cpu <= q.cpu
                         [] fn = "UpMemory"   -> e.mem <= q.mem
                         [] fn = "DownCpu"    -> e.cpu >= q.cpu
                         [] fn = "DownMemory" -> e.mem >= q.mem
                         [] fn = "Floor"      -> e.cpu # q.cpu \/ e.mem < q.mem

\* continue
Skip(fn, q, e) == CASE fn = "UpCpu"      -> e.cpu <= q.cpu
                    [] fn = "UpMemory"   -> e.mem <= q.mem
                    [] fn = "DownCpu"    -> e.cpu >= q.cpu
                    [] fn = "DownMemory" -> e.mem >= q.mem
                    [] fn = "Floor"      -> e.cpu # q.cpu \/ e.mem > q.mem

\* The entry replaces the target.
Better(fn, e, t) == CASE fn = "UpCpu"                -> e.mem < t.mem
                      [] fn = "UpMemory"             -> e.cpu < t.cpu
                      [] fn \in {"DownCpu", "Floor"} -> e.mem > t.mem
                      [] fn = "DownMemory"           -> e.cpu > t.cpu

\* Mutant: below the table, one CPU less instead of the same quota.
ResultPastTable(fn, q, t) == IF t # Start(fn, q) THEN t
                             ELSE IF fn = "DownCpu" THEN [q EXCEPT !.cpu = @ - MilliPerCpu] ELSE q

\* The argument comes back if the target was never replaced.
Result(fn, q, t) == IF fn = "Floor" THEN IF t.mem = 0 THEN q ELSE t
                    ELSE IF t = Start(fn, q) THEN q ELSE t

-----------------------------------------------------------------------------
LoopInit == /\ Init
            /\ call = "none" /\ arg = minQuota
            /\ pos = 0 /\ target = minQuota

Begin(fn, q) == /\ call = "none"
                /\ call' = fn /\ arg' = q
                /\ pos' = 0 /\ target' = Start(fn, q)
                /\ UNCHANGED vars

\* BeginFloor is the trip of QuotaCalls' Floor, which the committed code does
\* not make.
BeginScale == \E fn \in Scales : Begin(fn, quota)
BeginFloor == rounds < MaxRounds /\ Begin("Floor", WithDelta(quota))

Iterate == /\ call # "none" /\ pos < Len(table)
           /\ pos' = pos + 1
           /\ LET e == table[pos + 1]
              IN  target' = IF Skip(call, arg, e) \/ ~ Better(call, e, target) THEN target ELSE e
           /\ UNCHANGED <<vars, call, arg>>

Return == /\ call # "none" /\ pos = Len(table)
          /\ quota' = Result(call, arg, target)
          /\ last' = call
          /\ rounds' = IF call = "Floor" THEN rounds + 1 ELSE rounds
          /\ call' = "none" /\ arg' = minQuota
          /\ pos' = 0 /\ target' = minQuota
          /\ UNCHANGED table

LoopNext == BeginScale \/ BeginFloor \/ Iterate \/ Return

LoopSpec == LoopInit /\ [][LoopNext]_loopVars

-----------------------------------------------------------------------------
LoopTypeOK == /\ TypeOK
              /\ call \in Scales \cup {"none", "Floor"}
              /\ arg \in Quota /\ target \in Quota
              /\ pos \in 0..Len(table)
              /\ call \in Scales => arg = quota
              /\ call = "Floor" => arg = WithDelta(quota) /\ rounds < MaxRounds

\* The entries from which the function chooses, as module Quota has them.
Candidates(fn, T, q) == CASE fn = "UpCpu"      -> MoreCpu(T, q)
                          [] fn = "UpMemory"   -> MoreMemory(T, q)
                          [] fn = "DownCpu"    -> LessCpu(T, q)
                          [] fn = "DownMemory" -> LessMemory(T, q)
                          [] fn = "Floor"      -> AtMostMemory(T, q)

\* The first of the best entries among I.
FirstBest(fn, T, I, k) ==
    k \in I /\ \A j \in I : \/ Better(fn, T[k], T[j])
                            \/ ~ Better(fn, T[j], T[k]) /\ k <= j

(***************************************************************************)
(* At every iteration target is the first of the best candidates among the *)
(* entries already looked at, or still what the loop began with when there *)
(* is none: ties, duplicates and entries as large as maxQuota or as small  *)
(* as minQuota included.                                                   *)
(***************************************************************************)
BestSoFar ==
    call # "none" =>
        LET seen == Candidates(call, table, arg) \cap (1..pos)
        IN  IF seen = {} THEN target = Start(call, arg)
            ELSE \E k \in seen : FirstBest(call, table, seen, k) /\ target = table[k]

(***************************************************************************)
(* The loops implement the functions as QuotaCalls uses them: what each    *)
(* one returns is the entry that module Quota says it does.                *)
(***************************************************************************)
LoopsAgree == Spec
=============================================================================
