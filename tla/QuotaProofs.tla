----------------------------- MODULE QuotaProofs -----------------------------
(***************************************************************************)
(* The properties of walks over a table (QuotaCalls), from QuotaLemmas,    *)
(* and the proof that the loops of quota.go (QuotaLoops) implement them.   *)
(***************************************************************************)
EXTENDS QuotaLoops, QuotaLemmas

-----------------------------------------------------------------------------
(* Walks over the table.                                                   *)

\* The first state is well typed.
LEMMA TypeOKInit == Init => TypeOK
<1>. SUFFICES ASSUME Init PROVE TypeOK
  OBVIOUS
<1>1. table \in Seq(Quota) /\ quota \in Quota
  BY CallsConstants DEF Init
<1>2. rounds \in 0..MaxRounds
  BY CallsConstants DEF Init
<1>. QED  BY <1>1, <1>2 DEF Init, TypeOK

\* Every call returns a quota.
LEMMA TypeOKStep == TypeOK /\ [Next]_vars => TypeOK'
<1>. SUFFICES ASSUME TypeOK, [Next]_vars PROVE TypeOK'
  OBVIOUS
<1>. USE DEF TypeOK
<1>0. WithDelta(quota) \in Quota
  BY WithDeltaType
<1>1. CASE ScaleUpCpu
  BY <1>1, ResultsAreQuotas DEF ScaleUpCpu, Call
<1>2. CASE ScaleUpMemory
  BY <1>2, ResultsAreQuotas DEF ScaleUpMemory, Call
<1>3. CASE ScaleDownCpu
  BY <1>3, ResultsAreQuotas DEF ScaleDownCpu, Call
<1>4. CASE ScaleDownMemory
  BY <1>4, ResultsAreQuotas DEF ScaleDownMemory, Call
<1>5. CASE Floor
  <2>1. GetFloorMemoryQuota(table, WithDelta(quota)) \in Quota
    BY <1>0, ResultsAreQuotas
  <2>2. rounds' \in 0..MaxRounds
    <3>1. rounds \in Nat /\ rounds < MaxRounds /\ rounds' = rounds + 1 /\ MaxRounds \in Nat
      BY <1>5, CallsConstants DEF Floor
    <3>. QED  BY <3>1
  <2>. QED  BY <1>5, <2>1, <2>2 DEF Floor, Call
<1>6. CASE UNCHANGED vars
  BY <1>6 DEF vars
<1>. QED  BY <1>1, <1>2, <1>3, <1>4, <1>5, <1>6 DEF Next

(***************************************************************************)
(* A walk over any table stays well typed.                                 *)
(***************************************************************************)
THEOREM TypeCorrect == Spec => []TypeOK
BY TypeOKInit, TypeOKStep, PTL DEF Spec

(***************************************************************************)
(* The limits that updatePodQuota is written to set are recognised by      *)
(* GetFloorMemoryQuota as the table entry they were made from, on every    *)
(* spaced table: the two functions agree on DeltaMemory.                   *)
(***************************************************************************)
THEOREM RoundTripHolds == Spec => []RoundTrip
<1>1. TypeOK => RoundTrip
  BY SpacedRoundTrip DEF TypeOK, RoundTrip, Rungs
<1>. QED  BY <1>1, TypeCorrect, PTL

(***************************************************************************)
(* On every ladder a step up climbs one rung and a step down undoes it.    *)
(***************************************************************************)
THEOREM OneRungHolds == Spec => []OneRungUpOneRungDown
<1>1. TypeOK => OneRungUpOneRungDown
  BY LadderSteps DEF TypeOK, OneRungUpOneRungDown
<1>. QED  BY <1>1, TypeCorrect, PTL

(***************************************************************************)
(* A walk that is on a spaced table stays on it.                           *)
(***************************************************************************)
THEOREM StaysOnTableHolds == Spec => StaysOnTable
<1>1. TypeOK /\ [Next]_vars
        => [Spaced(table) /\ quota \in Rungs(table) => quota' \in Rungs(table)]_vars
  <2>. SUFFICES ASSUME TypeOK, Next, Spaced(table), quota \in Rungs(table)
                PROVE  quota' \in Rungs(table)
    OBVIOUS
  <2>0. table \in Seq(Quota) /\ quota \in Quota
    BY DEF TypeOK
  <2>1. CASE ScaleUpCpu
    BY <2>0, <2>1, ResultsAreQuotas DEF ScaleUpCpu, Call
  <2>2. CASE ScaleUpMemory
    BY <2>0, <2>2, ResultsAreQuotas DEF ScaleUpMemory, Call
  <2>3. CASE ScaleDownCpu
    BY <2>0, <2>3, ResultsAreQuotas DEF ScaleDownCpu, Call
  <2>4. CASE ScaleDownMemory
    BY <2>0, <2>4, ResultsAreQuotas DEF ScaleDownMemory, Call
  <2>5. CASE Floor
    <3>1. PICK k \in DOMAIN table : quota = table[k]
      BY DEF Rungs
    <3>2. quota' = quota
      BY <2>0, <2>5, <3>1, SpacedRoundTrip DEF Floor, Call
    <3>. QED  BY <3>2
  <2>. QED  BY <2>1, <2>2, <2>3, <2>4, <2>5 DEF Next
<1>. QED  BY <1>1, TypeCorrect, PTL DEF Spec, StaysOnTable

-----------------------------------------------------------------------------
(* The loops: what their five bodies have in common.                       *)

\* The functions of quota.go that scan the table.
ScanFunctions == Scales \cup {"Floor"}

\* What module Quota says that function fn returns.
Choice(fn, T, q) == CASE fn = "UpCpu"      -> GetScaleUpCpuQuota(T, q)
                      [] fn = "UpMemory"   -> GetScaleUpMemoryQuota(T, q)
                      [] fn = "DownCpu"    -> GetScaleDownCpuQuota(T, q)
                      [] fn = "DownMemory" -> GetScaleDownMemoryQuota(T, q)
                      [] fn = "Floor"      -> GetFloorMemoryQuota(T, q)

\* A loop begins with a quota.
LEMMA StartType ==
    ASSUME NEW fn \in ScanFunctions, NEW q \in Quota
    PROVE  Start(fn, q) \in Quota
<1>1. minQuota \in Quota /\ maxQuota \in Quota /\ [q EXCEPT !.mem = 0] \in Quota
  BY QuotaConstants DEF minQuota, Quota
<1>2. CASE fn \in {"UpCpu", "UpMemory", "DownMemory"}
  BY <1>1, <1>2 DEF Start
<1>3. CASE fn = "DownCpu"
  BY <1>1, <1>3 DEF Start
<1>4. CASE fn = "Floor"
  BY <1>1, <1>4 DEF Start
<1>. QED  BY <1>2, <1>3, <1>4 DEF ScanFunctions, Scales

\* The comparison of every loop is a strict weak order.
LEMMA BetterOrder ==
    ASSUME NEW fn \in ScanFunctions, NEW a \in Quota, NEW b \in Quota, NEW c \in Quota
    PROVE  /\ ~ Better(fn, a, a)
           /\ Better(fn, a, b) => ~ Better(fn, b, a)
           /\ Better(fn, a, b) /\ Better(fn, b, c) => Better(fn, a, c)
           /\ Better(fn, a, c) => Better(fn, a, b) \/ Better(fn, b, c)
<1>1. /\ a.cpu \in Nat /\ b.cpu \in Nat /\ c.cpu \in Nat
      /\ a.mem \in Nat /\ b.mem \in Nat /\ c.mem \in Nat
  BY DEF Quota
<1>2. CASE fn = "UpCpu"
  BY <1>1, <1>2 DEF Better
<1>3. CASE fn = "UpMemory"
  BY <1>1, <1>3 DEF Better
<1>4. CASE fn = "DownCpu"
  BY <1>1, <1>4 DEF Better
<1>5. CASE fn = "DownMemory"
  BY <1>1, <1>5 DEF Better
<1>6. CASE fn = "Floor"
  BY <1>1, <1>6 DEF Better
<1>. QED  BY <1>2, <1>3, <1>4, <1>5, <1>6 DEF ScanFunctions, Scales

\* A loop may take exactly the entries that it does not skip and that are
\* better than what it begins with.
LEMMA CandidatesMeaning ==
    ASSUME NEW fn \in ScanFunctions, NEW T \in Seq(Quota), NEW q \in Quota
    PROVE  /\ Candidates(fn, T, q) \subseteq DOMAIN T
           /\ \A k \in DOMAIN T : k \in Candidates(fn, T, q)
                                   <=> ~ Skip(fn, q, T[k]) /\ Better(fn, T[k], Start(fn, q))
<1>1. /\ q.cpu \in Nat /\ q.mem \in Nat /\ [q EXCEPT !.mem = 0].mem = 0
      /\ \A k \in DOMAIN T : T[k].cpu \in Nat /\ T[k].mem \in Nat
  BY TableFacts DEF Quota
<1>2. CASE fn = "UpCpu"
  BY <1>1, <1>2 DEF Candidates, Skip, Better, Start, MoreCpu
<1>3. CASE fn = "UpMemory"
  BY <1>1, <1>3 DEF Candidates, Skip, Better, Start, MoreMemory
<1>4. CASE fn = "DownCpu"
  BY <1>1, <1>4 DEF Candidates, Skip, Better, Start, LessCpu
<1>5. CASE fn = "DownMemory"
  BY <1>1, <1>5 DEF Candidates, Skip, Better, Start, LessMemory
<1>6. CASE fn = "Floor"
  <2>1. Candidates(fn, T, q) = AtMostMemory(T, q) /\ Start(fn, q) = [q EXCEPT !.mem = 0]
    BY <1>6 DEF Candidates, Start
  <2>2. Start(fn, q).mem = 0
    BY <1>1, <2>1
  <2>3. \A k \in DOMAIN T : /\ Skip(fn, q, T[k]) <=> T[k].cpu # q.cpu \/ T[k].mem > q.mem
                            /\ Better(fn, T[k], Start(fn, q)) <=> T[k].mem > 0
    BY <1>6, <2>2 DEF Skip, Better
  <2>. QED  BY <1>1, <2>1, <2>3 DEF AtMostMemory
<1>. QED  BY <1>2, <1>3, <1>4, <1>5, <1>6 DEF ScanFunctions, Scales

\* What a function returns is its argument or the first of its best entries.
LEMMA ChoiceIsFirstBest ==
    ASSUME NEW fn \in ScanFunctions, NEW T \in Seq(Quota), NEW q \in Quota
    PROVE  LET I == Candidates(fn, T, q)
           IN  \/ I = {} /\ Choice(fn, T, q) = q
               \/ \E k \in I : FirstBest(fn, T, I, k) /\ Choice(fn, T, q) = T[k]
<1>. DEFINE I == Candidates(fn, T, q)
<1>1. \A k \in I : T[k].cpu \in Nat /\ T[k].mem \in Nat
  BY TableFacts, CandidatesMeaning
<1>2. CASE fn = "UpCpu"
  BY <1>1, <1>2, UpCpuChoice DEF Candidates, Choice, FirstBest, Better
<1>3. CASE fn = "UpMemory"
  BY <1>1, <1>3, UpMemoryChoice DEF Candidates, Choice, FirstBest, Better
<1>4. CASE fn = "DownCpu"
  BY <1>1, <1>4, DownCpuChoice DEF Candidates, Choice, FirstBest, Better
<1>5. CASE fn = "DownMemory"
  BY <1>1, <1>5, DownMemoryChoice DEF Candidates, Choice, FirstBest, Better
<1>6. CASE fn = "Floor"
  BY <1>1, <1>6, FloorChoice DEF Candidates, Choice, FirstBest, Better
<1>. QED  BY <1>2, <1>3, <1>4, <1>5, <1>6 DEF ScanFunctions, Scales

-----------------------------------------------------------------------------
(* The loops: types.                                                       *)

\* The state before the first call is well typed.
LEMMA LoopTypeInit == LoopInit => LoopTypeOK
<1>. SUFFICES ASSUME LoopInit PROVE LoopTypeOK
  OBVIOUS
<1>1. TypeOK /\ call = "none"
  BY TypeOKInit DEF LoopInit
<1>2. arg \in Quota /\ target \in Quota
  BY DEF LoopInit, minQuota, Quota
<1>3. pos \in 0..Len(table)
  BY <1>1 DEF LoopInit, TypeOK
<1>. QED  BY <1>1, <1>2, <1>3 DEF LoopTypeOK, Scales

\* Every step of a loop keeps the types.
LEMMA LoopTypeStep == LoopTypeOK /\ [LoopNext]_loopVars => LoopTypeOK'
<1>. SUFFICES ASSUME LoopTypeOK, [LoopNext]_loopVars PROVE LoopTypeOK'
  OBVIOUS
<1>0. /\ TypeOK /\ table \in Seq(Quota) /\ quota \in Quota /\ Len(table) \in Nat
      /\ rounds \in 0..MaxRounds /\ MaxRounds \in Nat
  BY CallsConstants DEF LoopTypeOK, TypeOK
<1>1. ASSUME NEW fn \in Scales, Begin(fn, quota) PROVE LoopTypeOK'
  <2>1. Start(fn, quota) \in Quota
    BY <1>0, StartType DEF ScanFunctions
  <2>2. TypeOK'
    BY <1>0, <1>1 DEF Begin, vars, TypeOK
  <2>3. call' \in Scales /\ call' # "Floor" /\ arg' = quota' /\ arg' \in Quota /\ target' \in Quota
    BY <1>0, <1>1, <2>1 DEF Begin, vars, Scales
  <2>4. pos' \in 0..Len(table')
    BY <1>0, <1>1 DEF Begin, vars
  <2>. QED  BY <2>2, <2>3, <2>4 DEF LoopTypeOK
<1>2. CASE BeginFloor
  <2>1. WithDelta(quota) \in Quota
    BY <1>0, WithDeltaType
  <2>2. Start("Floor", WithDelta(quota)) \in Quota
    BY <2>1, StartType DEF ScanFunctions
  <2>3. TypeOK' /\ UNCHANGED vars
    BY <1>0, <1>2 DEF BeginFloor, Begin, vars, TypeOK
  <2>4. call' = "Floor" /\ arg' = WithDelta(quota) /\ arg' \in Quota /\ target' \in Quota
    BY <1>2, <2>1, <2>2 DEF BeginFloor, Begin
  <2>5. pos' \in 0..Len(table')
    BY <1>0, <1>2 DEF BeginFloor, Begin, vars
  <2>6. quota' = quota /\ rounds' < MaxRounds
    BY <1>2 DEF BeginFloor, Begin, vars
  <2>7. arg' = WithDelta(quota')
    BY <2>4, <2>6
  <2>. QED  BY <2>3, <2>4, <2>5, <2>6, <2>7 DEF LoopTypeOK, Scales
<1>3. CASE Iterate
  <2>1. pos \in 0..Len(table) /\ pos < Len(table) /\ pos' = pos + 1
    BY <1>3 DEF Iterate, LoopTypeOK
  <2>2. pos + 1 \in DOMAIN table /\ pos' \in 0..Len(table)
    BY <1>0, <2>1
  <2>3. target' \in Quota
    BY <1>0, <1>3, <2>2 DEF Iterate, LoopTypeOK
  <2>4. TypeOK' /\ UNCHANGED <<vars, call, arg>>
    BY <1>0, <1>3 DEF Iterate, vars, TypeOK
  <2>5. table' = table /\ quota' = quota /\ rounds' = rounds /\ call' = call /\ arg' = arg
    BY <2>4 DEF vars
  <2>. QED  BY <2>2, <2>3, <2>4, <2>5 DEF LoopTypeOK
<1>4. CASE Return
  <2>1. arg \in Quota /\ target \in Quota /\ call \in ScanFunctions
    BY <1>4 DEF Return, LoopTypeOK, ScanFunctions
  <2>2. Result(call, arg, target) \in Quota
    BY <2>1 DEF Result
  <2>3. rounds' \in 0..MaxRounds
    BY <1>0, <1>4 DEF Return, LoopTypeOK
  <2>4. last' \in {"none", "UpCpu", "UpMemory", "DownCpu", "DownMemory", "Floor"}
    BY <1>4, <2>1 DEF Return, ScanFunctions, Scales
  <2>5. TypeOK'
    BY <1>0, <1>4, <2>2, <2>3, <2>4 DEF Return, TypeOK
  <2>6. call' = "none" /\ arg' \in Quota /\ target' \in Quota
    BY <1>4 DEF Return, minQuota, Quota
  <2>7. pos' \in 0..Len(table')
    BY <1>0, <1>4 DEF Return
  <2>. QED  BY <2>5, <2>6, <2>7 DEF LoopTypeOK, Scales
<1>5. CASE UNCHANGED loopVars
  BY <1>5 DEF loopVars, vars, scan, LoopTypeOK, TypeOK
<1>. QED  BY <1>1, <1>2, <1>3, <1>4, <1>5 DEF LoopNext, BeginScale

(***************************************************************************)
(* Every loop over every table keeps a quota in target, and works on the   *)
(* argument that it was called with until it returns.                      *)
(***************************************************************************)
THEOREM LoopTypeCorrect == LoopSpec => []LoopTypeOK
BY LoopTypeInit, LoopTypeStep, PTL DEF LoopSpec

-----------------------------------------------------------------------------
(* The loops: the best entry so far.                                       *)

\* No entry has been looked at before the first call.
LEMMA BestInit == LoopInit => BestSoFar
BY DEF LoopInit, BestSoFar

\* A loop that has just begun holds what it begins with.
LEMMA BestBegin ==
    ASSUME LoopTypeOK, NEW fn \in ScanFunctions, NEW q, Begin(fn, q)
    PROVE  BestSoFar'
<1>1. /\ call' = fn /\ arg' = q /\ pos' = 0 /\ target' = Start(fn, q)
      /\ table' = table
  BY DEF Begin, vars
<1>2. 1..pos' = {}
  BY <1>1
<1>3. Candidates(call', table', arg') \cap (1..pos') = {}
  BY <1>2
<1>. QED  BY <1>1, <1>3 DEF BestSoFar

\* One iteration keeps the first of the best entries.
LEMMA BestIterate ==
    ASSUME LoopTypeOK, BestSoFar, Iterate
    PROVE  BestSoFar'
<1>. DEFINE C    == Candidates(call, table, arg)
            seen == C \cap (1..pos)
            new  == pos + 1
            e    == table[new]
            s    == Start(call, arg)
            B(a, b) == Better(call, a, b)
<1>1. /\ call \in ScanFunctions /\ table \in Seq(Quota) /\ arg \in Quota /\ target \in Quota
      /\ pos \in 0..Len(table) /\ pos < Len(table) /\ Len(table) \in Nat
      /\ call # "none"
  BY DEF LoopTypeOK, TypeOK, Iterate, ScanFunctions
<1>2. /\ new \in DOMAIN table /\ new \in 1..new /\ e \in Quota /\ new \notin seen
      /\ 1..new = (1..pos) \cup {new}
      /\ \A k \in seen : k \in DOMAIN table /\ table[k] \in Quota /\ k <= new /\ k \in Nat
  <2>1. new \in DOMAIN table /\ new \in 1..new
    BY <1>1
  <2>2. e \in Quota /\ new \notin seen /\ 1..new = (1..pos) \cup {new}
    BY <1>1, <2>1
  <2>3. ASSUME NEW k \in seen
        PROVE  k \in DOMAIN table /\ table[k] \in Quota /\ k <= new /\ k \in Nat
    <3>1. k \in 1..pos
      OBVIOUS
    <3>. HIDE DEF seen
    <3>. QED  BY <1>1, <3>1
  <2>. QED  BY <2>1, <2>2, <2>3
<1>3. /\ call' = call /\ arg' = arg /\ table' = table /\ pos' = new
      /\ target' = IF Skip(call, arg, e) \/ ~ B(e, target) THEN target ELSE e
  BY DEF Iterate, vars
<1>4. s \in Quota
  BY <1>1, StartType
<1>5. new \in C <=> ~ Skip(call, arg, e) /\ B(e, s)
  BY <1>1, <1>2, CandidatesMeaning
<1>6. \A k \in seen : B(table[k], s)
  BY <1>1, <1>2, CandidatesMeaning
<1>7. /\ seen = {} => target = s
      /\ seen # {} => \E k \in seen : FirstBest(call, table, seen, k) /\ target = table[k]
  BY <1>1 DEF BestSoFar
<1>. DEFINE after == C \cap (1..new)
<1>8. after = IF new \in C THEN seen \cup {new} ELSE seen
  BY <1>2
<1>9. SUFFICES /\ after = {} => target' = s
               /\ after # {} => \E k \in after : FirstBest(call, table, after, k) /\ target' = table[k]
  BY <1>1, <1>3 DEF BestSoFar
<1>10. \A a, b, c \in Quota : /\ ~ B(a, a)
                              /\ B(a, b) /\ B(b, c) => B(a, c)
                              /\ B(a, c) => B(a, b) \/ B(b, c)
  BY <1>1, BetterOrder
<1>11. CASE seen = {}
  <2>1. CASE new \in C
    <3>1. target' = e /\ after = {new}
      BY <1>11, <2>1, <1>3, <1>5, <1>7, <1>8
    <3>2. FirstBest(call, table, {new}, new)
      BY <1>1, <1>2, <1>10 DEF FirstBest
    <3>. QED  BY <3>1, <3>2
  <2>2. CASE new \notin C
    BY <1>11, <2>2, <1>3, <1>5, <1>7, <1>8
  <2>. QED  BY <2>1, <2>2
<1>12. CASE seen # {}
  <2>1. PICK k \in seen : FirstBest(call, table, seen, k) /\ target = table[k]
    BY <1>7, <1>12
  <2>2. CASE Skip(call, arg, e) \/ ~ B(e, target)
    <3>1. target' = table[k] /\ k \in after /\ after # {}
      BY <1>3, <1>8, <2>1, <2>2
    <3>2. ASSUME NEW j \in after
          PROVE  B(table[k], table[j]) \/ (~ B(table[j], table[k]) /\ k <= j)
      <4>1. CASE j \in seen
        BY <2>1, <4>1 DEF FirstBest
      <4>2. CASE j = new /\ new \in C
        BY <1>2, <1>5, <2>1, <2>2, <4>2
      <4>. QED  BY <1>8, <3>2, <4>1, <4>2
    <3>3. FirstBest(call, table, after, k)
      BY <3>1, <3>2 DEF FirstBest
    <3>. QED  BY <3>1, <3>3
  <2>3. CASE ~ Skip(call, arg, e) /\ B(e, target)
    <3>1. table[k] \in Quota /\ B(table[k], s) /\ B(e, table[k])
      BY <1>2, <1>6, <2>1, <2>3
    <3>2. B(e, s)
      BY <1>1, <1>2, <1>4, <3>1, BetterOrder, Zenon
    <3>3. new \in C /\ new \in after /\ target' = e
      BY <1>3, <1>5, <1>8, <2>3, <3>2
    <3>4. ASSUME NEW j \in after
          PROVE  B(table[new], table[j]) \/ (~ B(table[j], table[new]) /\ new <= j)
      <4>1. CASE j \in seen
        <5>1. table[j] \in Quota /\ (B(table[k], table[j]) \/ ~ B(table[j], table[k]))
          BY <1>2, <2>1, <4>1 DEF FirstBest
        <5>2. B(e, table[j])
          BY <1>1, <1>2, <3>1, <5>1, BetterOrder, Zenon
        <5>. QED  BY <5>2
      <4>2. CASE j = new
        BY <1>1, <1>2, <1>10, <4>2
      <4>. QED  BY <1>8, <3>4, <4>1, <4>2
    <3>5. FirstBest(call, table, after, new)
      BY <3>3, <3>4 DEF FirstBest
    <3>. QED  BY <3>3, <3>5
  <2>. QED  BY <2>2, <2>3
<1>. QED  BY <1>11, <1>12

\* Every step of a loop keeps the loop invariant.
LEMMA BestStep == LoopTypeOK /\ BestSoFar /\ [LoopNext]_loopVars => BestSoFar'
<1>. SUFFICES ASSUME LoopTypeOK, BestSoFar, [LoopNext]_loopVars PROVE BestSoFar'
  OBVIOUS
<1>1. CASE BeginScale
  BY <1>1, BestBegin DEF BeginScale, ScanFunctions
<1>2. CASE BeginFloor
  BY <1>2, BestBegin DEF BeginFloor, ScanFunctions
<1>3. CASE Iterate
  BY <1>3, BestIterate
<1>4. CASE Return
  BY <1>4 DEF Return, BestSoFar
<1>5. CASE UNCHANGED loopVars
  BY <1>5 DEF loopVars, vars, scan, BestSoFar
<1>. QED  BY <1>1, <1>2, <1>3, <1>4, <1>5 DEF LoopNext

(***************************************************************************)
(* The loop invariant of the five scans, for every table: target is the    *)
(* first of the best entries seen so far, or what the loop began with.     *)
(***************************************************************************)
THEOREM BestSoFarHolds == LoopSpec => []BestSoFar
BY LoopTypeCorrect, BestInit, BestStep, PTL DEF LoopSpec

-----------------------------------------------------------------------------
(* The loops implement the functions.                                      *)

\* There is only one first best entry.
LEMMA FirstBestUnique ==
    ASSUME NEW fn \in ScanFunctions, NEW T \in Seq(Quota), NEW I \in SUBSET DOMAIN T,
           NEW k, NEW m, FirstBest(fn, T, I, k), FirstBest(fn, T, I, m)
    PROVE  k = m
<1>1. k \in I /\ m \in I /\ k \in Nat /\ m \in Nat /\ T[k] \in Quota /\ T[m] \in Quota
  <2>1. k \in I /\ m \in I
    BY DEF FirstBest
  <2>2. DOMAIN T = 1..Len(T) /\ k \in DOMAIN T /\ m \in DOMAIN T
    BY <2>1, TableFacts
  <2>. QED  BY <2>1, <2>2, TableFacts
<1>2. Better(fn, T[k], T[m]) => ~ Better(fn, T[m], T[k])
  BY <1>1, BetterOrder
<1>3. /\ Better(fn, T[k], T[m]) \/ (~ Better(fn, T[m], T[k]) /\ k <= m)
      /\ Better(fn, T[m], T[k]) \/ (~ Better(fn, T[k], T[m]) /\ m <= k)
  BY <1>1 DEF FirstBest
<1>. QED  BY <1>1, <1>2, <1>3

\* At the end of a loop its result is what module Quota says.
LEMMA ResultIsChoice ==
    ASSUME LoopTypeOK, BestSoFar, call # "none", pos = Len(table)
    PROVE  Result(call, arg, target) = Choice(call, table, arg)
<1>. DEFINE C == Candidates(call, table, arg)
            s == Start(call, arg)
<1>1. /\ call \in ScanFunctions /\ table \in Seq(Quota) /\ arg \in Quota
      /\ DOMAIN table = 1..pos
  BY DEF LoopTypeOK, TypeOK, ScanFunctions
<1>2. C \cap (1..pos) = C /\ C \in SUBSET DOMAIN table
  BY <1>1, CandidatesMeaning
<1>3. CASE C = {}
  <2>1. target = s /\ Choice(call, table, arg) = arg
    BY <1>1, <1>2, <1>3, ChoiceIsFirstBest DEF BestSoFar
  <2>2. CASE call = "Floor"
    <3>1. s = [arg EXCEPT !.mem = 0] /\ Result(call, arg, target) = IF target.mem = 0 THEN arg ELSE target
      BY <2>2 DEF Start, Result
    <3>2. s.mem = 0
      BY <1>1, <3>1 DEF Quota
    <3>. QED  BY <2>1, <3>1, <3>2
  <2>3. CASE call # "Floor"
    BY <2>1, <2>3 DEF Result
  <2>. QED  BY <2>2, <2>3
<1>4. CASE C # {}
  <2>1. PICK k \in C : FirstBest(call, table, C, k) /\ target = table[k]
    BY <1>2, <1>4 DEF BestSoFar
  <2>2. PICK m \in C : FirstBest(call, table, C, m) /\ Choice(call, table, arg) = table[m]
    BY <1>1, <1>4, ChoiceIsFirstBest
  <2>3. target = Choice(call, table, arg)
    BY <1>1, <1>2, <2>1, <2>2, FirstBestUnique
  <2>4. target \in Quota /\ s \in Quota /\ Better(call, target, s)
    BY <1>1, <1>2, <2>1, CandidatesMeaning, StartType, TableFacts
  <2>5. target # s
    BY <1>1, <2>4, BetterOrder
  <2>6. CASE call = "Floor"
    <3>1. s = [arg EXCEPT !.mem = 0] /\ Better(call, target, s) <=> target.mem > s.mem
      BY <2>6 DEF Start, Better
    <3>2. s.mem = 0 /\ target.mem \in Nat
      BY <1>1, <2>4, <2>6 DEF Quota, Start
    <3>3. target.mem # 0
      BY <2>4, <2>6, <3>2 DEF Better
    <3>. QED  BY <2>3, <2>6, <3>3 DEF Result
  <2>7. CASE call # "Floor"
    BY <2>3, <2>5, <2>7 DEF Result
  <2>. QED  BY <2>6, <2>7
<1>. QED  BY <1>3, <1>4

\* Every step of a loop is a call of QuotaCalls or leaves it alone.
LEMMA LoopStepIsCall ==
    ASSUME LoopTypeOK, BestSoFar, [LoopNext]_loopVars
    PROVE  [Next]_vars
<1>1. CASE BeginScale
  BY <1>1 DEF BeginScale, Begin
<1>2. CASE BeginFloor
  BY <1>2 DEF BeginFloor, Begin
<1>3. CASE Iterate
  BY <1>3 DEF Iterate
<1>4. CASE Return
  <2>1. /\ quota' = Choice(call, table, arg) /\ last' = call /\ table' = table
        /\ rounds' = IF call = "Floor" THEN rounds + 1 ELSE rounds
    BY <1>4, ResultIsChoice DEF Return
  <2>2. /\ call \in ScanFunctions
        /\ call \in Scales => arg = quota
        /\ call = "Floor" => arg = WithDelta(quota) /\ rounds < MaxRounds
    BY <1>4 DEF Return, LoopTypeOK, ScanFunctions
  <2>3. CASE call = "UpCpu"
    BY <2>1, <2>2, <2>3 DEF Next, ScaleUpCpu, Call, Choice, Scales
  <2>4. CASE call = "UpMemory"
    BY <2>1, <2>2, <2>4 DEF Next, ScaleUpMemory, Call, Choice, Scales
  <2>5. CASE call = "DownCpu"
    BY <2>1, <2>2, <2>5 DEF Next, ScaleDownCpu, Call, Choice, Scales
  <2>6. CASE call = "DownMemory"
    BY <2>1, <2>2, <2>6 DEF Next, ScaleDownMemory, Call, Choice, Scales
  <2>7. CASE call = "Floor"
    BY <2>1, <2>2, <2>7 DEF Next, Floor, Call, Choice
  <2>. QED  BY <2>2, <2>3, <2>4, <2>5, <2>6, <2>7 DEF ScanFunctions, Scales
<1>5. CASE UNCHANGED loopVars
  BY <1>5 DEF loopVars
<1>. QED  BY <1>1, <1>2, <1>3, <1>4, <1>5 DEF LoopNext

(***************************************************************************)
(* The loops of quota.go implement the functions as module Quota states    *)
(* them, for every table, with ties, duplicates and entries at the limits: *)
(* whatever is proved of QuotaCalls holds of the Go code.                  *)
(***************************************************************************)
THEOREM LoopsAgreeHolds == LoopSpec => LoopsAgree
<1>1. LoopInit => Init
  BY DEF LoopInit
<1>2. LoopTypeOK /\ BestSoFar /\ [LoopNext]_loopVars => [Next]_vars
  BY LoopStepIsCall
<1>. QED  BY <1>1, <1>2, LoopTypeCorrect, BestSoFarHolds, PTL DEF LoopSpec, LoopsAgree, Spec

(***************************************************************************)
(* So the loops give a pod back the entry that was asked for, climb a      *)
(* ladder rung by rung and never leave a spaced table.                     *)
(***************************************************************************)
THEOREM LoopsKeepToTheTable ==
    LoopSpec => []RoundTrip /\ []OneRungUpOneRungDown /\ StaysOnTable
<1>1. LoopSpec => Spec
  BY LoopsAgreeHolds DEF LoopsAgree
<1>. QED  BY <1>1, RoundTripHolds, OneRungHolds, StaysOnTableHolds, PTL

(***************************************************************************)
(* With the table of init(), of any length that fits below maxQuota, a     *)
(* quota that is a rung is one after any number of calls of the Go loops,  *)
(* each on the result of the one before, with DeltaMemory added before any *)
(* GetFloorMemoryQuota.                                                    *)
(***************************************************************************)
THEOREM CommittedTableWalk ==
    ASSUME NEW n \in Nat, NEW h \in Nat \ {0}, MilliPerCpu = 2 * h,
           n * BasicGiBValue < maxQuota.mem, n * h < maxQuota.cpu,
           Tables = {InitTable(n)}, Quotas \subseteq Rungs(InitTable(n))
    PROVE  LoopSpec => [](quota \in Rungs(InitTable(n)))
<1>. DEFINE OnTable == table = InitTable(n) /\ quota \in Rungs(InitTable(n))
            Keeps   == [Spaced(table) /\ quota \in Rungs(table) => quota' \in Rungs(table)]_vars
<1>1. Spaced(InitTable(n))
  BY InitTableIsLadder
<1>2. Init => OnTable
  BY DEF Init
<1>3. OnTable /\ [Next]_vars /\ Keeps => OnTable'
  <2>. SUFFICES ASSUME OnTable, [Next]_vars, Keeps PROVE OnTable'
    OBVIOUS
  <2>1. table' = table
    BY DEF Next, ScaleUpCpu, ScaleUpMemory, ScaleDownCpu, ScaleDownMemory, Floor, Call, vars
  <2>2. quota' \in Rungs(table)
    BY <1>1 DEF vars
  <2>. QED  BY <2>1, <2>2
<1>4. LoopSpec => Spec
  BY LoopsAgreeHolds DEF LoopsAgree
<1>5. Spec => [][Keeps]_vars
  BY StaysOnTableHolds, PTL DEF StaysOnTable
<1>6. Spec => []OnTable
  BY <1>2, <1>3, <1>5, PTL DEF Spec
<1>7. OnTable => quota \in Rungs(InitTable(n))
  OBVIOUS
<1>. QED  BY <1>4, <1>6, <1>7, PTL
=============================================================================
