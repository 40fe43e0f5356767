---------------------------- MODULE ToolkitProofs ----------------------------
(***************************************************************************)
(* The safety properties of module Toolkit for every interval, lag, word   *)
(* size and bound.                                                         *)
(***************************************************************************)
EXTENDS Toolkit, TLAPS

-----------------------------------------------------------------------------
(* Arithmetic of Ns, after which its definition is not needed again.       *)

\* Nanoseconds are a natural number.
LEMMA NsType ==
    ASSUME NEW a \in Nat
    PROVE  Ns(a) \in Nat
BY ToolkitConstants DEF Ns

\* Microseconds may be converted one by one.
LEMMA NsAdd ==
    ASSUME NEW a \in Nat, NEW b \in Nat
    PROVE  Ns(a + b) = Ns(a) + Ns(b)
BY ToolkitConstants DEF Ns

\* The conversion keeps the order of times.
LEMMA NsGrows ==
    ASSUME NEW a \in Nat, NEW b \in Nat, a <= b
    PROVE  Ns(a) <= Ns(b)
<1>1. PICK d \in Nat : b = a + d
  <2>1. b - a \in Nat /\ b = a + (b - a)
    OBVIOUS
  <2>. QED  BY <2>1
<1>2. Ns(b) = Ns(a) + Ns(d) /\ Ns(d) \in Nat /\ Ns(a) \in Nat
  BY <1>1, NsAdd, NsType
<1>. QED  BY <1>2

\* A positive time is at least that of one microsecond.
LEMMA NsOneLeast ==
    ASSUME NEW a \in Nat, a > 0
    PROVE  Ns(a) >= Ns(1)
BY NsGrows

\* No time is 0 ns.
LEMMA NsZero == Ns(0) = 0
BY ToolkitConstants DEF Ns

\* A difference that does not wrap.
LEMMA SmallDifference ==
    ASSUME NEW a \in Nat, NEW b \in Nat, b <= a, a < Word
    PROVE  Sub64(a, b) = a - b
<1>1. a - b \in Nat /\ a - b < Word /\ Word \in Nat \ {0}
  BY ToolkitConstants
<1>. QED  BY <1>1 DEF Sub64

\* The fields of a sample are numbers.
LEMMA SampleFields ==
    ASSUME NEW s \in Sample
    PROVE  /\ s.usage \in Nat /\ s.nrThrottled \in Nat /\ s.throttled \in Nat
           /\ s.t \in Nat /\ s.at \in Nat /\ s.gen \in Nat
BY DEF Sample

\* What is read from the cgroup's files is a sample.
LEMMA ReadingType == TypeOK => Reading \in Sample
<1>. SUFFICES ASSUME TypeOK PROVE Reading \in Sample
  OBVIOUS
<1>1. counters.usage \in Nat /\ counters.nrThrottled \in Nat /\ counters.throttled \in Nat
  BY DEF TypeOK, Counters
<1>2. Ns(counters.usage) \in Nat /\ Ns(counters.throttled) \in Nat
  BY <1>1, NsType
<1>3. now \in Nat /\ resets \in Nat
  BY ToolkitConstants DEF TypeOK
<1>. QED  BY <1>1, <1>2, <1>3 DEF Reading, Sample

\* A reading with its time is a sample.
LEMMA StampedType == TypeOK => Stamped \in Sample
<1>. SUFFICES ASSUME TypeOK PROVE Stamped \in Sample
  OBVIOUS
<1>1. now \in Nat /\ Ns(now) \in Nat
  BY NsType, ToolkitConstants DEF TypeOK
<1>. QED  BY <1>1 DEF Stamped, Sample, TypeOK

-----------------------------------------------------------------------------
(* Type correctness.                                                       *)

\* The initial states are well typed.
LEMMA TypeOKInit == Init => TypeOK
<1>. SUFFICES ASSUME Init PROVE TypeOK
  OBVIOUS
<1>1. NoSample \in Sample /\ Zero \in Counters
  BY DEF NoSample, Sample, Zero, Counters
<1>2. /\ 0 \in 0..MaxTime /\ 0 \in 0..MaxResets /\ 0 \in 0..MaxFails
      /\ made \in BOOLEAN /\ 0 \in Nat
  BY ToolkitConstants DEF Init
<1>. QED  BY <1>1, <1>2 DEF Init, TypeOK, PCs

\* Every step keeps the variables in their types.
LEMMA TypeOKStep == TypeOK /\ [Next]_vars => TypeOK'
<1>. SUFFICES ASSUME TypeOK, [Next]_vars PROVE TypeOK'
  OBVIOUS
<1>. USE DEF TypeOK, PCs, loopV, node, stats, timer
<1>0. /\ now \in Nat /\ resets \in Nat /\ fails \in Nat /\ now + Interval \in Nat
      /\ MaxTime \in Nat /\ MaxResets \in Nat /\ MaxFails \in Nat
  BY ToolkitConstants
<1>1. ASSUME NEW use \in 0..MaxUse, NEW periods \in 0..1, NEW throttle \in 0..1,
             Advance(use, periods, throttle)
      PROVE  TypeOK'
  <2>1. now' \in 0..MaxTime
    BY <1>0, <1>1 DEF Advance
  <2>2. counters' \in Counters
    <3>1. use \in Nat /\ periods \in Nat /\ throttle \in Nat
      BY ToolkitConstants
    <3>. QED  BY <1>1, <3>1 DEF Advance, Counters
  <2>3. lazy' \in BOOLEAN
    BY <1>1 DEF Advance
  <2>. QED  BY <1>1, <2>1, <2>2, <2>3 DEF Advance
<1>2. CASE Recreate
  <2>1. resets' \in 0..MaxResets
    BY <1>0, <1>2 DEF Recreate
  <2>. QED  BY <1>2, <2>1 DEF Recreate, Zero, Counters
<1>3. CASE Cancel
  BY <1>3 DEF Cancel
<1>4. CASE InitRead
  BY <1>4, ReadingType DEF InitRead
<1>5. CASE InitReadFail
  <2>1. fails' \in 0..MaxFails
    BY <1>0, <1>5 DEF InitReadFail
  <2>. QED  BY <1>5, <2>1 DEF InitReadFail
<1>6. CASE InitDone
  BY <1>0, <1>6, StampedType DEF InitDone, ResetTicker
<1>7. CASE Tick
  BY <1>7 DEF Tick
<1>8. CASE Read
  BY <1>8, ReadingType DEF Read
<1>9. CASE ReadFail
  <2>1. fails' \in 0..MaxFails
    BY <1>0, <1>9 DEF ReadFail
  <2>. QED  BY <1>0, <1>9, <2>1 DEF ReadFail, ResetTicker
<1>10. CASE Stamp
  BY <1>10, StampedType DEF Stamp
<1>11. CASE Install
  BY <1>0, <1>11 DEF Install, ResetTicker
<1>12. CASE Quit
  BY <1>12 DEF Quit
<1>13. CASE Fire
  <2>1. (now - nextTick) \div Interval \in Nat
    BY <1>0, <1>13, ToolkitConstants DEF Fire
  <2>2. nextTick' \in Nat
    <3>1. ASSUME NEW k \in Nat PROVE nextTick + Interval * (1 + k) \in Nat
      BY ToolkitConstants
    <3>. QED  BY <1>13, <2>1, <3>1 DEF Fire
  <2>. QED  BY <1>13, <2>2 DEF Fire
<1>14. CASE UNCHANGED vars
  BY <1>14 DEF vars
<1>. QED  BY <1>1, <1>2, <1>3, <1>4, <1>5, <1>6, <1>7, <1>8, <1>9, <1>10, <1>11,
             <1>12, <1>13, <1>14 DEF Next, Node, Loop

(***************************************************************************)
(* The sampler keeps its types, for every value of the constants.          *)
(***************************************************************************)
THEOREM TypeCorrect == Spec => []TypeOK
BY TypeOKInit, TypeOKStep, PTL DEF Spec
-----------------------------------------------------------------------------
(* The inductive invariant.                                                *)

\* Nothing is read or kept yet.
LEMMA IInvInit == Init => IInv
<1>. SUFFICES ASSUME Init PROVE IInv
  OBVIOUS
<1>1. TypeOK
  BY TypeOKInit
<1>2. 0 < Word
  BY ToolkitConstants
<1>3. PendOK
  BY <1>2 DEF Init, PendOK, NoSample, BelowWord
<1>4. CurOK
  BY <1>2, NsZero DEF Init, CurOK, NoSample, BelowWord, Started, Zero
<1>5. PairOK
  BY DEF Init, PairOK, Started
<1>. QED  BY <1>1, <1>3, <1>4, <1>5 DEF IInv

\* The fields and the values of Ns that the steps talk about.
LEMMA Numbers ==
    ASSUME TypeOK
    PROVE  /\ now \in Nat /\ resets \in Nat
           /\ Lag \in Nat /\ Interval \in Nat /\ Interval > 0 /\ Word \in Nat
           /\ counters.usage \in Nat /\ counters.nrThrottled \in Nat
           /\ counters.throttled \in Nat
           /\ Ns(now) \in Nat /\ Ns(Lag) \in Nat
           /\ Ns(counters.usage) \in Nat /\ Ns(counters.throttled) \in Nat
           /\ \A s \in {pend, last, cur} :
                 /\ s.usage \in Nat /\ s.nrThrottled \in Nat /\ s.throttled \in Nat
                 /\ s.t \in Nat /\ s.at \in Nat /\ s.gen \in Nat
                 /\ Ns(s.at) \in Nat
<1>1. /\ now \in Nat /\ resets \in Nat
      /\ Lag \in Nat /\ Interval \in Nat /\ Interval > 0 /\ Word \in Nat
  BY ToolkitConstants DEF TypeOK
<1>2. /\ counters.usage \in Nat /\ counters.nrThrottled \in Nat
      /\ counters.throttled \in Nat
  BY DEF TypeOK, Counters
<1>3. \A s \in {pend, last, cur} :
         /\ s.usage \in Nat /\ s.nrThrottled \in Nat /\ s.throttled \in Nat
         /\ s.t \in Nat /\ s.at \in Nat /\ s.gen \in Nat
  BY SampleFields DEF TypeOK
<1>. QED  BY <1>1, <1>2, <1>3, NsType
\* One usec passes.
LEMMA IInvAdvance ==
    ASSUME IInv, NEW use \in 0..MaxUse, NEW periods \in 0..1, NEW throttle \in 0..1,
           Advance(use, periods, throttle)
    PROVE  PendOK' /\ CurOK' /\ PairOK'
<1>. USE DEF loopV, stats
<1>1. TypeOK /\ PendOK /\ CurOK /\ PairOK
  BY DEF IInv
<1>2. use \in Nat /\ periods \in Nat /\ throttle \in Nat
  BY ToolkitConstants
<1>3. /\ Ns(now + 1) = Ns(now) + Ns(1) /\ Ns(1) \in Nat
      /\ Ns(counters.usage + use) = Ns(counters.usage) + Ns(use) /\ Ns(use) \in Nat
      /\ Ns(counters.throttled + throttle) = Ns(counters.throttled) + Ns(throttle)
      /\ Ns(throttle) \in Nat
      /\ use # 0 => Ns(use) >= Ns(1)
  <2>1. now \in Nat /\ counters.usage \in Nat /\ counters.throttled \in Nat /\ 1 \in Nat
    BY <1>1, Numbers
  <2>2. Ns(now + 1) = Ns(now) + Ns(1) /\ Ns(1) \in Nat
    BY <2>1, NsAdd, NsType
  <2>3. Ns(counters.usage + use) = Ns(counters.usage) + Ns(use) /\ Ns(use) \in Nat
    BY <1>2, <2>1, NsAdd, NsType
  <2>4. /\ Ns(counters.throttled + throttle) = Ns(counters.throttled) + Ns(throttle)
        /\ Ns(throttle) \in Nat
    BY <1>2, <2>1, NsAdd, NsType
  <2>5. use # 0 => Ns(use) >= Ns(1)
    BY <1>2, NsOneLeast
  <2>. QED  BY <2>2, <2>3, <2>4, <2>5
<1>4. /\ now' = now + 1
      /\ counters'.usage = counters.usage + use
      /\ counters'.nrThrottled = counters.nrThrottled + periods
      /\ counters'.throttled = counters.throttled + throttle
      /\ lazy' = (lazy \/ use = 0)
      /\ UNCHANGED <<resets, pc, pend, last, cur>>
  BY DEF Advance
<1>5. ASSUME NEW s \in {pend, last, cur}, Follows(s, Reading)
      PROVE  Follows(s, Reading)'
  <2>1. /\ s.usage \in Nat /\ s.nrThrottled \in Nat /\ s.throttled \in Nat
        /\ s.at \in Nat /\ Ns(s.at) \in Nat
        /\ Ns(now) \in Nat /\ counters.nrThrottled \in Nat
        /\ Ns(counters.usage) \in Nat /\ Ns(counters.throttled) \in Nat
    BY <1>1, Numbers
  <2>2. s.gen = resets => /\ s.usage <= Ns(counters.usage)
                          /\ s.nrThrottled <= counters.nrThrottled
                          /\ s.throttled <= Ns(counters.throttled)
    BY <1>5 DEF Follows, Reading
  <2>3. ~ lazy => Ns(now) - Ns(s.at) <= Ns(counters.usage) - s.usage
    BY <1>5 DEF Follows, Reading
  <2>4. s.gen = resets => /\ s.usage <= Ns(counters.usage + use)
                          /\ s.nrThrottled <= counters.nrThrottled + periods
                          /\ s.throttled <= Ns(counters.throttled + throttle)
    BY <1>2, <1>3, <2>1, <2>2
  <2>5. ~ lazy /\ use # 0 => Ns(now + 1) - Ns(s.at) <= Ns(counters.usage + use) - s.usage
    BY <1>3, <2>1, <2>3
  <2>. QED  BY <1>4, <2>4, <2>5 DEF Follows, Reading
<1>6. ASSUME NEW s \in {pend, last, cur}, WellTimed(s, now)
      PROVE  WellTimed(s, now)'
  BY <1>1, <1>3, <1>4, <1>6, Numbers DEF WellTimed
<1>7. ASSUME NEW a \in {pend, last, cur}, NEW b \in {pend, last, cur}, Follows(a, b)
      PROVE  Follows(a, b)'
  BY <1>4, <1>7 DEF Follows
<1>8. PendOK'
  BY <1>1, <1>4, <1>5, <1>6, <1>7, Numbers DEF PendOK, BelowWord, Advance
<1>9. CurOK'
  BY <1>1, <1>2, <1>3, <1>4, <1>5, <1>6, Numbers DEF CurOK, BelowWord, Advance, Started
<1>10. PairOK'
  BY <1>1, <1>4, <1>6, <1>7 DEF PairOK, Started
<1>. QED  BY <1>8, <1>9, <1>10
\* The cgroup is made again: no sample is of the new incarnation yet.
LEMMA IInvRecreate ==
    ASSUME IInv, Recreate
    PROVE  PendOK' /\ CurOK' /\ PairOK'
<1>. USE DEF loopV, stats
<1>1. TypeOK /\ PendOK /\ CurOK /\ PairOK
  BY DEF IInv
<1>2. /\ resets' = resets + 1 /\ lazy'
      /\ counters'.usage = 0 /\ counters'.throttled = 0 /\ Ns(0) < Word
      /\ UNCHANGED <<now, pc, pend, last, cur>>
  BY NsZero, ToolkitConstants DEF Recreate, Zero
<1>3. ASSUME NEW s \in {pend, last, cur}, s.gen <= resets
      PROVE  Follows(s, Reading)' /\ s.gen <= resets'
  BY <1>1, <1>2, <1>3, Numbers DEF Follows, Reading
<1>4. ASSUME NEW a \in {pend, last, cur}, NEW b \in {pend, last, cur}, Follows(a, b)
      PROVE  Follows(a, b)'
  BY <1>2, <1>4 DEF Follows
<1>5. PendOK'
  BY <1>1, <1>2, <1>3, <1>4 DEF PendOK, BelowWord, WellTimed
<1>6. CurOK'
  BY <1>1, <1>2, <1>3, NsZero DEF CurOK, BelowWord, WellTimed, Started
<1>7. PairOK'
  BY <1>1, <1>2, <1>4 DEF PairOK, Started, WellTimed
<1>. QED  BY <1>5, <1>6, <1>7

\* A sample follows itself, and stamping it does not change what it follows.
LEMMA ReadingFollows == TypeOK => Follows(Reading, Reading)
BY Numbers DEF Follows, Reading

\* A reading, of Init() or of loop().
LEMMA IInvRead ==
    ASSUME IInv, InitRead \/ Read
    PROVE  PendOK' /\ CurOK' /\ PairOK'
<1>. USE DEF node, stats
<1>1. TypeOK /\ PendOK /\ CurOK /\ PairOK
  BY DEF IInv
<1>2. /\ pend' = Reading
      /\ \/ pc = "none" /\ pc' = "initStamp"
         \/ pc = "read" /\ pc' = "stamp"
      /\ UNCHANGED <<now, counters, resets, lazy, last, cur>>
  BY DEF InitRead, Read
<1>3. Reading' = Reading /\ Follows(Reading, Reading)
  BY <1>1, <1>2, ReadingFollows DEF Reading
<1>4. /\ Reading.usage = Ns(counters.usage) /\ Reading.throttled = Ns(counters.throttled)
      /\ Reading.at = now /\ Reading.gen = resets
  BY DEF Reading
<1>5. PendOK'
  <2>1. BelowWord(pend)' /\ pend'.gen <= resets' /\ pend'.at = now' /\ now' - pend'.at <= Lag
    BY <1>1, <1>2, <1>4, Numbers DEF BelowWord, CurOK
  <2>2. Follows(pend, Reading)'
    BY <1>2, <1>3 DEF Follows
  <2>3. pc' = "stamp" => cur'.t <= Ns(pend'.at) /\ Follows(cur, pend)'
    BY <1>1, <1>2, <1>4 DEF CurOK, Started, Follows, WellTimed
  <2>. QED  BY <1>1, <1>2, <2>1, <2>2, <2>3, Numbers DEF PendOK
<1>6. CurOK'
  BY <1>1, <1>2, <1>3 DEF CurOK, BelowWord, WellTimed, Started, Follows
<1>7. PairOK'
  BY <1>1, <1>2 DEF PairOK, Started, WellTimed, Follows
<1>. QED  BY <1>5, <1>6, <1>7

\* time.Now() after a reading.
LEMMA StampedOK ==
    ASSUME IInv, pc \in {"initStamp", "stamp"}
    PROVE  /\ WellTimed(Stamped, now)
           /\ Stamped.at = pend.at /\ Stamped.gen = pend.gen /\ Stamped.usage = pend.usage
           /\ Stamped.nrThrottled = pend.nrThrottled /\ Stamped.throttled = pend.throttled
<1>1. TypeOK /\ PendOK
  BY DEF IInv
<1>2. /\ Stamped.at = pend.at /\ Stamped.gen = pend.gen /\ Stamped.usage = pend.usage
      /\ Stamped.nrThrottled = pend.nrThrottled /\ Stamped.throttled = pend.throttled
      /\ Stamped.t = Ns(now)
  BY <1>1 DEF Stamped, TypeOK, Sample
<1>3. pend.at <= now /\ now <= pend.at + Lag /\ pend.at \in Nat /\ now \in Nat /\ Lag \in Nat
  BY <1>1, Numbers DEF PendOK
<1>4. Ns(pend.at) <= Ns(now) /\ Ns(now) <= Ns(pend.at) + Ns(Lag)
  <2>1. Ns(pend.at) <= Ns(now)
    BY <1>3, NsGrows
  <2>2. Ns(pend.at + Lag) = Ns(pend.at) + Ns(Lag)
    BY <1>3, NsAdd
  <2>3. Ns(now) <= Ns(pend.at + Lag)
    <3>1. pend.at + Lag \in Nat
      BY <1>3
    <3>. QED  BY <1>3, <3>1, NsGrows
  <2>. QED  BY <2>1, <2>2, <2>3
<1>5. Ns(now) \in Nat /\ Ns(now) <= Ns(now)
  BY <1>1, Numbers
<1>. QED  BY <1>2, <1>4, <1>5 DEF WellTimed

\* The first two samples.
LEMMA IInvInitDone ==
    ASSUME IInv, InitDone
    PROVE  PendOK' /\ CurOK' /\ PairOK'
<1>. USE DEF node
<1>1. TypeOK /\ PendOK /\ CurOK /\ PairOK
  BY DEF IInv
<1>2. /\ pc = "initStamp" /\ pc' \in {"select", "panic"}
      /\ cur' = Stamped /\ last' = Stamped
      /\ UNCHANGED <<now, counters, resets, lazy, pend>>
  BY DEF InitDone
<1>3. /\ WellTimed(Stamped, now)
      /\ Stamped.at = pend.at /\ Stamped.gen = pend.gen /\ Stamped.usage = pend.usage
      /\ Stamped.nrThrottled = pend.nrThrottled /\ Stamped.throttled = pend.throttled
  BY <1>2, StampedOK
<1>4. PendOK'
  BY <1>1, <1>2 DEF PendOK, BelowWord
<1>5. CurOK'
  <2>1. WellTimed(cur, now)'
    BY <1>2, <1>3 DEF WellTimed
  <2>2. Follows(cur, Reading)'
    BY <1>1, <1>2, <1>3 DEF Follows, PendOK, Reading
  <2>3. BelowWord(last)' /\ BelowWord(cur)' /\ cur'.gen <= resets'
    BY <1>1, <1>2, <1>3 DEF BelowWord, PendOK
  <2>. QED  BY <1>1, <1>2, <2>1, <2>2, <2>3 DEF CurOK
<1>6. PairOK'
  BY <1>2 DEF PairOK, Started
<1>. QED  BY <1>4, <1>5, <1>6

\* A reading gets its time.
LEMMA IInvStamp ==
    ASSUME IInv, Stamp
    PROVE  PendOK' /\ CurOK' /\ PairOK'
<1>. USE DEF node, stats
<1>1. TypeOK /\ PendOK /\ CurOK /\ PairOK
  BY DEF IInv
<1>2. /\ pc = "stamp" /\ pc' = "lock" /\ pend' = Stamped
      /\ UNCHANGED <<now, counters, resets, lazy, last, cur>>
  BY DEF Stamp
<1>3. /\ WellTimed(Stamped, now)
      /\ Stamped.at = pend.at /\ Stamped.gen = pend.gen /\ Stamped.usage = pend.usage
      /\ Stamped.nrThrottled = pend.nrThrottled /\ Stamped.throttled = pend.throttled
  BY <1>2, StampedOK
<1>4. PendOK'
  BY <1>1, <1>2, <1>3 DEF PendOK, BelowWord, WellTimed, Follows, Reading
<1>5. CurOK'
  BY <1>1, <1>2 DEF CurOK, BelowWord, WellTimed, Follows, Reading, Started
<1>6. PairOK'
  BY <1>1, <1>2 DEF PairOK, Started, WellTimed, Follows
<1>. QED  BY <1>4, <1>5, <1>6

\* A reading becomes the current sample, the current one the last.
LEMMA IInvInstall ==
    ASSUME IInv, Install
    PROVE  PendOK' /\ CurOK' /\ PairOK'
<1>. USE DEF node
<1>1. TypeOK /\ PendOK /\ CurOK /\ PairOK
  BY DEF IInv
<1>2. /\ pc = "lock" /\ pc' = "select" /\ last' = cur /\ cur' = pend
      /\ UNCHANGED <<now, counters, resets, lazy, pend>>
  BY DEF Install
<1>3. /\ WellTimed(cur, now) /\ WellTimed(pend, now)
      /\ cur.t <= Ns(pend.at) /\ Follows(cur, pend) /\ Follows(pend, Reading)
  BY <1>1, <1>2 DEF CurOK, PendOK, Started
<1>4. PendOK'
  BY <1>1, <1>2 DEF PendOK, BelowWord
<1>5. CurOK'
  BY <1>1, <1>2, <1>3 DEF CurOK, PendOK, BelowWord, WellTimed, Follows, Reading
<1>6. PairOK'
  BY <1>2, <1>3 DEF PairOK, Started, WellTimed, Follows
<1>. QED  BY <1>4, <1>5, <1>6

\* A reading that fails leaves both samples.
LEMMA IInvReadFail ==
    ASSUME IInv, ReadFail
    PROVE  PendOK' /\ CurOK' /\ PairOK'
<1>. USE DEF node, stats
<1>1. TypeOK /\ PendOK /\ CurOK /\ PairOK
  BY DEF IInv
<1>2. /\ pc = "read" /\ pc' = "select"
      /\ UNCHANGED <<now, counters, resets, lazy, pend, last, cur>>
  BY DEF ReadFail
<1>3. PendOK'
  BY <1>1, <1>2 DEF PendOK, BelowWord
<1>4. CurOK'
  BY <1>1, <1>2 DEF CurOK, BelowWord, WellTimed, Follows, Reading, Started
<1>5. PairOK'
  BY <1>1, <1>2 DEF PairOK, Started, WellTimed, Follows
<1>. QED  BY <1>3, <1>4, <1>5

\* The steps that change neither a sample nor a counter nor the clock.
LEMMA IInvQuiet ==
    ASSUME IInv, Cancel \/ Fire \/ InitReadFail \/ Tick \/ Quit \/ UNCHANGED vars
    PROVE  PendOK' /\ CurOK' /\ PairOK'
<1>. USE DEF node, stats, loopV
<1>1. TypeOK /\ PendOK /\ CurOK /\ PairOK
  BY DEF IInv
<1>2. /\ \/ pc' = pc
         \/ pc = "select" /\ pc' = "read"
         \/ pc = "select" /\ pc' = "quit"
      /\ UNCHANGED <<now, counters, resets, lazy, pend, last, cur>>
  BY DEF Cancel, Fire, InitReadFail, Tick, Quit, vars
<1>3. PendOK'
  BY <1>1, <1>2 DEF PendOK, BelowWord, WellTimed, Follows, Reading
<1>4. CurOK'
  BY <1>1, <1>2, Numbers DEF CurOK, BelowWord, WellTimed, Follows, Reading, Started
<1>5. PairOK'
  BY <1>1, <1>2 DEF PairOK, Started, WellTimed, Follows
<1>. QED  BY <1>3, <1>4, <1>5

\* Every step keeps the samples in order.
LEMMA IInvStep == IInv /\ [Next]_vars => IInv'
<1>. SUFFICES ASSUME IInv, [Next]_vars PROVE IInv'
  OBVIOUS
<1>1. TypeOK'
  BY TypeOKStep DEF IInv
<1>2. PendOK' /\ CurOK' /\ PairOK'
  BY IInvAdvance, IInvRecreate, IInvRead, IInvInitDone, IInvStamp, IInvInstall,
     IInvReadFail, IInvQuiet DEF Next, Node, Loop
<1>. QED  BY <1>1, <1>2 DEF IInv
(***************************************************************************)
(* The inductive invariant holds.                                          *)
(***************************************************************************)
THEOREM IInvHolds == Spec => []IInv
BY IInvInit, IInvStep, PTL DEF Spec

-----------------------------------------------------------------------------
(***************************************************************************)
(* The two samples of a toolkit never cross, whatever the delays, failures *)
(* and resets, and however close two ticks are.                            *)
(***************************************************************************)
THEOREM SamplesOrderedHolds == Spec => []SamplesOrdered
<1>1. IInv => SamplesOrdered
  <2>. SUFFICES ASSUME IInv, last # cur
                PROVE  /\ Ns(last.at) <= last.t /\ last.t <= Ns(cur.at)
                       /\ Ns(cur.at) <= cur.t /\ cur.t <= Ns(now)
    BY DEF SamplesOrdered
  <2>1. WellTimed(last, now) /\ WellTimed(cur, now) /\ last.t <= Ns(cur.at)
    BY DEF IInv, PairOK, CurOK
  <2>. QED  BY <2>1 DEF WellTimed
<1>. QED  BY <1>1, IInvHolds, PTL

(***************************************************************************)
(* Without a reset both rates are the growth of the counters; with one the *)
(* CPU rate does not wrap.                                                 *)
(***************************************************************************)
THEOREM RatesExactHolds == Spec => []RatesExact
<1>1. IInv => RatesExact
  <2>. SUFFICES ASSUME IInv PROVE RatesExact
    OBVIOUS
  <2>1. /\ last.usage \in Nat /\ cur.usage \in Nat /\ last.usage < Word /\ cur.usage < Word
        /\ last.throttled \in Nat /\ cur.throttled \in Nat /\ cur.throttled < Word
        /\ last.nrThrottled \in Nat /\ cur.nrThrottled \in Nat
        /\ last.t \in Nat /\ cur.t \in Nat
    BY Numbers DEF IInv, CurOK, BelowWord
  <2>2. ASSUME last.t # cur.t, last.gen = cur.gen
        PROVE  /\ CalculateCpuRate.num = cur.usage - last.usage
               /\ CalculateThrottleRate.num = cur.throttled - last.throttled
    <3>1. /\ last.usage <= cur.usage /\ last.throttled <= cur.throttled
          /\ ~ (cur.nrThrottled < last.nrThrottled)
      BY <2>1, <2>2 DEF IInv, PairOK, Follows
    <3>2. /\ Sub64(cur.usage, last.usage) = cur.usage - last.usage
          /\ Sub64(cur.throttled, last.throttled) = cur.throttled - last.throttled
      BY <2>1, <3>1, SmallDifference
    <3>3. ~ (cur.usage < last.usage)
      BY <2>1, <3>1
    <3>. QED  BY <2>2, <3>1, <3>2, <3>3 DEF CalculateCpuRate, CalculateThrottleRate
  <2>3. CalculateCpuRate.num <= cur.usage
    <3>1. CASE last.t = cur.t \/ cur.usage < last.usage
      BY <2>1, <3>1 DEF CalculateCpuRate
    <3>2. CASE ~ (last.t = cur.t \/ cur.usage < last.usage)
      <4>1. CalculateCpuRate.num = cur.usage - last.usage
        BY <2>1, <3>2, SmallDifference DEF CalculateCpuRate
      <4>. QED  BY <2>1, <4>1
    <3>. QED  BY <3>1, <3>2
  <2>. QED  BY <2>2, <2>3 DEF RatesExact
<1>. QED  BY <1>1, IInvHolds, PTL

\* The arithmetic of the busy pod: u of CPU in a window of at most d + l, d of
\* it between the readings.
LEMMA BusyArithmetic ==
    ASSUME NEW p \in Nat, NEW u \in Nat, NEW d \in Nat, NEW l \in Nat,
           d <= u, p * u <= d + l
    PROVE  (p - 1) * d <= l
<1>1. p * d <= p * u
  BY SMT
<1>2. (p - 1) * d = p * d - d
  BY SMT
<1>3. p * d \in Nat /\ p * u \in Nat
  OBVIOUS
<1>. QED  BY <1>1, <1>2, <1>3

(***************************************************************************)
(* A pod that keeps a CPU busy is taken for an idle one only on samples    *)
(* with one time or on readings that are too close for the delay of the    *)
(* newer one's time.                                                       *)
(***************************************************************************)
THEOREM BusyIdleOnlyIfCloseHolds == Spec => []BusyIdleOnlyIfClose
<1>1. IInv => BusyIdleOnlyIfClose
  <2>. DEFINE D == Ns(cur.at) - Ns(last.at)
              U == cur.usage - last.usage
              L == cur.t - Ns(cur.at)
  <2>. SUFFICES ASSUME IInv, ~ lazy, CheckScaleDown, last.t # cur.t
                PROVE  (PerLowerRate - 1) * D <= L
    BY DEF BusyIdleOnlyIfClose
  <2>1. /\ last.usage \in Nat /\ cur.usage \in Nat /\ last.usage < Word /\ cur.usage < Word
        /\ last.t \in Nat /\ cur.t \in Nat /\ Ns(last.at) \in Nat /\ Ns(cur.at) \in Nat
    BY Numbers DEF IInv, CurOK, BelowWord
  <2>2. /\ Ns(last.at) <= last.t /\ Ns(cur.at) <= cur.t /\ last.t <= Ns(cur.at)
        /\ D <= U
    BY DEF IInv, PairOK, CurOK, WellTimed, Follows
  <2>3. /\ D \in Nat /\ U \in Nat /\ L \in Nat
        /\ cur.t - last.t <= D + L /\ cur.t - last.t \in Nat /\ last.usage <= cur.usage
    BY <2>1, <2>2
  <2>4. CalculateCpuRate.num = U /\ CalculateCpuRate.den = cur.t - last.t
    BY <2>1, <2>3, SmallDifference DEF CalculateCpuRate
  <2>5. PerLowerRate * U <= cur.t - last.t
    <3>. HIDE DEF U
    <3>. QED  BY <2>4 DEF CheckScaleDown
  <2>6. PerLowerRate * U <= D + L
    <3>. HIDE DEF D, U, L
    <3>1. PerLowerRate * U \in Nat /\ D + L \in Nat
      BY <2>3, ToolkitConstants
    <3>. QED  BY <2>3, <2>5, <3>1
  <2>. HIDE DEF D, U, L
  <2>. QED  BY <2>2, <2>3, <2>6, BusyArithmetic, ToolkitConstants
<1>. QED  BY <1>1, IInvHolds, PTL
=============================================================================
