------------------------------- MODULE Toolkit -------------------------------
(***************************************************************************)
(* pkg/util/cgroupv2/toolkit.go (LinuxToolkit) and the decisions that      *)
(* pkg/scale/manager.go takes from it.                                     *)
(*                                                                         *)
(* The toolkit's own goroutine samples the cpu.stat file of one cgroup and *)
(* keeps the last two samples; the pod's worker asks for the throttle rate *)
(* and the CPU rate between them.  A sample is a reading of the counters   *)
(* and a time, and the two are not taken together: getCpuStat reads the    *)
(* file first and calls time.Now() when it returns.                        *)
(*                                                                         *)
(* The ticker is Go 1.22's (go.mod, Dockerfile): its channel holds a tick, *)
(* and Reset moves the next one but leaves the one that is there, so that  *)
(* after an iteration of more than an interval the next one follows at     *)
(* once and two samples may be as close as they like.                      *)
(*                                                                         *)
(* Time is counted in usec, as the kernel's counters are; the toolkit      *)
(* turns both into nsec.  The two rates are only compared with zero and    *)
(* with lowerCpuRate, so they are kept as fractions.                       *)
(***************************************************************************)
EXTENDS Integers

CONSTANTS Interval,    \* usec between two samples (100ms)
          Lag,         \* most usec between a reading and its time.Now()
          Usec,        \* nsec in a usec
          PerLowerRate,  \* 1/lowerCpuRate: 10
          Word,        \* 2^64: the counters are uint64
          MaxUse,      \* most usec of CPU used in a usec (the node's CPUs)
          MaxTime,     \* bound on the clock
          MaxResets,   \* bound on the times the cgroup is made again
          MaxFails,    \* bound on the readings that fail
          TickerMade   \* is loop()'s ticker made?  {FALSE} in the source

ASSUME ToolkitConstants ==
    /\ Interval \in Nat \ {0}
    /\ Lag \in Nat
    /\ Usec \in Nat \ {0}
    /\ PerLowerRate \in Nat
    /\ Word \in Nat \ {0}
    /\ MaxUse \in Nat
    /\ MaxTime \in Nat
    /\ MaxResets \in Nat
    /\ MaxFails \in Nat
    /\ TickerMade \subseteq BOOLEAN

VARIABLES
    (* the node *)
    now,        \* the clock, in usec
    counters,   \* the cgroup's cpu.stat, times in usec
    resets,     \* how often the cgroup was made again, counters at zero
    lazy,       \* history: some usec passed without CPU use, or a reset
    (* the goroutines *)
    made,       \* rigid: is the ticker of loop() made?
    pc,         \* where Init() or loop() is
    pend,       \* the sample being taken
    tickC,      \* is there a tick in ticker.C?
    nextTick,   \* when the ticker puts one there next
    fails,      \* readings that failed
    ctxDone,    \* t.ctx is cancelled
    (* LinuxToolkit *)
    last,       \* lastCpuStats, lastCpuTime
    cur         \* curCpuStat, curCpuTime

node   == <<now, counters, resets, lazy>>
timer  == <<tickC, nextTick>>
loopV  == <<made, pc, pend, timer, fails, ctxDone>>
stats  == <<last, cur>>
vars   == <<node, loopV, stats>>

Counters == [usage : Nat, nrThrottled : Nat, throttled : Nat]

\* What getCpuStat returns (usage, nrThrottled, throttled, in nsec; t, the
\* time in nsec), with the history of the reading: when it was made (at, in
\* usec) and of which incarnation of the cgroup (gen).
Sample == [usage : Nat, nrThrottled : Nat, throttled : Nat,
           t : Nat, at : Nat, gen : Nat]

Zero == [usage |-> 0, nrThrottled |-> 0, throttled |-> 0]

NoSample == [usage |-> 0, nrThrottled |-> 0, throttled |-> 0,
             t |-> 0, at |-> 0, gen |-> 0]

-----------------------------------------------------------------------------
(* getCpuStat: the keys of cpu.stat that are used, usec turned to nsec.    *)

Ns(usec) == usec * Usec

\* Mutant: usage_usec taken for nsec.
ReadingInUsec == [ usage       |-> counters.usage,
                   nrThrottled |-> counters.nrThrottled,
                   throttled   |-> Ns(counters.throttled),
                   t           |-> 0,
                   at          |-> now,
                   gen         |-> resets ]

Reading == [ usage       |-> Ns(counters.usage),
             nrThrottled |-> counters.nrThrottled,
             throttled   |-> Ns(counters.throttled),
             t           |-> 0,
             at          |-> now,
             gen         |-> resets ]

\* Mutant: the sample is dated to the start of its interval.
Backdated == [pend EXCEPT !.t = Ns(now) - Ns(Interval)]

Stamped == [pend EXCEPT !.t = Ns(now)]

\* Subtraction of uint64.
Sub64(a, b) == (a - b) % Word

(***************************************************************************)
(* CalculateThrottleRate and CalculateCpuRate, as num/den.  Each takes the *)
(* mutex for the whole computation.                                        *)
(***************************************************************************)
CalculateThrottleRate ==
    IF last.t = cur.t \/ cur.nrThrottled < last.nrThrottled
    THEN [num |-> 0, den |-> 1]
    ELSE [num |-> Sub64(cur.throttled, last.throttled), den |-> cur.t - last.t]

\* Mutant: no guard against a counter that was reset.
UnguardedCpuRate ==
    IF last.t = cur.t
    THEN [num |-> 0, den |-> 1]
    ELSE [num |-> Sub64(cur.usage, last.usage), den |-> cur.t - last.t]

CalculateCpuRate ==
    IF last.t = cur.t \/ cur.usage < last.usage
    THEN [num |-> 0, den |-> 1]
    ELSE [num |-> Sub64(cur.usage, last.usage), den |-> cur.t - last.t]

\* pkg/scale: rate > 0.0, and cpuRate <= lowerCpuRate (0.1).  CheckScaleUp's
\* second strategy, HasMemoryHighEvent, always answers false.
CheckScaleUp   == CalculateThrottleRate.num > 0
CheckScaleDown == PerLowerRate * CalculateCpuRate.num <= CalculateCpuRate.den

-----------------------------------------------------------------------------
Init == /\ now = 0 /\ counters = Zero /\ resets = 0 /\ lazy = FALSE
        /\ made \in TickerMade
        /\ pc = "none" /\ pend = NoSample /\ tickC = FALSE /\ nextTick = 0 /\ fails = 0
        /\ ctxDone = FALSE
        /\ last = NoSample /\ cur = NoSample

(* The node. *)

\* One usec passes.  The counters stay below 2^64 (584 years of nsec).
Advance(use, periods, throttle) ==
    /\ now < MaxTime
    /\ pc \in {"initStamp", "stamp"} => now - pend.at < Lag
    /\ throttle > 0 => counters.nrThrottled + periods > 0
    /\ Ns(counters.usage + use) < Word
    /\ Ns(counters.throttled + throttle) < Word
    /\ now' = now + 1
    /\ counters' = [ usage       |-> counters.usage + use,
                     nrThrottled |-> counters.nrThrottled + periods,
                     throttled   |-> counters.throttled + throttle ]
    /\ lazy' = (lazy \/ use = 0)
    /\ UNCHANGED <<resets, loopV, stats>>

\* The runtime's timer of the ticker: a tick is dropped when there is one.
Fire == /\ made /\ pc \notin {"none", "initStamp"}
        /\ now >= nextTick
        /\ tickC' = TRUE
        /\ nextTick' = nextTick + Interval * (1 + (now - nextTick) \div Interval)
        /\ UNCHANGED <<node, made, pc, pend, fails, ctxDone, stats>>

\* The cgroup is removed and made again under the same name.
Recreate == /\ resets < MaxResets
            /\ resets' = resets + 1
            /\ counters' = Zero
            /\ lazy' = TRUE
            /\ UNCHANGED <<now, loopV, stats>>

Cancel == /\ ~ ctxDone
          /\ ctxDone' = TRUE
          /\ UNCHANGED <<node, made, pc, pend, timer, fails, stats>>

(* Init(), called by the worker's goroutine. *)

InitRead == /\ pc = "none"
            /\ pend' = Reading
            /\ pc' = "initStamp"
            /\ UNCHANGED <<node, made, timer, fails, ctxDone, stats>>

\* Init returns the error; the worker drops the toolkit and makes a new one
\* at its next tick.
InitReadFail == /\ pc = "none"
                /\ fails < MaxFails
                /\ fails' = fails + 1
                /\ UNCHANGED <<node, made, pc, pend, timer, ctxDone, stats>>

\* ticker.Reset: what is in the channel stays there.
ResetTicker == nextTick' = now + Interval /\ UNCHANGED tickC

\* Both samples are the first one, and loop() starts: ticker.Reset panics
\* on a ticker that was not made.
InitDone == /\ pc = "initStamp"
            /\ last' = Stamped
            /\ cur' = Stamped
            /\ pc' = IF made THEN "select" ELSE "panic"
            /\ ResetTicker
            /\ UNCHANGED <<node, made, pend, fails, ctxDone>>

(* loop() *)

Tick == /\ pc = "select"
        /\ tickC
        /\ tickC' = FALSE
        /\ pc' = "read"
        /\ UNCHANGED <<node, made, pend, nextTick, fails, ctxDone, stats>>

Read == /\ pc = "read"
        /\ pend' = Reading
        /\ pc' = "stamp"
        /\ UNCHANGED <<node, made, timer, fails, ctxDone, stats>>

\* Mutant: no continue after the error; getCpuStat returned a zero CpuStat.
ReadFailGoesOn == /\ pc = "read"
                  /\ fails < MaxFails
                  /\ fails' = fails + 1
                  /\ pc' = "lock"
                  /\ pend' = NoSample
                  /\ UNCHANGED <<node, made, timer, ctxDone, stats>>

\* The samples stay as they are; back to ticker.Reset.
ReadFail == /\ pc = "read"
            /\ fails < MaxFails
            /\ fails' = fails + 1
            /\ pc' = "select"
            /\ ResetTicker
            /\ UNCHANGED <<node, made, pend, ctxDone, stats>>

Stamp == /\ pc = "stamp"
         /\ pend' = Stamped
         /\ pc' = "lock"
         /\ UNCHANGED <<node, made, timer, fails, ctxDone, stats>>

\* Mutant: the new sample is installed as the older of the two.
InstallSwapped == /\ pc = "lock"
                  /\ last' = pend
                  /\ pc' = "select"
                  /\ ResetTicker
                  /\ UNCHANGED <<node, made, pend, fails, ctxDone, cur>>

\* Under the mutex, then ticker.Reset.
Install == /\ pc = "lock"
           /\ last' = cur
           /\ cur' = pend
           /\ pc' = "select"
           /\ ResetTicker
           /\ UNCHANGED <<node, made, pend, fails, ctxDone>>

\* Mutant: break leaves the select and not the loop.
QuitSelectOnly == /\ pc = "select"
                  /\ ctxDone
                  /\ UNCHANGED vars

Quit == /\ pc = "select"
        /\ ctxDone
        /\ pc' = "quit"
        /\ UNCHANGED <<node, made, pend, timer, fails, ctxDone, stats>>

-----------------------------------------------------------------------------
\* nr_throttled is counted when a period ends, throttled_usec when the group
\* runs again: no time is counted before the first period.
Node == \/ \E use \in 0..MaxUse, periods, throttle \in 0..1 : Advance(use, periods, throttle)
        \/ Fire
        \/ Recreate
        \/ Cancel

Loop == Tick \/ Read \/ ReadFail \/ Stamp \/ Install \/ Quit

\* A panic in any goroutine ends the process.
Next == \/ pc # "panic" /\ Node
        \/ InitRead
        \/ InitReadFail
        \/ InitDone
        \/ Loop

\* The Go scheduler runs both goroutines; select takes a ready ctx.Done()
\* with probability 1 when it is offered again and again.
Fairness == /\ WF_vars(InitDone)
            /\ WF_vars(Read \/ ReadFail)
            /\ WF_vars(Stamp)
            /\ WF_vars(Install)
            /\ SF_vars(Quit)

Spec == Init /\ [][Next]_vars /\ Fairness
-----------------------------------------------------------------------------
PCs == {"none", "initStamp", "select", "read", "stamp", "lock", "quit", "panic"}

TypeOK ==
    /\ now \in 0..MaxTime /\ counters \in Counters /\ resets \in 0..MaxResets
    /\ lazy \in BOOLEAN
    /\ made \in BOOLEAN /\ pc \in PCs /\ pend \in Sample
    /\ tickC \in BOOLEAN /\ nextTick \in Nat
    /\ fails \in 0..MaxFails /\ ctxDone \in BOOLEAN
    /\ last \in Sample /\ cur \in Sample

(***************************************************************************)
(* The two samples never cross: the newer one was read after the older one *)
(* was stamped, and stamped no earlier than it was read.  So the rates     *)
(* never divide by a negative time, and never pair a reading with the time *)
(* of another one, however long the goroutine is delayed between reading,  *)
(* stamping and installing, whatever readings fail and however close two   *)
(* ticks are.                                                              *)
(***************************************************************************)
SamplesOrdered ==
    last # cur => /\ Ns(last.at) <= last.t
                  /\ last.t <= Ns(cur.at)
                  /\ Ns(cur.at) <= cur.t
                  /\ cur.t <= Ns(now)

(***************************************************************************)
(* Between two samples of the same incarnation of the cgroup both rates    *)
(* are the true growth of the counters, unless the samples have the same   *)
(* time; across a reset the CPU rate never wraps below zero into a huge    *)
(* uint64.                                                                 *)
(***************************************************************************)
RatesExact ==
    /\ last.t # cur.t /\ last.gen = cur.gen =>
          /\ CalculateCpuRate.num      = cur.usage - last.usage
          /\ CalculateThrottleRate.num = cur.throttled - last.throttled
    /\ CalculateCpuRate.num <= cur.usage

(***************************************************************************)
(* A pod that uses a whole CPU all the time is taken for an idle one only  *)
(* in two cases.  Its samples have one time, for which the rate is 0.0:    *)
(* that is so after every Init(), when the worker asks first.  Or the two  *)
(* readings are too close: the newer sample's time is later than its       *)
(* reading by PerLowerRate - 1 times (9 in the code) the time between the  *)
(* readings.  After a tick that waited that is a delay of nine intervals,  *)
(* after one that was left in the channel it may be any delay.             *)
(***************************************************************************)
BusyIdleOnlyIfClose ==
    ~ lazy /\ CheckScaleDown =>
        \/ last.t = cur.t
        \/ (PerLowerRate - 1) * (Ns(cur.at) - Ns(last.at)) <= cur.t - Ns(cur.at)

(***************************************************************************)
(* ThrottledTime is documented (type.go) as the "Aggregate time the        *)
(* container was throttled for in nanoseconds" (the cgroup, which here is a *)
(* pod's), so the time throttled between two samples is no more than that  *)
(* aggregate.  The guard against a reset looks at ThrottledPeriods only.   *)
(***************************************************************************)
ThrottledWithinAggregate == CalculateThrottleRate.num <= cur.throttled

(***************************************************************************)
(* When the agent's context is cancelled, the sampling goroutine of a      *)
(* toolkit that was started stops (or has panicked): none is leaked.       *)
(***************************************************************************)
CancelStops == ctxDone /\ pc # "none" ~> pc \in {"quit", "panic"}
-----------------------------------------------------------------------------
(***************************************************************************)
(* The inductive invariant behind the safety properties: what is known of  *)
(* the sample being taken at each control point, of the current sample     *)
(* with respect to the counters, and of the current pair.                  *)
(***************************************************************************)
Started == pc \notin {"none", "initStamp"}

\* Sample s was read at or before time n and stamped at most Lag later.
WellTimed(s, n) ==
    Ns(s.at) <= s.t /\ s.t <= Ns(n) /\ s.t <= Ns(s.at) + Ns(Lag)

\* Sample b was read after sample a: the counters did not fall unless the
\* cgroup was made again, and a busy pod used a CPU all the time between.
Follows(a, b) ==
    /\ a.gen = b.gen => /\ a.usage <= b.usage
                        /\ a.nrThrottled <= b.nrThrottled
                        /\ a.throttled <= b.throttled
    /\ ~ lazy => Ns(b.at) - Ns(a.at) <= b.usage - a.usage

BelowWord(s) == s.usage < Word /\ s.throttled < Word

PendOK ==
    /\ BelowWord(pend) /\ pend.gen <= resets
    /\ pc \in {"initStamp", "stamp", "lock"} =>
          pend.at <= now /\ Follows(pend, Reading)
    /\ pc \in {"initStamp", "stamp"} => now - pend.at <= Lag
    /\ pc \in {"stamp", "lock"} => cur.t <= Ns(pend.at) /\ Follows(cur, pend)
    /\ pc = "lock" => WellTimed(pend, now)

CurOK ==
    /\ BelowWord(last) /\ BelowWord(cur) /\ cur.gen <= resets
    /\ Ns(counters.usage) < Word /\ Ns(counters.throttled) < Word
    /\ Started => WellTimed(cur, now) /\ Follows(cur, Reading)

\* Either both are Init()'s sample, or the newer was read after the older.
PairOK ==
    /\ ~ Started => last = NoSample /\ cur = NoSample
    /\ last # cur => /\ WellTimed(last, now)
                     /\ last.t <= Ns(cur.at)
                     /\ Follows(last, cur)

IInv == TypeOK /\ PendOK /\ CurOK /\ PairOK
=============================================================================
