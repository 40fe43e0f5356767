------------------------------- MODULE Manager -------------------------------
(***************************************************************************)
(* pkg/pod/manager.go: DaemonSetManager.  Its loop takes pods from one     *)
(* channel and passes each one to the worker of the pod's name, which it   *)
(* makes the first time.  A worker is kept here as its channel and whether *)
(* its loop runs; Worker has the rest of it.                               *)
(*                                                                         *)
(* NewPod is not implemented; it stands for what the channel is there for. *)
(* Its calls for a name are numbered.  The version of the pod that a call  *)
(* brings is left out: the reconciler may bring the same one again, and    *)
(* the loop looks at none and passes each pod on.                          *)
(*                                                                         *)
(* The source never makes the map of workers, never unlocks the mutex,     *)
(* makes neither a channel nor a ticker for a worker, and its ctx.Done()   *)
(* case does not leave the loop.  The rigid variable build says which of   *)
(* these parts are there: {} is the committed code.                        *)
(***************************************************************************)
EXTENDS Naturals, Sequences

CONSTANTS Names,     \* names of pods, with their namespaces
          MaxCalls,  \* bound: calls of NewPod for one name
          Cap,       \* capacity of the manager's channel (16)
          WorkerCap, \* capacity of a worker's channel
          Builds     \* subsets of Parts to consider

Parts == {"cache", "unlock", "eventC", "ticker", "leave"}
Calls == 1..MaxCalls

ASSUME ManagerConstants ==
    /\ MaxCalls \in Nat /\ Cap \in Nat \ {0} /\ WorkerCap \in Nat \ {0}
    /\ Builds \subseteq SUBSET Parts

VARIABLES
    build,    \* rigid: the parts that are there
    ctxDone,  \* d.ctx, the context of every worker, is cancelled
    panicked, \* a goroutine has panicked, which ends the process
    told,     \* how many calls of NewPod there were for each name
    eventC,   \* the manager's channel: pods
    pc,       \* where the manager's loop is
    hand,     \* the pod that the loop is busy with: a set of at most one
    mux,      \* d.mux is locked
    cache,    \* d.cache: the names that have a worker
    chan,     \* the channel of each worker: events
    loop,     \* the loop of each worker
    toolkit,  \* the loop of the worker has made its toolkit
    handled   \* history: the last event each worker took

workers == <<chan, loop, toolkit, handled>>
vars    == <<build, ctxDone, panicked, told, eventC, pc, hand, mux, cache, workers>>

Pod   == [name : Names, call : Calls]
Event == [typ : {"New", "Update"}, call : Calls]

NoEvent == [typ |-> "none", call |-> 0]

-----------------------------------------------------------------------------
\* NewDaemonSetManager and Start.
Init == /\ build \in Builds
        /\ ctxDone = FALSE /\ panicked = FALSE
        /\ told = [n \in Names |-> 0]
        /\ eventC = <<>>
        /\ pc = "select" /\ hand = {} /\ mux = FALSE /\ cache = {}
        /\ chan = [n \in Names |-> <<>>]
        /\ loop = [n \in Names |-> "none"]
        /\ toolkit = [n \in Names |-> FALSE]
        /\ handled = [n \in Names |-> NoEvent]

\* NewPod, called by the reconciler: it waits while the channel is full.
NewPod(n) == /\ Len(eventC) < Cap /\ told[n] < MaxCalls
             /\ told' = [told EXCEPT ![n] = @ + 1]
             /\ eventC' = Append(eventC, [name |-> n, call |-> told[n] + 1])
             /\ UNCHANGED <<build, ctxDone, panicked, pc, hand, mux, cache, workers>>

\* Stop: the context is cancelled, and nobody waits for the loops.
Stop == /\ ~ ctxDone
        /\ ctxDone' = TRUE
        /\ UNCHANGED <<build, panicked, told, eventC, pc, hand, mux, cache, workers>>

-----------------------------------------------------------------------------
(* The manager's loop.                                                     *)

\* Mutant: the newest pod first.
TakeNewest == /\ pc = "select" /\ eventC # <<>>
              /\ pc' = "lock"
              /\ hand' = {eventC[Len(eventC)]}
              /\ eventC' = SubSeq(eventC, 1, Len(eventC) - 1)
              /\ UNCHANGED <<build, ctxDone, panicked, told, mux, cache, workers>>

TakePod == /\ pc = "select" /\ eventC # <<>>
           /\ pc' = "lock"
           /\ hand' = {Head(eventC)}
           /\ eventC' = Tail(eventC)
           /\ UNCHANGED <<build, ctxDone, panicked, told, mux, cache, workers>>

Lock == /\ pc = "lock" /\ ~ mux
        /\ mux' = TRUE
        /\ pc' = "route"
        /\ UNCHANGED <<build, ctxDone, panicked, told, eventC, hand, cache, workers>>

\* The pod's name has a worker.
Known == /\ pc = "route"
         /\ \E p \in hand : p.name \in cache
         /\ pc' = "update"
         /\ UNCHANGED <<build, ctxDone, panicked, told, eventC, hand, mux, cache, workers>>

\* Mutant: the worker is not kept.
UnknownNotKept ==
    /\ pc = "route"
    /\ \E p \in hand : /\ p.name \notin cache
                       /\ pc' = "new"
                       /\ loop' = [loop EXCEPT ![p.name] = "starting"]
    /\ UNCHANGED <<build, ctxDone, panicked, told, eventC, hand, mux, cache, chan, toolkit, handled>>

\* It has none: NewWorker, and its loop is started.  Writing to a map that
\* was never made panics.
Unknown ==
    /\ pc = "route"
    /\ \E p \in hand :
          /\ p.name \notin cache
          /\ \/ /\ "cache" \in build
                /\ pc' = "new"
                /\ cache' = cache \cup {p.name}
                /\ loop' = [loop EXCEPT ![p.name] = "starting"]
                /\ UNCHANGED panicked
             \/ /\ "cache" \notin build
                /\ panicked' = TRUE
                /\ UNCHANGED <<pc, cache, loop>>
    /\ UNCHANGED <<build, ctxDone, told, eventC, hand, mux, chan, toolkit, handled>>

\* Mutants: a send that does not wait; and the mutex as the source has it.
SendAnyway ==
    /\ pc \in {"new", "update"}
    /\ \E p \in hand :
          chan' = [chan EXCEPT ![p.name] =
                      Append(@, [typ |-> IF pc = "new" THEN "New" ELSE "Update", call |-> p.call])]
    /\ hand' = {} /\ mux' = FALSE /\ pc' = "select"
    /\ UNCHANGED <<build, ctxDone, panicked, told, eventC, cache, loop, toolkit, handled>>

SendLocked ==
    /\ pc \in {"new", "update"}
    /\ "eventC" \in build
    /\ \E p \in hand :
          /\ Len(chan[p.name]) < WorkerCap
          /\ chan' = [chan EXCEPT ![p.name] =
                         Append(@, [typ |-> IF pc = "new" THEN "New" ELSE "Update", call |-> p.call])]
    /\ hand' = {} /\ pc' = "select"
    /\ UNCHANGED <<build, ctxDone, panicked, told, eventC, mux, cache, loop, toolkit, handled>>

\* SendEvent, still holding the mutex: it waits while the worker's channel is
\* full, and for ever if there is none.
SendEvent ==
    /\ pc \in {"new", "update"}
    /\ "eventC" \in build
    /\ \E p \in hand :
          /\ Len(chan[p.name]) < WorkerCap
          /\ chan' = [chan EXCEPT ![p.name] =
                         Append(@, [typ |-> IF pc = "new" THEN "New" ELSE "Update", call |-> p.call])]
    /\ hand' = {}
    /\ mux' = ("unlock" \notin build)
    /\ pc' = "select"
    /\ UNCHANGED <<build, ctxDone, panicked, told, eventC, cache, loop, toolkit, handled>>

\* ctx.Done().  In the committed code this case does nothing, and the loop
\* spins through it; a pod in the channel is then still taken.
Leave == /\ pc = "select" /\ ctxDone
         /\ "leave" \in build
         /\ pc' = "ended"
         /\ UNCHANGED <<build, ctxDone, panicked, told, eventC, hand, mux, cache, workers>>

-----------------------------------------------------------------------------
(* The workers.                                                            *)

\* The loop of a worker reaches its select, or cannot get at the kubelet or
\* the cgroups and returns.  Resetting a ticker that was never made panics.
WorkerStart(n) ==
    /\ loop[n] = "starting"
    /\ \/ /\ loop' = [loop EXCEPT ![n] = "returned"]
          /\ UNCHANGED panicked
       \/ /\ "ticker" \in build
          /\ loop' = [loop EXCEPT ![n] = "running"]
          /\ UNCHANGED panicked
       \/ /\ "ticker" \notin build
          /\ panicked' = TRUE
          /\ UNCHANGED loop
    /\ UNCHANGED <<build, ctxDone, told, eventC, pc, hand, mux, cache, chan, toolkit, handled>>

\* A tick finds the pod's cgroup: only now is the toolkit made.
WorkerTick(n) ==
    /\ loop[n] = "running" /\ ~ toolkit[n]
    /\ toolkit' = [toolkit EXCEPT ![n] = TRUE]
    /\ UNCHANGED <<build, ctxDone, panicked, told, eventC, pc, hand, mux, cache, chan, loop, handled>>

\* An event is taken.  Without a toolkit a pod that has a main container
\* ends the process: SetCgroupLimit of a nil interface panics.
WorkerHandle(n) ==
    /\ loop[n] = "running" /\ chan[n] # <<>>
    /\ handled' = [handled EXCEPT ![n] = Head(chan[n])]
    /\ chan' = [chan EXCEPT ![n] = Tail(@)]
    /\ panicked' \in IF toolkit[n] THEN {FALSE} ELSE BOOLEAN
    /\ UNCHANGED <<build, ctxDone, told, eventC, pc, hand, mux, cache, loop, toolkit>>

\* Mutant: break leaves the select only.
WorkerStopNot(n) == /\ loop[n] = "running" /\ ctxDone
                    /\ UNCHANGED vars

WorkerStop(n) == /\ loop[n] = "running" /\ ctxDone
                 /\ loop' = [loop EXCEPT ![n] = "returned"]
                 /\ UNCHANGED <<build, ctxDone, panicked, told, eventC, pc, hand, mux, cache, chan, toolkit, handled>>

-----------------------------------------------------------------------------
Loop == TakePod \/ Lock \/ Known \/ Unknown \/ SendEvent \/ Leave

Next == /\ ~ panicked
        /\ \/ Loop
           \/ Stop
           \/ \E n \in Names : \/ NewPod(n)
                               \/ WorkerStart(n) \/ WorkerTick(n)
                               \/ WorkerHandle(n) \/ WorkerStop(n)

\* While the process is there, Go runs every goroutine that can run.  Nothing
\* is assumed about the ticks.
Fairness == /\ WF_vars(~ panicked /\ Loop)
            /\ \A n \in Names : /\ WF_vars(~ panicked /\ WorkerStart(n))
                                /\ WF_vars(~ panicked /\ WorkerHandle(n))
                                /\ WF_vars(~ panicked /\ WorkerStop(n))

Spec == Init /\ [][Next]_vars /\ Fairness
-----------------------------------------------------------------------------
TypeOK ==
    /\ build \in Builds /\ {ctxDone, panicked, mux} \subseteq BOOLEAN
    /\ told \in [Names -> 0..MaxCalls]
    /\ eventC \in Seq(Pod) /\ Len(eventC) <= Cap
    /\ pc \in {"select", "lock", "route", "new", "update", "ended"}
    /\ hand \in SUBSET Pod
    /\ cache \in SUBSET Names
    /\ chan \in [Names -> Seq(Event)] /\ \A n \in Names : Len(chan[n]) <= WorkerCap
    /\ loop \in [Names -> {"none", "starting", "running", "returned"}]
    /\ toolkit \in [Names -> BOOLEAN]
    /\ handled \in [Names -> Event \cup {NoEvent}]

\* The calls for a name whose pods are on their way to its worker.
InChannel(n) == {eventC[i].call : i \in {j \in DOMAIN eventC : eventC[j].name = n}}
InHand(n)    == {p.call : p \in {q \in hand : q.name = n}}
AtWorker(n)  == {chan[n][i].call : i \in DOMAIN chan[n]}

OnTheWay == [n \in Names |-> InChannel(n) \cup InHand(n) \cup AtWorker(n)]

(***************************************************************************)
(* The manager's loop, its one channel for all pods and the channels of    *)
(* the workers are a mailbox for each name (Mailboxes): the worker of a    *)
(* name takes the pod of every call in order and once, New first, however  *)
(* the loop, the workers and Stop interleave, and in every build.          *)
(***************************************************************************)
Mailbox == INSTANCE Mailboxes WITH due <- OnTheWay

MailboxSpec == Mailbox!Spec

-----------------------------------------------------------------------------
(* Why this holds: the way of a pod from NewPod to its worker.             *)

\* The loop has a pod in its hand exactly while it is busy with one.
OneInHand == IF pc \in {"select", "ended"} THEN hand = {}
                                          ELSE \E p \in Pod : hand = {p}

Before(S, T) == \A v \in S, w \in T : v < w

\* The calls for one name lie in order: taken, in the worker's channel, in
\* the loop's hand, in the manager's channel.
InOrder ==
    /\ \A i, j \in DOMAIN eventC :
          i < j /\ eventC[i].name = eventC[j].name => eventC[i].call < eventC[j].call
    /\ \A n \in Names :
          /\ \A i, j \in DOMAIN chan[n] : i < j => chan[n][i].call < chan[n][j].call
          /\ Before(AtWorker(n), InHand(n)) /\ Before(AtWorker(n), InChannel(n))
          /\ Before(InHand(n), InChannel(n))
          /\ Before({handled[n].call}, OnTheWay[n])
          /\ \A v \in OnTheWay[n] \cup {handled[n].call} : v <= told[n]

\* A name has a worker once its New event is made, which is the first event
\* in the worker's channel and the first that the worker takes.
NewFirst ==
    /\ \A n \in Names :
          /\ n \notin cache => chan[n] = <<>> /\ handled[n] = NoEvent
          /\ \A i \in DOMAIN chan[n] :
                chan[n][i].typ = IF i = 1 /\ handled[n] = NoEvent THEN "New" ELSE "Update"
          /\ n \in cache /\ chan[n] = <<>> /\ handled[n] = NoEvent =>
                pc = "new" /\ \E p \in hand : p.name = n
    /\ pc = "new" => \A p \in hand : chan[p.name] = <<>> /\ handled[p.name] = NoEvent
    /\ pc \in {"new", "update"} => \A p \in hand : p.name \in cache

(***************************************************************************)
(* A pod is in one place at a time, and the places are in order: the       *)
(* manager's channel, the loop with the mutex, the worker's channel, the   *)
(* worker; and a worker is kept from its New event on.                     *)
(***************************************************************************)
Routing == OneInHand /\ InOrder /\ NewFirst

\* The loop waits, with the mutex, for room in the channel of a worker that
\* has returned and takes nothing out of it.
Stuck == /\ pc \in {"new", "update"}
         /\ \E p \in hand : loop[p.name] = "returned" /\ Len(chan[p.name]) = WorkerCap

(***************************************************************************)
(* "loop is the main event center": with all its parts there, the pod of   *)
(* every call reaches its worker, and no pod keeps the others waiting.     *)
(* Four things keep it from there, and no others: Stop; a panic, of a      *)
(* worker that has no toolkit yet (worker.go:102); the name's own worker   *)
(* has returned; or any worker has, and the loop waits at its full channel *)
(* (manager.go:93), which stops the service of every name.                 *)
(***************************************************************************)
EveryPodServed ==
    \A n \in Names, c \in Calls :
        {"cache", "unlock", "eventC", "ticker"} \subseteq build /\ c \in OnTheWay[n]
            ~> \/ c \notin OnTheWay[n]
               \/ ctxDone \/ panicked \/ loop[n] = "returned" \/ Stuck

(***************************************************************************)
(* Stop: in the end no worker runs, not even one that is made after it.    *)
(***************************************************************************)
StopEndsWorkers ==
    ctxDone ~> [](panicked \/ \A n \in Names : loop[n] \in {"none", "returned"})
=============================================================================
