------------------------------- MODULE Worker --------------------------------
(***************************************************************************)
(* pkg/pod/worker.go: the goroutine that looks after the pods of one       *)
(* name.  It takes events from its channel, keeps the pod and its quota,   *)
(* sets the limits of the pod's cgroup (SetCgroupLimit of                  *)
(* pkg/util/cgroupv2/toolkit.go), and at each tick asks whether to scale.  *)
(*                                                                         *)
(* Around it: the API server's pod of that name, which others edit, delete *)
(* and replace; the informer's copy of it, which is behind; the cgroups,   *)
(* which the kubelet makes and removes; the manager, which sends New and   *)
(* then Update events in the order of the calls of NewPod, whose pods may  *)
(* be of the same version again; and the goroutines that the worker starts *)
(* for its own scale events.                                               *)
(*                                                                         *)
(* The source declares loop()'s ticker and the worker's channel but makes  *)
(* neither, and no code sends the Delete event that loop() handles.  The   *)
(* rigid variable build says which of these parts are there: {} is the     *)
(* committed code, whose loop() panics on its first line (85); the other   *)
(* builds reach the rest of the loop as it is written.                     *)
(***************************************************************************)
EXTENDS Quota

CONSTANTS Table,      \* allQuotas
          Limits,     \* the limits a pod's main container may be given
          MaxUid,     \* bound: pods that follow each other under the name
          MaxRv,      \* bound: resource versions of the API server
          MaxCalls,   \* bound: calls of NewPod for the pod's name
          MaxTicks,   \* bound: ticks
          Cap,        \* capacity of the worker's channel
          Builds      \* subsets of Parts to consider

Parts == {"ticker", "eventC", "DeletePod"}
Uids  == 1..MaxUid

ASSUME WorkerConstants ==
    /\ Table \in Seq(Quota)
    /\ Limits \subseteq Quota
    /\ MaxUid \in Nat \ {0}
    /\ MaxRv \in Nat
    /\ MaxCalls \in Nat \ {0}
    /\ MaxTicks \in Nat
    /\ Cap \in Nat \ {0}
    /\ Builds \subseteq SUBSET Parts

\* A pod as an API object: its resource version, its limits, whether it has
\* a container named main, and the modify-resource annotation.
Pod == [uid : Uids, rv : Nat, lim : Limits, main : BOOLEAN, stamp : Nat]

NoPod == [uid |-> 0, rv |-> 0, lim |-> minQuota, main |-> FALSE, stamp |-> 0]

Scale == {"ScaleUp", "ScaleDown"}

NoEvent == [typ |-> "none", call |-> 0]

VARIABLES
    (* the cluster *)
    api,        \* the pod the API server has, or NoPod
    rv,         \* its last resource version
    cache,      \* the informer's copy of api
    had,        \* history: the limits each pod has had
    cgroups,    \* the pods that have a cgroup
    high,       \* memory.high of each pod's cgroup, 0 if never set
    ioMax,      \* io.max of each pod's cgroup, {} if never set
    (* the manager and the goroutines of SendEvent *)
    calls,      \* how many calls of NewPod there were
    mgr,        \* the event the manager is sending: a set of at most one
    outbox,     \* scale events whose goroutine has not sent them yet
    eventC,     \* the worker's channel
    (* the worker *)
    build,      \* rigid: the parts that are made
    pc,         \* where loop() is
    pod,        \* w.pod
    quota,      \* w.quota
    toolkit,    \* the pod whose cgroup the toolkit is for, 0 while nil
    limit,      \* how the last SetCgroupLimit ended
    work,       \* the object updatePodQuota is about to write
    seen,       \* history: the last pod event that was taken
    ticks,      \* ticks so far
    ctxDone     \* w.ctx is cancelled

cluster == <<api, rv, cache, had, cgroups>>
cgroup  == <<high, ioMax>>
chans   == <<calls, mgr, outbox, eventC>>
self    == <<pod, quota, toolkit, limit>>
vars    == <<cluster, cgroup, chans, build, pc, self, work, seen, ticks, ctxDone>>

\* loop() has ended, or the process has.
Gone == pc \in {"returned", "stopped", "panic"}

-----------------------------------------------------------------------------
(* Library and kernel behaviour that the worker depends on (external).     *)

\* ResourceList.Cpu() and Memory() return a pointer to a copy of the entry:
\* setting it leaves the list as it was.
SetOnCopy(lim, target) == lim

-----------------------------------------------------------------------------
Init == /\ build \in Builds
        /\ \E l \in Limits, m \in BOOLEAN :
              api = [uid |-> 1, rv |-> 1, lim |-> l, main |-> m, stamp |-> 0]
        /\ rv = 1
        /\ cache = api
        /\ had = [u \in Uids |-> IF u = 1 THEN {api.lim} ELSE {}]
        /\ cgroups = {1}
        /\ high = [u \in Uids |-> 0]
        /\ ioMax = [u \in Uids |-> {}]
        /\ calls = 1
        /\ mgr = {[typ |-> "New", pod |-> api, call |-> 1]}
        /\ outbox = [e \in Scale |-> 0]
        /\ eventC = <<>>
        /\ pc = "start"
        /\ pod = api
        /\ quota = minQuota
        /\ toolkit = 0
        /\ limit = "none"
        /\ work = NoPod
        /\ seen = NoEvent
        /\ ticks = 0
        /\ ctxDone = FALSE

-----------------------------------------------------------------------------
(* The cluster.                                                            *)

NewVersion(p) == /\ rv < MaxRv
                 /\ rv' = rv + 1
                 /\ api' = [p EXCEPT !.rv = rv + 1]

\* Somebody edits the pod's limits.
Edit == \E l \in Limits \ {api.lim} :
            /\ api # NoPod
            /\ NewVersion([api EXCEPT !.lim = l])
            /\ had' = [had EXCEPT ![api.uid] = @ \cup {l}]
            /\ UNCHANGED <<cache, cgroups, cgroup, chans, build, pc, self, work, seen, ticks, ctxDone>>

\* The pod's object is removed.  After a forced deletion the kubelet still
\* runs the pod.
Remove == /\ api # NoPod
          /\ rv < MaxRv
          /\ rv' = rv + 1
          /\ api' = NoPod
          /\ UNCHANGED <<cache, had, cgroups, cgroup, chans, build, pc, self, work, seen, ticks, ctxDone>>

\* A pod of the same name is created after the last one is gone.
Create == /\ api = NoPod
          /\ \E u \in Uids, l \in Limits, m \in BOOLEAN :
                /\ had[u] = {} /\ (\A v \in Uids : v < u => had[v] # {})
                /\ NewVersion([uid |-> u, rv |-> 0, lim |-> l, main |-> m, stamp |-> 0])
                /\ had' = [had EXCEPT ![u] = {l}]
                /\ cgroups' = cgroups \cup {u}
          /\ UNCHANGED <<cache, cgroup, chans, build, pc, self, work, seen, ticks, ctxDone>>

\* The kubelet removes a pod's cgroup: the pod has ended, whether or not its
\* object is still there.
RemoveCgroup ==
    /\ \E u \in cgroups : cgroups' = cgroups \ {u}
    /\ UNCHANGED <<api, rv, cache, had, cgroup, chans, build, pc, self, work, seen, ticks, ctxDone>>

\* The informer catches up.
Sync == /\ cache # api
        /\ cache' = api
        /\ UNCHANGED <<api, rv, had, cgroups, cgroup, chans, build, pc, self, work, seen, ticks, ctxDone>>

\* Mutant: every event is sent in a goroutine of its own.
NotifyInGoroutine ==
    /\ cache # NoPod
    /\ calls < MaxCalls
    /\ calls' = calls + 1
    /\ mgr' = mgr \cup {[typ |-> "Update", pod |-> cache, call |-> calls + 1]}
    /\ UNCHANGED <<cluster, cgroup, outbox, eventC, build, pc, self, work, seen, ticks, ctxDone>>

\* The reconciler has the informer's copy, be it new to it or not, and the
\* manager's loop makes an event of it.
Notify == /\ mgr = {}
          /\ cache # NoPod
          /\ calls < MaxCalls
          /\ calls' = calls + 1
          /\ mgr' = {[typ |-> "Update", pod |-> cache, call |-> calls + 1]}
          /\ UNCHANGED <<cluster, cgroup, outbox, eventC, build, pc, self, work, seen, ticks, ctxDone>>

\* DeletePod, "drove by event": the pod is gone.
NotifyDelete ==
    /\ "DeletePod" \in build
    /\ mgr = {} /\ cache = NoPod
    /\ mgr' = {[typ |-> "Delete", pod |-> NoPod, call |-> 0]}
    /\ UNCHANGED <<cluster, cgroup, calls, outbox, eventC, build, pc, self, work, seen, ticks, ctxDone>>

\* SendEvent, called by the manager: it blocks on a nil or a full channel.
SendEvent == /\ "eventC" \in build
             /\ Len(eventC) < Cap
             /\ \E e \in mgr : /\ eventC' = Append(eventC, e)
                              /\ mgr' = mgr \ {e}
             /\ UNCHANGED <<cluster, cgroup, calls, outbox, build, pc, self, work, seen, ticks, ctxDone>>

\* SendEvent in a goroutine of its own, for a scale event.
GoSendEvent == /\ "eventC" \in build
               /\ Len(eventC) < Cap
               /\ \E e \in Scale :
                     /\ outbox[e] > 0
                     /\ outbox' = [outbox EXCEPT ![e] = @ - 1]
                     /\ eventC' = Append(eventC, [typ |-> e, pod |-> NoPod, call |-> 0])
               /\ UNCHANGED <<cluster, cgroup, calls, mgr, build, pc, self, work, seen, ticks, ctxDone>>

Cancel == /\ ~ ctxDone
          /\ ctxDone' = TRUE
          /\ UNCHANGED <<cluster, cgroup, chans, build, pc, self, work, seen, ticks>>

-----------------------------------------------------------------------------
(* loop()                                                                  *)

\* The kubelet's configuration and the cgroup subsystems, then the first
\* ticker.Reset, which needs a ticker.
Start == /\ pc = "start"
         /\ \/ pc' = "returned"
            \/ pc' = IF "ticker" \in build THEN "select" ELSE "panic"
         /\ UNCHANGED <<cluster, cgroup, chans, build, self, work, seen, ticks, ctxDone>>

\* The case of the select that takes an event of type typ.
Receive(typ) == /\ pc = "select"
                /\ eventC # <<>>
                /\ Head(eventC).typ \in typ
                /\ eventC' = Tail(eventC)
                /\ seen' = LET e == Head(eventC)
                           IN  IF e.typ \in {"New", "Update"}
                               THEN [typ |-> e.typ, call |-> e.call] ELSE seen

\* io.max as written: an empty number where a value is zero.
IoMax(q) == LET cfg == CalculatedQuotaConfig(q)
            IN  [bps |-> cfg.diskBW, iops |-> cfg.diskIOPS]

\* SetCgroupLimit(q): memory.high unless it would be zero; io.max only after
\* that, and its failure is only reported.
SetCgroupLimit(q) ==
    \/ \* the write of memory.high fails
       /\ q.mem # 0
       /\ limit' = "failed"
       /\ UNCHANGED cgroup
    \/ \* memory.high is written, or skipped; io.max fails
       /\ q.mem # 0 => toolkit \in cgroups
       /\ limit' = "partly"
       /\ high' = IF q.mem = 0 THEN high ELSE [high EXCEPT ![toolkit] = q.mem]
       /\ UNCHANGED ioMax
    \/ /\ toolkit \in cgroups
       /\ limit' = "done"
       /\ high' = IF q.mem = 0 THEN high ELSE [high EXCEPT ![toolkit] = q.mem]
       /\ ioMax' = [ioMax EXCEPT ![toolkit] = {IoMax(q)}]

\* The quota of a pod: the floor of its limits in the table.
PodQuota(p) == GetFloorMemoryQuota(Table, p.lim)

\* Mutant: the cgroup is set from the quota of the event before.
HandlePodLate ==
    /\ Receive({"New", "Update"})
    /\ Head(eventC).pod.main /\ toolkit # 0
    /\ pod' = Head(eventC).pod
    /\ quota' = PodQuota(Head(eventC).pod)
    /\ SetCgroupLimit(quota)
    /\ UNCHANGED <<cluster, calls, mgr, outbox, build, pc, toolkit, work, ticks, ctxDone>>

\* EventTypeNew and EventTypeUpdate.  Without a main container the event is
\* dropped; without a toolkit the call panics, after w.pod and w.quota are set.
HandlePod ==
    /\ Receive({"New", "Update"})
    /\ LET p == Head(eventC).pod
           q == PodQuota(p)
       IN  \/ /\ ~ p.main
              /\ UNCHANGED <<cgroup, pc, self>>
           \/ /\ p.main
              /\ pod' = p
              /\ quota' = q
              /\ UNCHANGED toolkit
              /\ \/ /\ toolkit = 0
                    /\ pc' = "panic"
                    /\ UNCHANGED <<cgroup, limit>>
                 \/ /\ toolkit # 0
                    /\ SetCgroupLimit(q)
                    /\ UNCHANGED pc
    /\ UNCHANGED <<cluster, calls, mgr, outbox, build, work, ticks, ctxDone>>

\* Mutant: the pod of a Delete event is kept.
HandleDeleteKeep ==
    /\ Receive({"Delete"})
    /\ pod' = Head(eventC).pod
    /\ UNCHANGED <<cluster, cgroup, calls, mgr, outbox, build, pc, quota, toolkit, limit,
                   work, ticks, ctxDone>>

\* EventTypeDelete: GetManger() is nil, and EvictPod is not implemented.
HandleDelete ==
    /\ Receive({"Delete"})
    /\ pc' = "panic"
    /\ UNCHANGED <<cluster, cgroup, calls, mgr, outbox, build, self, work, ticks, ctxDone>>

\* What updatePodQuota asks for.  The branches for memory cannot be reached:
\* CheckScaleUp and CheckScaleDown answer with a type for the CPU only.
NextQuota(typ) == IF typ = "ScaleUp" THEN GetScaleUpCpuQuota(Table, quota)
                                     ELSE GetScaleDownCpuQuota(Table, quota)

\* EventTypeScaleUp and EventTypeScaleDown, as far as CreateOrUpdate's Get
\* and the mutate function: the pod of the informer's copy, found by name.
\* Not found: an empty pod is created, which the API server refuses.  No main
\* container, or a time stamp of the same second as the last: nothing changes
\* and nothing is written.
HandleScale ==
    /\ Receive(Scale)
    /\ LET target  == WithDelta(NextQuota(Head(eventC).typ))
           mutated == [cache EXCEPT !.lim = SetOnCopy(@, target), !.stamp = @ + 1]
       IN  \/ /\ cache # NoPod /\ cache.main
              /\ work' = mutated
              /\ pc' = "update"
           \/ UNCHANGED <<work, pc>>
    /\ UNCHANGED <<cluster, cgroup, calls, mgr, outbox, build, self, ticks, ctxDone>>

\* Mutants: a write that does not look at the version; and one that is tried
\* again until it succeeds.
UpdateBlind ==
    /\ pc = "update"
    /\ pc' = "select"
    /\ work' = NoPod
    /\ api # NoPod /\ NewVersion(work)
    /\ UNCHANGED <<cache, had, cgroups, cgroup, chans, build, self, seen, ticks, ctxDone>>

UpdateRetry ==
    /\ pc = "update"
    /\ pc' = "select"
    /\ work' = NoPod
    /\ api # NoPod /\ api.rv = work.rv /\ ~ ctxDone /\ NewVersion(work)
    /\ UNCHANGED <<cache, had, cgroups, cgroup, chans, build, self, seen, ticks, ctxDone>>

\* CreateOrUpdate's Update.  The API server takes the object only if it is
\* still at the version that was read; the error is logged, then forgotten.
Update ==
    /\ pc = "update"
    /\ pc' = "select"
    /\ work' = NoPod
    /\ \/ UNCHANGED <<api, rv>>
       \/ api # NoPod /\ api.rv = work.rv /\ ~ ctxDone /\ NewVersion(work)
    /\ UNCHANGED <<cache, had, cgroups, cgroup, chans, build, self, seen, ticks, ctxDone>>

\* Mutant: the toolkit is for the pod that the informer has by now.
TickOfCache ==
    /\ pc = "select"
    /\ ticks < MaxTicks
    /\ ticks' = ticks + 1
    /\ toolkit = 0 /\ cache.uid \in cgroups /\ toolkit' = cache.uid
    /\ UNCHANGED <<cluster, cgroup, chans, build, pc, pod, quota, limit, work, seen, ctxDone>>

\* ticker.C: get the cgroup's name, make the toolkit if there is none, ask
\* for both decisions, and send an event for each.  The first two may fail.
Tick ==
    /\ pc = "select"
    /\ ticks < MaxTicks
    /\ ticks' = ticks + 1
    /\ \/ UNCHANGED <<toolkit, outbox>>
       \/ /\ \/ toolkit = 0 /\ pod.uid \in cgroups /\ toolkit' = pod.uid
             \/ toolkit # 0 /\ UNCHANGED toolkit
          /\ \E up, down \in 0..1 :
                outbox' = [outbox EXCEPT !["ScaleUp"] = @ + up, !["ScaleDown"] = @ + down]
    /\ UNCHANGED <<cluster, cgroup, calls, mgr, eventC, build, pc, pod, quota, limit,
                   work, seen, ctxDone>>

\* Mutant: break leaves the select and not the loop.
StopSelectOnly == /\ pc = "select"
                  /\ ctxDone
                  /\ UNCHANGED vars

\* ctx.Done()
Stop == /\ pc = "select"
        /\ ctxDone
        /\ pc' = "stopped"
        /\ UNCHANGED <<cluster, cgroup, chans, build, self, work, seen, ticks, ctxDone>>

-----------------------------------------------------------------------------
Cluster == Edit \/ Remove \/ Create \/ RemoveCgroup \/ Sync \/ Notify \/ NotifyDelete \/ Cancel

Senders == SendEvent \/ GoSendEvent

Loop == Start \/ HandlePod \/ HandleDelete \/ HandleScale \/ Update \/ Tick \/ Stop

Next == pc # "panic" /\ (Cluster \/ Senders \/ Loop)

\* Go runs every goroutine, lets blocked senders in by turns, and select picks
\* at random among the cases that are ready.  Ticks are not assumed: each event
\* resets the ticker.
Fairness == /\ WF_vars(Start)
            /\ WF_vars(Update)
            /\ SF_vars(pc # "panic" /\ SendEvent)
            /\ SF_vars(pc # "panic" /\ GoSendEvent)
            /\ SF_vars(HandlePod)
            /\ SF_vars(HandleDelete)
            /\ SF_vars(HandleScale)
            /\ SF_vars(Stop)

Spec == Init /\ [][Next]_vars /\ Fairness
-----------------------------------------------------------------------------
PodOrNone == Pod \cup {NoPod}

TypeOK ==
    /\ api \in PodOrNone /\ rv \in 1..(MaxRv + 1) /\ cache \in PodOrNone
    /\ had \in [Uids -> SUBSET Limits]
    /\ cgroups \subseteq Uids
    /\ high \in [Uids -> Nat]
    /\ ioMax \in [Uids -> SUBSET [bps : Nat, iops : Nat]]
    /\ calls \in 1..MaxCalls
    /\ mgr \subseteq [typ : {"New", "Update", "Delete"}, pod : PodOrNone, call : 0..MaxCalls]
    /\ outbox \in [Scale -> Nat]
    /\ eventC \in Seq([typ : {"New", "Update", "Delete"} \cup Scale, pod : PodOrNone,
                       call : 0..MaxCalls])
    /\ Len(eventC) <= Cap
    /\ build \subseteq Parts
    /\ pc \in {"start", "select", "update", "returned", "stopped", "panic"}
    /\ pod \in Pod /\ quota \in Quota /\ toolkit \in {0} \cup Uids
    /\ limit \in {"none", "failed", "partly", "done"}
    /\ seen \in [typ : {"none", "New", "Update"}, call : 0..MaxCalls]
    /\ work \in PodOrNone /\ ticks \in 0..MaxTicks /\ ctxDone \in BOOLEAN

(***************************************************************************)
(* memory.high of a pod's cgroup is the floor of limits that this very pod *)
(* has had, or, once the pod is replaced, that a later one of the name     *)
(* has: never those of a pod before it, and while no pod has replaced it   *)
(* never another's.  loop() makes its toolkit only once and gives it the   *)
(* quota of whatever pod of the name an event brings; after a forced       *)
(* deletion the old pod's cgroup is still there to take it.                *)
(***************************************************************************)
NoEarlierLimits ==
    \A u \in Uids :
        high[u] # 0 =>
            \E v \in Uids : /\ u <= v
                           /\ \E l \in had[v] : high[u] = GetFloorMemoryQuota(Table, l).mem

(***************************************************************************)
(* When SetCgroupLimit has not failed, the toolkit's cgroup has the        *)
(* worker's quota, which is not above the limits of w.pod: w.pod, w.quota, *)
(* the toolkit and the cgroup's files agree between events.                *)
(***************************************************************************)
LimitsApplied ==
    /\ limit \in {"partly", "done"} /\ quota.mem # 0 =>
          high[toolkit] = quota.mem /\ quota.mem <= pod.lim.mem
    /\ limit = "done" => ioMax[toolkit] = {IoMax(quota)}

\* The events with a pod that are on their way to the worker.
PodEvents == {e \in mgr \cup {eventC[i] : i \in DOMAIN eventC} : e.typ \in {"New", "Update"}}
OnTheWay  == {e.call : e \in PodEvents}

(***************************************************************************)
(* The worker's channel, with the goroutines of its own scale events that  *)
(* push in between, is still a mailbox of its pod (Mailboxes, which        *)
(* Manager implements for all pods): the pod of every call is taken once   *)
(* and in order, New first.  The worker begins at the first call.          *)
(***************************************************************************)
Mailbox == INSTANCE Mailboxes
           WITH Names   <- {"pod"},
                told    <- [n \in {"pod"} |-> calls],
                due     <- [n \in {"pod"} |-> OnTheWay],
                handled <- [n \in {"pod"} |-> seen]

MailboxSteps == [][Mailbox!Next]_(Mailbox!vars)

-----------------------------------------------------------------------------
(* Why these hold: the copies of the pod that are about.                   *)

\* The object that updatePodQuota read, before it was stamped.
ReadCopy == [work EXCEPT !.stamp = @ - 1]

Copies == ({api, cache, pod} \cup {e.pod : e \in PodEvents}
                             \cup (IF pc = "update" THEN {ReadCopy} ELSE {})) \ {NoPod}

\* They are versions that the API server has had: two with the same version
\* are the same, a later one is not of an earlier pod, and none is later
\* than the API server's own.  Uids are given in order.
CopiesAgree ==
    /\ \A x \in Copies : x.rv \in 1..rv /\ x.lim \in had[x.uid]
    /\ \A x, y \in Copies : /\ x.rv = y.rv => x = y
                            /\ x.rv <= y.rv => x.uid <= y.uid
    /\ api # NoPod => \A x \in Copies : x.rv <= api.rv
    /\ \A u, v \in Uids : u < v /\ had[v] # {} => had[u] # {}

IsPodEvent(e) == e.typ \in {"New", "Update"}

\* Event e is of an earlier call than f, and its pod is no later version.
Earlier(e, f) == e.call < f.call /\ e.pod.rv <= f.pod.rv

\* The last event seen, the channel and the manager's hand are in the order of
\* the calls, and the worker's pod, theirs and the informer's copy in that of
\* the versions; and a New event comes before all others.
EventsInOrder ==
    /\ \A e, f \in mgr : e = f
    /\ \A i, j \in DOMAIN eventC :
          i < j /\ IsPodEvent(eventC[i]) /\ IsPodEvent(eventC[j]) => Earlier(eventC[i], eventC[j])
    /\ \A i \in DOMAIN eventC, e \in mgr :
          IsPodEvent(eventC[i]) /\ IsPodEvent(e) => Earlier(eventC[i], e)
    /\ \A e \in PodEvents : /\ e.pod # NoPod
                            /\ seen.call < e.call /\ e.call <= calls
                            /\ pod.rv <= e.pod.rv
    /\ seen.call <= calls
    /\ cache # NoPod => \A x \in {pod} \cup {e.pod : e \in PodEvents} : x.rv <= cache.rv
    /\ IF seen = NoEvent
       THEN \E e \in PodEvents : /\ e.typ = "New"
                                 /\ \A f \in PodEvents \ {e} : f.typ = "Update" /\ Earlier(e, f)
       ELSE \A e \in PodEvents : e.typ = "Update"

\* The toolkit's pod is not later than the worker's, and without a toolkit no
\* limit has been set.
ToolkitBehind == IF toolkit = 0 THEN limit = "none" ELSE toolkit <= pod.uid

\* What updatePodQuota is about to write is a pod with a new stamp.
Stamped == pc = "update" => work # NoPod /\ work.stamp > 0

(***************************************************************************)
(* Whatever the informer, the manager, the channel, the worker and         *)
(* updatePodQuota hold at the same time are versions of the pod in one     *)
(* order, the oldest ones nearest to the worker.                           *)
(***************************************************************************)
IInv == CopiesAgree /\ EventsInOrder /\ ToolkitBehind /\ Stamped

-----------------------------------------------------------------------------
(***************************************************************************)
(* updatePodQuota never undoes an edit and never touches a newer pod: the  *)
(* object it read from the informer's copy is written back only over the   *)
(* very version it was read from.                                          *)
(***************************************************************************)
NoLostEdit ==
    [][pc = "update" /\ pc' = "select" /\ api' # api =>
          api' = [api EXCEPT !.rv = rv + 1, !.stamp = @ + 1]]_vars

(***************************************************************************)
(* Every event that was given to a worker's channel or is waiting for it   *)
(* is handled, unless the worker is gone: scale events and pod events do   *)
(* not starve each other.                                                  *)
(***************************************************************************)
EventsHandled ==
    "eventC" \in build /\ (mgr # {} \/ eventC # <<>>)
        ~> (mgr = {} /\ eventC = <<>>) \/ Gone

(***************************************************************************)
(* A cancelled worker ends.                                                *)
(***************************************************************************)
CancelStops == ctxDone ~> Gone

(***************************************************************************)
(* "Scale Agent handle MO node vertical scale up (or down)": what          *)
(* updatePodQuota writes to the pod are the limits of the quota that the   *)
(* scale event asks for.                                                   *)
(***************************************************************************)
WritesQuota ==
    [][pc = "update" /\ pc' = "select" /\ api' # api =>
          api'.lim \in {WithDelta(NextQuota(e)) : e \in Scale}]_vars
=============================================================================
