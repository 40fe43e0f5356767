----------------------------- MODULE WorkerProofs ----------------------------
(***************************************************************************)
(* Type correctness of Worker, the invariant on the copies of its pod, and *)
(* from it that no cgroup gets the limits of an earlier pod, that no edit  *)
(* is lost and that the worker's channel is a mailbox: for any number of   *)
(* pods, versions, calls, ticks and limits, any table and every build.     *)
(***************************************************************************)
EXTENDS Worker, QuotaLemmas

-----------------------------------------------------------------------------
(* Channels and quotas.                                                    *)

\* What Append does to a channel.
LEMMA AppendFacts ==
    ASSUME NEW S, NEW s \in Seq(S), NEW e \in S
    PROVE  /\ Append(s, e) \in Seq(S)
           /\ Len(Append(s, e)) = Len(s) + 1 /\ Len(s) \in Nat
           /\ DOMAIN s = 1..Len(s) /\ DOMAIN Append(s, e) = 1..(Len(s) + 1)
           /\ \A i \in 1..Len(s) : Append(s, e)[i] = s[i]
           /\ Append(s, e)[Len(s) + 1] = e
OBVIOUS

\* What taking the first element does to it.
LEMMA TailFacts ==
    ASSUME NEW S, NEW s \in Seq(S), s # <<>>
    PROVE  /\ Tail(s) \in Seq(S) /\ Head(s) \in S /\ Head(s) = s[1]
           /\ Len(Tail(s)) = Len(s) - 1 /\ Len(s) \in Nat \ {0}
           /\ DOMAIN s = 1..Len(s) /\ DOMAIN Tail(s) = 1..(Len(s) - 1)
           /\ \A i \in 1..(Len(s) - 1) : Tail(s)[i] = s[i + 1]
OBVIOUS

\* The quota of a pod, and io.max for a quota, are well typed.
LEMMA PodQuotaType ==
    ASSUME NEW p \in Pod
    PROVE  PodQuota(p) \in Quota /\ PodQuota(p).mem <= p.lim.mem
<1>1. p.lim \in Quota
  BY WorkerConstants DEF Pod
<1>. QED  BY <1>1, WorkerConstants, FloorNotAbove DEF PodQuota

\* The limits of block I/O are numbers.
LEMMA IoMaxType ==
    ASSUME NEW q \in Quota  PROVE IoMax(q) \in [bps : Nat, iops : Nat]
<1>1. q.mem \in Nat /\ q.mem * 50 \in Nat
  BY DEF Quota
<1>2. q.mem \div BasicGiBValue \in Nat
  BY <1>1, QuotaConstants
<1>3. (q.mem \div BasicGiBValue) * 500 \in Nat
  BY <1>2
<1>. QED  BY <1>1, <1>3 DEF IoMax, CalculatedQuotaConfig

\* NoPod is not a pod.
LEMMA NoPodFacts == /\ NoPod \notin Pod /\ NoPod.rv = 0 /\ NoPod.uid = 0 /\ NoPod.main = FALSE
                    /\ 0 \notin Uids
BY WorkerConstants DEF NoPod, Pod, Uids

-----------------------------------------------------------------------------
(* Type correctness.                                                       *)

Events == [typ : {"New", "Update", "Delete"} \cup Scale, pod : PodOrNone, call : 0..MaxCalls]

\* Those that the manager makes.
Sent == [typ : {"New", "Update", "Delete"}, pod : PodOrNone, call : 0..MaxCalls]

\* The initial states are well typed.
LEMMA TypeOKInit == Init => TypeOK /\ Stamped
<1>. SUFFICES ASSUME Init PROVE TypeOK /\ Stamped
  OBVIOUS
<1>1. PICK l \in Limits, m \in BOOLEAN :
         api = [uid |-> 1, rv |-> 1, lim |-> l, main |-> m, stamp |-> 0]
  BY DEF Init
<1>2. 1 \in Uids /\ 1 \in 1..(MaxRv + 1) /\ 0 \in 0..MaxTicks /\ {0, 1} \subseteq 0..MaxCalls /\ 1 \in 1..MaxCalls
  BY WorkerConstants DEF Uids
<1>3. api \in Pod /\ api.lim = l
  BY <1>1, <1>2 DEF Pod
<1>4. had \in [Uids -> SUBSET Limits]
  BY <1>3 DEF Init, Pod
<1>5. eventC \in Seq(Events) /\ Len(eventC) <= Cap
  BY WorkerConstants DEF Init
<1>6. mgr \subseteq Sent
  BY <1>2, <1>3 DEF Init, PodOrNone, Sent
<1>7. minQuota \in Quota
  BY DEF minQuota, Quota
<1>8. /\ api \in PodOrNone /\ rv \in 1..(MaxRv + 1) /\ cache \in PodOrNone
      /\ high \in [Uids -> Nat]
      /\ ioMax \in [Uids -> SUBSET [bps : Nat, iops : Nat]]
      /\ calls \in 1..MaxCalls /\ cgroups \subseteq Uids
  BY <1>2, <1>3 DEF Init, PodOrNone
<1>9. /\ outbox \in [Scale -> Nat]
      /\ build \subseteq Parts
      /\ pc \in {"start", "select", "update", "returned", "stopped", "panic"}
      /\ pod \in Pod /\ quota \in Quota /\ toolkit \in {0} \cup Uids
      /\ limit \in {"none", "failed", "partly", "done"}
  BY <1>3, <1>7, WorkerConstants DEF Init
<1>10. /\ seen \in [typ : {"none", "New", "Update"}, call : 0..MaxCalls]
       /\ work \in PodOrNone /\ ticks \in 0..MaxTicks /\ ctxDone \in BOOLEAN
  BY <1>2 DEF Init, NoEvent, PodOrNone
<1>. QED  BY <1>4, <1>5, <1>6, <1>8, <1>9, <1>10 DEF TypeOK, Events, Sent, Stamped, Init

\* A new version of a pod is a pod.
LEMMA NewVersionType ==
    ASSUME TypeOK, NEW p \in Pod, NewVersion(p)
    PROVE  api' \in Pod /\ rv' \in 1..(MaxRv + 1) /\ rv' = rv + 1 /\ rv \in Nat
<1>1. rv \in Nat /\ rv + 1 \in Nat /\ rv + 1 \in 1..(MaxRv + 1)
  BY WorkerConstants DEF NewVersion, TypeOK
<1>. QED  BY <1>1 DEF NewVersion, Pod

\* What is taken from the channel is an event; the rest is a channel.
LEMMA ReceiveType ==
    ASSUME TypeOK, NEW typ, Receive(typ)
    PROVE  /\ Head(eventC) \in Events /\ Head(eventC).typ \in typ
           /\ eventC' \in Seq(Events) /\ Len(eventC') <= Cap
           /\ seen' \in [typ : {"none", "New", "Update"}, call : 0..MaxCalls]
<1>0. eventC \in Seq(Events) /\ eventC # <<>> /\ Len(eventC) <= Cap
  BY DEF TypeOK, Events, Receive
<1>1. /\ Head(eventC) \in Events /\ Tail(eventC) \in Seq(Events)
      /\ Len(Tail(eventC)) = Len(eventC) - 1 /\ Len(eventC) \in Nat
  BY <1>0, TailFacts
<1>2. Head(eventC).call \in 0..MaxCalls
  BY <1>1 DEF Events
<1>3. seen' \in [typ : {"none", "New", "Update"}, call : 0..MaxCalls]
  BY <1>1, <1>2 DEF Receive, TypeOK
<1>. QED  BY <1>0, <1>1, <1>3, WorkerConstants DEF Receive

\* What HandleScale leaves for Update is the informer's copy with a new stamp:
\* the limits are set on a copy of it.
LEMMA HandleScaleReads ==
    ASSUME TypeOK, HandleScale
    PROVE  \/ UNCHANGED <<work, pc>>
           \/ /\ cache \in Pod /\ pc' = "update"
              /\ work' \in Pod /\ work'.stamp > 0
              /\ [work' EXCEPT !.stamp = @ - 1] = cache
<1>. DEFINE w == [cache EXCEPT !.lim = cache.lim, !.stamp = cache.stamp + 1]
<1>1. \/ UNCHANGED <<work, pc>>
      \/ cache # NoPod /\ work' = w /\ pc' = "update"
  BY DEF HandleScale, SetOnCopy
<1>2. ASSUME cache # NoPod
      PROVE  /\ cache \in Pod /\ w \in Pod /\ w.stamp > 0
             /\ [w EXCEPT !.stamp = @ - 1] = cache
  <2>1. cache \in Pod
    BY <1>2 DEF TypeOK, PodOrNone
  <2>2. /\ cache.stamp \in Nat /\ cache.uid \in Uids /\ cache.rv \in Nat /\ cache.lim \in Limits
        /\ cache.main \in BOOLEAN
        /\ cache = [uid |-> cache.uid, rv |-> cache.rv, lim |-> cache.lim, main |-> cache.main,
                    stamp |-> cache.stamp]
    BY <2>1 DEF Pod
  <2>3. w = [uid |-> cache.uid, rv |-> cache.rv, lim |-> cache.lim, main |-> cache.main,
             stamp |-> cache.stamp + 1]
    <3>. DEFINE u == cache.uid
                r == cache.rv
                l == cache.lim
                m == cache.main
                t == cache.stamp
    <3>1. cache = [uid |-> u, rv |-> r, lim |-> l, main |-> m, stamp |-> t]
      BY <2>2
    <3>2. w = [[cache EXCEPT !.lim = l] EXCEPT !.stamp = t + 1]
      OBVIOUS
    <3>. HIDE DEF u, r, l, m, t, w
    <3>3. [cache EXCEPT !.lim = l] = [uid |-> u, rv |-> r, lim |-> l, main |-> m, stamp |-> t]
      BY <3>1
    <3>4. w = [uid |-> u, rv |-> r, lim |-> l, main |-> m, stamp |-> t + 1]
      BY <3>2, <3>3
    <3>. QED  BY <3>4 DEF u, r, l, m, t
  <2>4. w \in Pod /\ w.stamp > 0
    BY <2>2, <2>3 DEF Pod
  <2>5. (cache.stamp + 1) - 1 = cache.stamp
    BY <2>2
  <2>. HIDE DEF w
  <2>6. w.stamp - 1 = cache.stamp
    BY <2>2, <2>3, <2>5
  <2>7. [w EXCEPT !.stamp = @ - 1] = [w EXCEPT !.stamp = cache.stamp]
    BY <2>6
  <2>8. [w EXCEPT !.stamp = cache.stamp] =
           [uid |-> cache.uid, rv |-> cache.rv, lim |-> cache.lim, main |-> cache.main,
            stamp |-> cache.stamp]
    BY <2>3
  <2>. QED  BY <2>1, <2>2, <2>4, <2>7, <2>8
<1>. QED  BY <1>1, <1>2

\* SetCgroupLimit keeps the files of the cgroups well typed.
LEMMA SetCgroupLimitType ==
    ASSUME TypeOK, NEW q \in Quota, toolkit # 0, SetCgroupLimit(q)
    PROVE  /\ high' \in [Uids -> Nat] /\ ioMax' \in [Uids -> SUBSET [bps : Nat, iops : Nat]]
           /\ limit' \in {"none", "failed", "partly", "done"}
<1>1. toolkit \in Uids /\ q.mem \in Nat /\ IoMax(q) \in [bps : Nat, iops : Nat]
  BY IoMaxType DEF TypeOK, Quota
<1>2. high' \in [Uids -> Nat]
  BY <1>1 DEF TypeOK, SetCgroupLimit, cgroup
<1>3. ioMax' = ioMax \/ ioMax' = [ioMax EXCEPT ![toolkit] = {IoMax(q)}]
  BY DEF SetCgroupLimit, cgroup
<1>4. ioMax' \in [Uids -> SUBSET [bps : Nat, iops : Nat]]
  BY <1>1, <1>3 DEF TypeOK
<1>. QED  BY <1>2, <1>4 DEF SetCgroupLimit

\* The steps of the cluster and of the senders.
LEMMA TypeOKCluster == ASSUME TypeOK, Stamped, Cluster PROVE TypeOK' /\ Stamped'
<1>. USE DEF cluster, cgroup, chans, self
<1>1. CASE Edit
  <2>1. PICK l \in Limits : /\ api # NoPod /\ NewVersion([api EXCEPT !.lim = l])
                            /\ had' = [had EXCEPT ![api.uid] = @ \cup {l}]
    BY <1>1 DEF Edit
  <2>2. api \in Pod /\ [api EXCEPT !.lim = l] \in Pod
    BY <2>1 DEF TypeOK, PodOrNone, Pod
  <2>3. api' \in Pod /\ rv' \in 1..(MaxRv + 1)
    BY <2>1, <2>2, NewVersionType
  <2>4. had' \in [Uids -> SUBSET Limits]
    BY <2>1, <2>2 DEF TypeOK, Pod
  <2>. QED  BY <1>1, <2>3, <2>4 DEF Edit, TypeOK, Stamped, PodOrNone
<1>2. CASE Remove
  <2>1. rv' \in 1..(MaxRv + 1)
    BY <1>2, WorkerConstants DEF Remove, TypeOK
  <2>. QED  BY <1>2, <2>1 DEF Remove, TypeOK, Stamped, PodOrNone
<1>3. CASE Create
  <2>1. PICK u \in Uids, l \in Limits, m \in BOOLEAN :
           /\ NewVersion([uid |-> u, rv |-> 0, lim |-> l, main |-> m, stamp |-> 0])
           /\ had' = [had EXCEPT ![u] = {l}]
    BY <1>3 DEF Create
  <2>2. [uid |-> u, rv |-> 0, lim |-> l, main |-> m, stamp |-> 0] \in Pod
    BY DEF Pod
  <2>3. api' \in Pod /\ rv' \in 1..(MaxRv + 1)
    BY <2>1, <2>2, NewVersionType
  <2>4. had' \in [Uids -> SUBSET Limits]
    BY <2>1 DEF TypeOK
  <2>5. cgroups' \subseteq Uids
    <3>1. \E w \in Uids : cgroups' = cgroups \cup {w}
      BY <1>3 DEF Create
    <3>. QED  BY <3>1 DEF TypeOK
  <2>. QED  BY <1>3, <2>3, <2>4, <2>5 DEF Create, TypeOK, Stamped, PodOrNone
<1>4. CASE Sync \/ RemoveCgroup
  BY <1>4 DEF Sync, RemoveCgroup, TypeOK, Stamped
<1>5. CASE Notify
  <2>1. cache \in PodOrNone /\ calls' \in 1..MaxCalls
    BY <1>5, WorkerConstants DEF Notify, TypeOK
  <2>2. mgr' \subseteq Sent
    BY <1>5, <2>1 DEF Notify, Sent
  <2>. QED  BY <1>5, <2>1, <2>2 DEF Notify, TypeOK, Sent, Stamped
<1>6. CASE NotifyDelete
  <2>1. mgr' \subseteq Sent
    BY <1>6, WorkerConstants DEF NotifyDelete, PodOrNone, Sent
  <2>. QED  BY <1>6, <2>1 DEF NotifyDelete, TypeOK, Sent, Stamped
<1>7. CASE Cancel
  BY <1>7 DEF Cancel, TypeOK, Stamped
<1>. QED  BY <1>1, <1>2, <1>3, <1>4, <1>5, <1>6, <1>7 DEF Cluster

\* The senders of events: the manager, and goroutines with scale events.
LEMMA TypeOKSenders == ASSUME TypeOK, Stamped, Senders PROVE TypeOK' /\ Stamped'
<1>. USE DEF cluster, cgroup, chans, self
<1>0. eventC \in Seq(Events) /\ Len(eventC) < Cap
  BY DEF Senders, SendEvent, GoSendEvent, TypeOK, Events
<1>1. CASE SendEvent
  <2>1. PICK e \in mgr : eventC' = Append(eventC, e) /\ mgr' = mgr \ {e}
    BY <1>1 DEF SendEvent
  <2>2. e \in Events
    BY DEF TypeOK, Events
  <2>3. eventC' \in Seq(Events) /\ Len(eventC') <= Cap
    BY <1>0, <2>1, <2>2, AppendFacts, WorkerConstants
  <2>. QED  BY <1>1, <2>1, <2>3 DEF SendEvent, TypeOK, Events, Stamped
<1>2. CASE GoSendEvent
  <2>1. PICK e \in Scale : /\ outbox[e] > 0 /\ outbox' = [outbox EXCEPT ![e] = @ - 1]
                           /\ eventC' = Append(eventC, [typ |-> e, pod |-> NoPod, call |-> 0])
    BY <1>2 DEF GoSendEvent
  <2>2. [typ |-> e, pod |-> NoPod, call |-> 0] \in Events
    BY WorkerConstants DEF Events, PodOrNone
  <2>3. eventC' \in Seq(Events) /\ Len(eventC') <= Cap
    BY <1>0, <2>1, <2>2, AppendFacts, WorkerConstants
  <2>4. outbox' \in [Scale -> Nat]
    BY <2>1 DEF TypeOK
  <2>. QED  BY <1>2, <2>3, <2>4 DEF GoSendEvent, TypeOK, Events, Stamped
<1>. QED  BY <1>1, <1>2 DEF Senders

\* The steps of loop().
LEMMA TypeOKLoop == ASSUME TypeOK, Stamped, Loop PROVE TypeOK' /\ Stamped'
<1>. USE DEF cluster, cgroup, chans, self
<1>1. CASE Start \/ Stop
  BY <1>1 DEF Start, Stop, TypeOK, Stamped
<1>2. CASE HandlePod
  <2>. DEFINE p == Head(eventC).pod
              q == PodQuota(p)
  <2>1. /\ p \in PodOrNone
        /\ eventC' \in Seq(Events) /\ Len(eventC') <= Cap
        /\ seen' \in [typ : {"none", "New", "Update"}, call : 0..MaxCalls]
    BY <1>2, ReceiveType DEF HandlePod, Events
  <2>2. UNCHANGED <<api, rv, cache, had, cgroups, calls, mgr, outbox, build, work, ticks, ctxDone, toolkit>>
    BY <1>2 DEF HandlePod
  <2>3. CASE ~ p.main /\ UNCHANGED <<cgroup, pc, self>>
    BY <2>1, <2>2, <2>3 DEF TypeOK, Events, Stamped
  <2>4. CASE p.main /\ pod' = p /\ quota' = q
    <3>1. p \in Pod /\ q \in Quota
      BY <2>1, <2>4, NoPodFacts, PodQuotaType DEF PodOrNone
    <3>. HIDE DEF p, q
    <3>2. pod' \in Pod /\ quota' \in Quota
      BY <2>4, <3>1
    <3>3. CASE toolkit = 0 /\ pc' = "panic" /\ UNCHANGED <<cgroup, limit>>
      BY <2>1, <2>2, <3>2, <3>3 DEF TypeOK, Events, Stamped
    <3>4. CASE toolkit # 0 /\ SetCgroupLimit(q) /\ UNCHANGED pc
      BY <2>1, <2>2, <3>1, <3>2, <3>4, SetCgroupLimitType DEF TypeOK, Events, Stamped
    <3>. QED  BY <1>2, <2>4, <3>3, <3>4, NoPodFacts DEF HandlePod, p, q
  <2>. QED  BY <1>2, <2>3, <2>4 DEF HandlePod
<1>3. CASE HandleDelete
  BY <1>3, ReceiveType DEF HandleDelete, TypeOK, Events, Stamped
<1>4. CASE HandleScale
  <2>1. /\ eventC' \in Seq(Events) /\ Len(eventC') <= Cap
        /\ seen' \in [typ : {"none", "New", "Update"}, call : 0..MaxCalls]
        /\ pc = "select"
    BY <1>4, ReceiveType DEF HandleScale, Receive
  <2>2. CASE UNCHANGED <<work, pc>>
    BY <1>4, <2>1, <2>2 DEF HandleScale, TypeOK, Events, Stamped
  <2>3. CASE pc' = "update" /\ work' \in Pod /\ work'.stamp > 0
    BY <1>4, <2>1, <2>3, NoPodFacts DEF HandleScale, TypeOK, Events, Stamped, PodOrNone
  <2>. QED  BY <1>4, <2>2, <2>3, HandleScaleReads
<1>5. CASE Update
  <2>1. work \in Pod
    BY <1>5 DEF Update, TypeOK, Stamped, PodOrNone
  <2>2. api' \in PodOrNone /\ rv' \in 1..(MaxRv + 1)
    BY <1>5, <2>1, NewVersionType DEF Update, TypeOK, PodOrNone
  <2>. QED  BY <1>5, <2>2 DEF Update, TypeOK, Stamped, PodOrNone
<1>6. CASE Tick
  <2>1. ticks' \in 0..MaxTicks
    BY <1>6, WorkerConstants DEF Tick, TypeOK
  <2>2. toolkit' \in {0} \cup Uids
    BY <1>6 DEF Tick, TypeOK, Pod
  <2>3. outbox' \in [Scale -> Nat]
    <3>1. CASE UNCHANGED outbox
      BY <3>1 DEF TypeOK
    <3>2. CASE \E up, down \in 0..1 :
                  outbox' = [outbox EXCEPT !["ScaleUp"] = @ + up, !["ScaleDown"] = @ + down]
      BY <3>2 DEF TypeOK, Scale
    <3>. QED  BY <1>6, <3>1, <3>2 DEF Tick
  <2>. QED  BY <1>6, <2>1, <2>2, <2>3 DEF Tick, TypeOK, Stamped
<1>. QED  BY <1>1, <1>2, <1>3, <1>4, <1>5, <1>6 DEF Loop

\* Every step keeps the variables in their types.
LEMMA TypeOKStep == TypeOK /\ Stamped /\ [Next]_vars => TypeOK' /\ Stamped'
<1>. SUFFICES ASSUME TypeOK, Stamped, [Next]_vars PROVE TypeOK' /\ Stamped'
  OBVIOUS
<1>1. CASE UNCHANGED vars
  BY <1>1 DEF vars, cluster, cgroup, chans, self, TypeOK, Stamped
<1>. QED  BY <1>1, TypeOKCluster, TypeOKSenders, TypeOKLoop DEF Next

(***************************************************************************)
(* The worker, its channel, its pod and the cgroup files keep their types: *)
(* w.pod is always a pod, and what updatePodQuota writes is one too.       *)
(***************************************************************************)
THEOREM TypeCorrect == Spec => []TypeOK
BY TypeOKInit, TypeOKStep, PTL DEF Spec

-----------------------------------------------------------------------------
(* The copies of the pod.                                                  *)

InChannel == {eventC[i] : i \in DOMAIN eventC}

\* The events on their way.
LEMMA ChannelFacts ==
    ASSUME TypeOK
    PROVE  /\ eventC \in Seq(Events) /\ mgr \subseteq Events /\ InChannel \subseteq Events
           /\ DOMAIN eventC = 1..Len(eventC) /\ Len(eventC) \in Nat
           /\ PodEvents = {e \in mgr \cup InChannel : IsPodEvent(e)}
           /\ PodEvents \subseteq Events
           /\ \A e \in Events : e.pod \in PodOrNone /\ e.pod.rv \in Nat /\ e.call \in Nat
<1>1. eventC \in Seq(Events) /\ mgr \subseteq Events
  BY DEF TypeOK, Events
<1>2. DOMAIN eventC = 1..Len(eventC) /\ Len(eventC) \in Nat /\ \A i \in DOMAIN eventC : eventC[i] \in Events
  BY <1>1
<1>3. InChannel \subseteq Events
  BY <1>2 DEF InChannel
<1>4. PodEvents = {e \in mgr \cup InChannel : IsPodEvent(e)}
  BY DEF PodEvents, InChannel, IsPodEvent
<1>5. \A e \in Events : e.pod \in PodOrNone /\ e.pod.rv \in Nat /\ e.call \in Nat
  BY NoPodFacts DEF Events, PodOrNone, Pod
<1>. QED  BY <1>1, <1>2, <1>3, <1>4, <1>5

\* What the API server reads back from updatePodQuota's object.
LEMMA ReadCopyFields ==
    ASSUME work \in Pod, work.stamp > 0
    PROVE  /\ ReadCopy \in Pod
           /\ ReadCopy.uid = work.uid /\ ReadCopy.rv = work.rv /\ ReadCopy.lim = work.lim
           /\ ReadCopy = [uid |-> work.uid, rv |-> work.rv, lim |-> work.lim,
                          main |-> work.main, stamp |-> work.stamp - 1]
<1>1. /\ work.stamp - 1 \in Nat /\ work.uid \in Uids /\ work.rv \in Nat /\ work.lim \in Limits
      /\ work.main \in BOOLEAN
      /\ work = [uid |-> work.uid, rv |-> work.rv, lim |-> work.lim, main |-> work.main,
                 stamp |-> work.stamp]
  BY DEF Pod
<1>2. ReadCopy = [uid |-> work.uid, rv |-> work.rv, lim |-> work.lim,
                  main |-> work.main, stamp |-> work.stamp - 1]
  <2>. DEFINE u == work.uid
              r == work.rv
              l == work.lim
              m == work.main
              t == work.stamp
  <2>1. work = [uid |-> u, rv |-> r, lim |-> l, main |-> m, stamp |-> t]
    BY <1>1
  <2>2. ReadCopy = [work EXCEPT !.stamp = t - 1]
    BY DEF ReadCopy
  <2>. HIDE DEF u, r, l, m, t
  <2>3. ReadCopy = [uid |-> u, rv |-> r, lim |-> l, main |-> m, stamp |-> t - 1]
    BY <2>1, <2>2
  <2>. QED  BY <2>3 DEF u, r, l, m, t
<1>. QED  BY <1>1, <1>2 DEF Pod

\* The copies are pods.
LEMMA CopiesArePods == ASSUME TypeOK, Stamped PROVE Copies \subseteq Pod
<1>1. pc = "update" => ReadCopy \in Pod
  BY ReadCopyFields DEF Stamped, TypeOK, PodOrNone
<1>2. \A e \in PodEvents : e.pod \in PodOrNone
  BY ChannelFacts
<1>3. api \in PodOrNone /\ cache \in PodOrNone /\ pod \in PodOrNone
  BY DEF TypeOK, PodOrNone
<1>. QED  BY <1>1, <1>2, <1>3 DEF Copies, PodOrNone

\* Where the copies of the next state come from.
LEMMA CopiesFrom ==
    ASSUME NEW A,
           api' \in Copies \cup {NoPod} \cup A, cache' \in Copies \cup {NoPod},
           pod' \in Copies \cup {NoPod},
           \A e \in PodEvents' : e.pod \in Copies \cup {NoPod},
           pc' = "update" => ReadCopy' \in Copies
    PROVE  Copies' \subseteq Copies \cup A
<1>. DEFINE C == Copies
            P == PodEvents'
            R == ReadCopy'
<1>1. Copies' = ({api', cache', pod'} \cup {e.pod : e \in P}
                    \cup (IF pc' = "update" THEN {R} ELSE {})) \ {NoPod}
  BY DEF Copies
<1>. HIDE DEF C, P, R
<1>. QED  BY <1>1 DEF C, P, R

\* The holders of copies hold copies.
LEMMA HoldCopies ==
    ASSUME TypeOK, Stamped
    PROVE  /\ api \in Copies \cup {NoPod} /\ cache \in Copies \cup {NoPod} /\ pod \in Copies
           /\ \A e \in PodEvents : e.pod \in Copies \cup {NoPod}
           /\ pc = "update" => ReadCopy \in Copies
<1>1. pod # NoPod /\ (pc = "update" => ReadCopy # NoPod)
  BY ReadCopyFields, NoPodFacts DEF Stamped, TypeOK, PodOrNone
<1>. QED  BY <1>1 DEF Copies

\* A step that makes no new version and no new copies.
LEMMA CopiesKept ==
    ASSUME TypeOK, CopiesAgree, UNCHANGED <<api, rv, had>>, Copies' \subseteq Copies
    PROVE  CopiesAgree'
BY DEF CopiesAgree

\* A step that removes the API server's pod.
LEMMA CopiesRemoved ==
    ASSUME TypeOK, Stamped, CopiesAgree, api' = NoPod, rv' = rv + 1, UNCHANGED had,
           Copies' \subseteq Copies
    PROVE  CopiesAgree'
<1>1. \A x \in Copies' : x.rv \in 1..rv' /\ x.lim \in had'[x.uid]
  BY DEF CopiesAgree, TypeOK
<1>. QED  BY <1>1 DEF CopiesAgree

\* A step that makes the API server's next version.
LEMMA CopiesNext ==
    ASSUME TypeOK, Stamped, CopiesAgree, NEW n \in Pod,
           api' = n, n.rv = rv + 1, rv' = rv + 1, n.lim \in had'[n.uid],
           Copies' \subseteq Copies \cup {n},
           \A x \in Copies : x.uid <= n.uid,
           \A u \in Uids : had[u] \subseteq had'[u],
           \A u, v \in Uids : u < v /\ had'[v] # {} => had'[u] # {}
    PROVE  CopiesAgree'
<1>0. rv \in Nat
  BY DEF TypeOK
<1>1. \A x \in Copies : x \in Pod /\ x.rv \in Nat /\ x.uid \in Uids /\ x.uid \in Nat
  BY CopiesArePods DEF Pod, Uids
<1>2. n.uid \in Nat
  BY DEF Pod, Uids
<1>3. \A x \in Copies : x.rv \in 1..rv /\ x.lim \in had[x.uid]
  BY DEF CopiesAgree
<1>4. \A x \in Copies' : x.rv \in 1..rv' /\ x.lim \in had'[x.uid]
  BY <1>0, <1>1, <1>3
<1>5. \A x, y \in Copies' : /\ x.rv = y.rv => x = y
                            /\ x.rv <= y.rv => x.uid <= y.uid
  <2>. SUFFICES ASSUME NEW x \in Copies', NEW y \in Copies'
                PROVE  /\ x.rv = y.rv => x = y
                       /\ x.rv <= y.rv => x.uid <= y.uid
    OBVIOUS
  <2>1. CASE x = n /\ y = n
    BY <1>2, <2>1
  <2>2. CASE x = n /\ y \in Copies
    BY <1>0, <1>3, <2>2
  <2>3. CASE x \in Copies /\ y = n
    BY <1>0, <1>3, <2>3
  <2>4. CASE x \in Copies /\ y \in Copies
    BY <2>4 DEF CopiesAgree
  <2>. QED  BY <2>1, <2>2, <2>3, <2>4
<1>6. \A x \in Copies' : x.rv <= api'.rv
  BY <1>0, <1>4
<1>. QED  BY <1>4, <1>5, <1>6 DEF CopiesAgree

-----------------------------------------------------------------------------
(* The order of the events.                                                *)

\* An event at the end of the channel.
LEMMA ChannelAppend ==
    ASSUME TypeOK, NEW e \in Events, eventC' = Append(eventC, e)
    PROVE  /\ InChannel' = InChannel \cup {e}
           /\ DOMAIN eventC' = 1..(Len(eventC) + 1)
           /\ \A i \in 1..Len(eventC) : eventC'[i] = eventC[i]
           /\ eventC'[Len(eventC) + 1] = e
<1>1. /\ DOMAIN eventC = 1..Len(eventC) /\ Len(eventC) \in Nat
      /\ DOMAIN eventC' = 1..(Len(eventC) + 1)
      /\ \A i \in 1..Len(eventC) : eventC'[i] = eventC[i]
      /\ eventC'[Len(eventC) + 1] = e
  BY ChannelFacts, AppendFacts
<1>2. InChannel' = {eventC'[i] : i \in 1..(Len(eventC) + 1)}
  BY <1>1 DEF InChannel
<1>3. InChannel = {eventC[i] : i \in 1..Len(eventC)}
  BY <1>1 DEF InChannel
<1>4. \A i \in 1..(Len(eventC) + 1) : i \in 1..Len(eventC) \/ i = Len(eventC) + 1
  BY <1>1
<1>5. InChannel' \subseteq InChannel \cup {e}
  BY <1>1, <1>2, <1>3, <1>4
<1>6. \A i \in 1..Len(eventC) : i \in 1..(Len(eventC) + 1)
  BY <1>1
<1>7. Len(eventC) + 1 \in 1..(Len(eventC) + 1)
  BY <1>1
<1>8. InChannel \cup {e} \subseteq InChannel'
  BY <1>1, <1>2, <1>3, <1>6, <1>7
<1>. QED  BY <1>1, <1>5, <1>8

\* The first event leaves the channel.
LEMMA ChannelTail ==
    ASSUME TypeOK, eventC # <<>>, eventC' = Tail(eventC)
    PROVE  /\ InChannel = InChannel' \cup {Head(eventC)}
           /\ Head(eventC) = eventC[1] /\ 1 \in DOMAIN eventC
           /\ DOMAIN eventC' = 1..(Len(eventC) - 1)
           /\ \A i \in DOMAIN eventC' : eventC'[i] = eventC[i + 1] /\ i + 1 \in DOMAIN eventC
<1>1. /\ Head(eventC) = eventC[1] /\ Len(eventC) \in Nat \ {0}
      /\ DOMAIN eventC = 1..Len(eventC) /\ DOMAIN eventC' = 1..(Len(eventC) - 1)
      /\ \A i \in 1..(Len(eventC) - 1) : eventC'[i] = eventC[i + 1]
  BY ChannelFacts, TailFacts
<1>2. 1 \in DOMAIN eventC /\ \A i \in DOMAIN eventC' : i + 1 \in DOMAIN eventC
  BY <1>1
<1>3. InChannel' \cup {Head(eventC)} \subseteq InChannel
  BY <1>1, <1>2 DEF InChannel
<1>4. ASSUME NEW i \in DOMAIN eventC, i # 1
      PROVE  i - 1 \in DOMAIN eventC' /\ eventC'[i - 1] = eventC[i]
  <2>1. i - 1 \in DOMAIN eventC' /\ (i - 1) + 1 = i
    BY <1>1, <1>4
  <2>. QED  BY <1>1, <2>1
<1>5. \A i \in DOMAIN eventC : eventC[i] \in InChannel' \cup {Head(eventC)}
  <2>. SUFFICES ASSUME NEW i \in DOMAIN eventC, i # 1 PROVE eventC[i] \in InChannel'
    BY <1>1
  <2>1. PICK j \in DOMAIN eventC' : eventC'[j] = eventC[i]
    BY <1>4
  <2>. QED  BY <2>1 DEF InChannel
<1>6. InChannel \subseteq InChannel' \cup {Head(eventC)}
  BY <1>5 DEF InChannel
<1>. QED  BY <1>1, <1>2, <1>3, <1>6

\* A step that leaves the events, the worker's pod and the informer's copy
\* alone.
LEMMA OrderKept ==
    ASSUME EventsInOrder, UNCHANGED <<mgr, eventC, calls, seen, pod, cache>>
    PROVE  EventsInOrder' /\ PodEvents' = PodEvents
<1>1. PodEvents' = PodEvents
  BY DEF PodEvents
<1>. QED  BY <1>1 DEF EventsInOrder, IsPodEvent, Earlier

\* The informer catches up: no copy is later than the API server's pod.
LEMMA OrderSync ==
    ASSUME TypeOK, Stamped, CopiesAgree, EventsInOrder, Sync
    PROVE  EventsInOrder' /\ PodEvents' = PodEvents
<1>1. UNCHANGED <<mgr, eventC, calls, seen, pod>> /\ cache' = api
  BY DEF Sync, chans, self
<1>2. PodEvents' = PodEvents
  BY <1>1 DEF PodEvents
<1>3. api # NoPod => \A x \in {pod} \cup {e.pod : e \in PodEvents} : x.rv <= api.rv
  <2>1. \A x \in {pod} \cup {e.pod : e \in PodEvents} : x \in Copies
    BY HoldCopies DEF EventsInOrder
  <2>. QED  BY <2>1 DEF CopiesAgree
<1>. QED  BY <1>1, <1>2, <1>3 DEF EventsInOrder, IsPodEvent, Earlier

\* The manager is told of the informer's copy.
LEMMA OrderNotify ==
    ASSUME TypeOK, EventsInOrder, Notify
    PROVE  EventsInOrder' /\ \A e \in PodEvents' : e \in PodEvents \/ e.pod = cache
<1>. DEFINE n == [typ |-> "Update", pod |-> cache, call |-> calls + 1]
<1>1. /\ mgr = {} /\ mgr' = {n} /\ cache # NoPod /\ calls' = calls + 1
      /\ UNCHANGED <<eventC, seen, pod, cache>>
  BY DEF Notify, self, cluster
<1>2. calls \in Nat /\ cache.rv \in Nat /\ seen.call \in Nat /\ pod.rv \in Nat
  BY NoPodFacts DEF TypeOK, PodOrNone, Pod
<1>3. PodEvents' = PodEvents \cup {n}
  <2>1. IsPodEvent(n) /\ InChannel' = InChannel
    BY <1>1 DEF IsPodEvent, InChannel
  <2>2. PodEvents' = {e \in {n} \cup InChannel : IsPodEvent(e)}
    BY <1>1 DEF PodEvents, InChannel, IsPodEvent
  <2>3. PodEvents = {e \in InChannel : IsPodEvent(e)}
    BY <1>1 DEF PodEvents, InChannel, IsPodEvent
  <2>. QED  BY <2>1, <2>2, <2>3
<1>4. n.typ = "Update" /\ n.pod = cache /\ n.call = calls + 1
  OBVIOUS
<1>. HIDE DEF n
<1>5. \A e \in PodEvents : /\ e.pod.rv \in Nat /\ e.call \in Nat /\ e.call <= calls /\ e.pod # NoPod
                           /\ seen.call < e.call /\ pod.rv <= e.pod.rv
                           /\ e.pod.rv <= cache.rv
  BY <1>1, ChannelFacts DEF EventsInOrder
<1>6. \A i \in DOMAIN eventC : IsPodEvent(eventC[i]) => eventC[i] \in PodEvents
  BY DEF PodEvents, IsPodEvent
<1>7. /\ \A e, f \in mgr' : e = f
      /\ \A i, j \in DOMAIN eventC' :
            i < j /\ IsPodEvent(eventC'[i]) /\ IsPodEvent(eventC'[j]) => Earlier(eventC'[i], eventC'[j])
  BY <1>1 DEF EventsInOrder
<1>e. \A e \in PodEvents : Earlier(e, n)
  BY <1>2, <1>4, <1>5 DEF Earlier
<1>8. \A i \in DOMAIN eventC', e \in mgr' :
          IsPodEvent(eventC'[i]) /\ IsPodEvent(e) => Earlier(eventC'[i], e)
  BY <1>1, <1>6, <1>e
<1>p. pod.rv <= cache.rv /\ seen.call <= calls
  BY <1>1 DEF EventsInOrder
<1>9. \A e \in PodEvents' : /\ e.pod # NoPod
                            /\ seen'.call < e.call /\ e.call <= calls'
                            /\ pod'.rv <= e.pod.rv
  BY <1>1, <1>2, <1>3, <1>4, <1>5, <1>p
<1>10. /\ seen'.call <= calls'
       /\ \A x \in {pod'} \cup {e.pod : e \in PodEvents'} : x.rv <= cache'.rv
  BY <1>1, <1>2, <1>3, <1>4, <1>5, <1>p
<1>11. CASE seen = NoEvent
  <2>1. PICK e \in PodEvents : /\ e.typ = "New"
                               /\ \A f \in PodEvents \ {e} : f.typ = "Update" /\ Earlier(e, f)
    BY <1>11 DEF EventsInOrder
  <2>3. e \in PodEvents' /\ \A f \in PodEvents' \ {e} : f.typ = "Update" /\ Earlier(e, f)
    BY <1>3, <1>4, <1>e, <2>1
  <2>. QED  BY <1>1, <1>3, <1>4, <1>7, <1>8, <1>9, <1>10, <1>11, <2>1, <2>3
            DEF EventsInOrder, IsPodEvent, Earlier
<1>12. CASE seen # NoEvent
  <2>1. \A e \in PodEvents' : e.typ = "Update"
    BY <1>3, <1>4, <1>12 DEF EventsInOrder
  <2>. QED  BY <1>1, <1>3, <1>4, <1>7, <1>8, <1>9, <1>10, <1>12, <2>1
            DEF EventsInOrder, IsPodEvent, Earlier
<1>. QED  BY <1>3, <1>4, <1>11, <1>12

\* A pod event comes first in the channel only if no other is before it.
LEMMA HeadIsFirst ==
    ASSUME TypeOK, EventsInOrder, eventC # <<>>, eventC' = Tail(eventC), UNCHANGED mgr
    PROVE  /\ PodEvents' \subseteq PodEvents
           /\ IsPodEvent(Head(eventC)) =>
                 /\ Head(eventC) \in PodEvents
                 /\ PodEvents \subseteq PodEvents' \cup {Head(eventC)}
                 /\ \A e \in PodEvents' : Earlier(Head(eventC), e)
           /\ ~ IsPodEvent(Head(eventC)) => PodEvents' = PodEvents
           /\ \A i, j \in DOMAIN eventC' :
                 i < j /\ IsPodEvent(eventC'[i]) /\ IsPodEvent(eventC'[j]) =>
                     Earlier(eventC'[i], eventC'[j])
           /\ \A i \in DOMAIN eventC', e \in mgr :
                 IsPodEvent(eventC'[i]) /\ IsPodEvent(e) => Earlier(eventC'[i], e)
<1>. DEFINE h == Head(eventC)
<1>1. /\ InChannel = InChannel' \cup {h}
      /\ h = eventC[1] /\ 1 \in DOMAIN eventC
      /\ DOMAIN eventC' = 1..(Len(eventC) - 1)
      /\ \A i \in DOMAIN eventC' : eventC'[i] = eventC[i + 1] /\ i + 1 \in DOMAIN eventC
      /\ Len(eventC) \in Nat
  BY ChannelTail, ChannelFacts
<1>2. /\ PodEvents = {e \in mgr \cup InChannel : IsPodEvent(e)}
      /\ PodEvents' = {e \in mgr \cup InChannel' : IsPodEvent(e)}
  BY DEF PodEvents, InChannel, IsPodEvent
<1>. HIDE DEF h
<1>3. /\ PodEvents' \subseteq PodEvents
      /\ IsPodEvent(h) => h \in PodEvents /\ PodEvents \subseteq PodEvents' \cup {h}
      /\ ~ IsPodEvent(h) => PodEvents' = PodEvents
  BY <1>1, <1>2
<1>4. ASSUME IsPodEvent(h), NEW e \in PodEvents' PROVE Earlier(h, e)
  <2>1. IsPodEvent(e) /\ (e \in mgr \/ e \in InChannel')
    BY <1>2
  <2>2. CASE e \in mgr
    BY <1>1, <1>4, <2>1, <2>2 DEF EventsInOrder
  <2>3. CASE e \in InChannel'
    <3>1. PICK i \in DOMAIN eventC' : e = eventC'[i]
      BY <2>3 DEF InChannel
    <3>2. i \in Nat /\ 1 < i + 1 /\ i + 1 \in DOMAIN eventC /\ e = eventC[i + 1]
      BY <1>1, <3>1
    <3>. QED  BY <1>1, <1>4, <2>1, <3>2 DEF EventsInOrder
  <2>. QED  BY <2>1, <2>2, <2>3
<1>5. ASSUME NEW i \in DOMAIN eventC', NEW j \in DOMAIN eventC',
             i < j, IsPodEvent(eventC'[i]), IsPodEvent(eventC'[j])
      PROVE  Earlier(eventC'[i], eventC'[j])
  <2>1. i + 1 < j + 1 /\ i + 1 \in DOMAIN eventC /\ j + 1 \in DOMAIN eventC
    BY <1>1, <1>5
  <2>2. eventC'[i] = eventC[i + 1] /\ eventC'[j] = eventC[j + 1]
    BY <1>1
  <2>. QED  BY <1>5, <2>1, <2>2 DEF EventsInOrder
<1>6. ASSUME NEW i \in DOMAIN eventC', NEW e \in mgr, IsPodEvent(eventC'[i]), IsPodEvent(e)
      PROVE  Earlier(eventC'[i], e)
  <2>1. i + 1 \in DOMAIN eventC /\ eventC'[i] = eventC[i + 1]
    BY <1>1
  <2>. QED  BY <1>6, <2>1 DEF EventsInOrder
<1>. QED  BY <1>3, <1>4, <1>5, <1>6 DEF h

\* An event that is not of a pod is taken.
LEMMA OrderOther ==
    ASSUME TypeOK, EventsInOrder, eventC # <<>>, eventC' = Tail(eventC),
           ~ IsPodEvent(Head(eventC)), UNCHANGED <<mgr, calls, seen, pod, cache>>
    PROVE  EventsInOrder' /\ PodEvents' = PodEvents
<1>1. PodEvents' = PodEvents
  BY HeadIsFirst
<1>. QED  BY <1>1, HeadIsFirst DEF EventsInOrder, IsPodEvent, Earlier

\* A pod event is taken.
LEMMA OrderHandlePod ==
    ASSUME TypeOK, EventsInOrder, HandlePod
    PROVE  /\ EventsInOrder'
           /\ PodEvents' \subseteq PodEvents
           /\ Head(eventC) \in PodEvents
           /\ pod' \in {pod, Head(eventC).pod}
           /\ seen' = [typ |-> IF seen = NoEvent THEN "New" ELSE "Update",
                       call |-> Head(eventC).call]
<1>. DEFINE h == Head(eventC)
<1>1. /\ eventC # <<>> /\ eventC' = Tail(eventC) /\ UNCHANGED <<mgr, calls, cache>>
      /\ h.typ \in {"New", "Update"}
      /\ seen' = [typ |-> h.typ, call |-> h.call]
      /\ pod' \in {pod, h.pod}
  BY DEF HandlePod, Receive, self, cluster
<1>2. /\ PodEvents' \subseteq PodEvents
      /\ h \in PodEvents
      /\ PodEvents \subseteq PodEvents' \cup {h}
      /\ \A e \in PodEvents' : Earlier(h, e)
  BY <1>1, HeadIsFirst DEF IsPodEvent
<1>3. /\ \A i, j \in DOMAIN eventC' :
            i < j /\ IsPodEvent(eventC'[i]) /\ IsPodEvent(eventC'[j]) =>
                     Earlier(eventC'[i], eventC'[j])
      /\ \A i \in DOMAIN eventC', e \in mgr :
            IsPodEvent(eventC'[i]) /\ IsPodEvent(e) => Earlier(eventC'[i], e)
  BY <1>1, HeadIsFirst DEF IsPodEvent
<1>4. \A e \in PodEvents : /\ e.call \in Nat /\ e.call <= calls
                           /\ e.pod.rv \in Nat /\ e.pod # NoPod
                           /\ pod.rv <= e.pod.rv
                           /\ cache # NoPod => e.pod.rv <= cache.rv
  BY ChannelFacts DEF EventsInOrder
<1>p. cache # NoPod => pod.rv <= cache.rv
  BY DEF EventsInOrder
<1>. HIDE DEF h
<1>c. seen'.call = h.call
  BY <1>1
<1>5. \A e \in PodEvents' : /\ e.pod # NoPod
                            /\ seen'.call < e.call /\ e.call <= calls'
                            /\ pod'.rv <= e.pod.rv
  BY <1>1, <1>2, <1>4, <1>c DEF Earlier
<1>6. seen'.call <= calls'
  BY <1>1, <1>2, <1>4, <1>c
<1>v. cache' # NoPod => \A x \in {pod'} \cup {e.pod : e \in PodEvents'} : x.rv <= cache'.rv
  BY <1>1, <1>2, <1>4, <1>p
<1>7. seen' # NoEvent
  <2>1. seen'.typ # "none"
    BY <1>1
  <2>. QED  BY <2>1 DEF NoEvent
<1>8. /\ \A e \in PodEvents' : e.typ = "Update"
      /\ h.typ = IF seen = NoEvent THEN "New" ELSE "Update"
  <2>1. CASE seen = NoEvent
    <3>1. PICK n \in PodEvents : /\ n.typ = "New"
                                 /\ \A f \in PodEvents \ {n} : f.typ = "Update" /\ Earlier(n, f)
      BY <2>1 DEF EventsInOrder
    <3>2. n = h
      <4>. SUFFICES ASSUME n # h PROVE FALSE
        OBVIOUS
      <4>1. n \in PodEvents' /\ h.call < n.call /\ n.call < h.call
        BY <1>2, <3>1 DEF Earlier
      <4>. QED  BY <1>2, <1>4, <4>1
    <3>3. h \notin PodEvents'
      BY <1>2, <1>4 DEF Earlier
    <3>. QED  BY <1>2, <2>1, <3>1, <3>2, <3>3
  <2>2. CASE seen # NoEvent
    BY <1>2, <2>2 DEF EventsInOrder
  <2>. QED  BY <2>1, <2>2
<1>9. \A e, f \in mgr' : e = f
  BY <1>1 DEF EventsInOrder
<1>10. EventsInOrder'
  BY <1>1, <1>3, <1>5, <1>6, <1>v, <1>7, <1>8, <1>9 DEF EventsInOrder, IsPodEvent, Earlier
<1>. QED  BY <1>1, <1>2, <1>8, <1>10 DEF h

\* The manager's event goes into the channel, after those that are there.
LEMMA OrderSendEvent ==
    ASSUME TypeOK, EventsInOrder, SendEvent
    PROVE  EventsInOrder' /\ PodEvents' = PodEvents
<1>1. PICK e \in mgr : eventC' = Append(eventC, e) /\ mgr' = mgr \ {e}
  BY DEF SendEvent
<1>2. UNCHANGED <<calls, seen, pod, cache>>
  BY DEF SendEvent, self, cluster
<1>3. e \in Events /\ mgr = {e} /\ mgr' = {} /\ Len(eventC) \in Nat /\ DOMAIN eventC = 1..Len(eventC)
  BY <1>1, ChannelFacts DEF EventsInOrder
<1>4. /\ InChannel' = InChannel \cup {e}
      /\ DOMAIN eventC' = 1..(Len(eventC) + 1)
      /\ \A i \in 1..Len(eventC) : eventC'[i] = eventC[i]
      /\ eventC'[Len(eventC) + 1] = e
  BY <1>1, <1>3, ChannelAppend
<1>5. PodEvents' = PodEvents
  <2>1. /\ PodEvents = {f \in mgr \cup InChannel : IsPodEvent(f)}
        /\ PodEvents' = {f \in mgr' \cup InChannel' : IsPodEvent(f)}
    BY DEF PodEvents, InChannel, IsPodEvent
  <2>. QED  BY <1>3, <1>4, <2>1
<1>6. ASSUME NEW i \in DOMAIN eventC', NEW j \in DOMAIN eventC',
             i < j, IsPodEvent(eventC'[i]), IsPodEvent(eventC'[j])
      PROVE  Earlier(eventC'[i], eventC'[j])
  <2>1. i \in 1..Len(eventC) /\ (j \in 1..Len(eventC) \/ j = Len(eventC) + 1)
    BY <1>3, <1>4, <1>6
  <2>2. CASE j \in 1..Len(eventC)
    BY <1>3, <1>4, <1>6, <2>1, <2>2 DEF EventsInOrder
  <2>3. CASE j = Len(eventC) + 1
    <3>1. eventC'[i] = eventC[i] /\ eventC'[j] = e
      BY <1>4, <2>1, <2>3
    <3>. QED  BY <1>3, <1>6, <2>1, <3>1 DEF EventsInOrder
  <2>. QED  BY <2>1, <2>2, <2>3
<1>. QED  BY <1>2, <1>3, <1>5, <1>6 DEF EventsInOrder, IsPodEvent, Earlier

\* A scale event, or a Delete event in the manager's hand, is none of a pod.
LEMMA OrderGoSendEvent ==
    ASSUME TypeOK, EventsInOrder, GoSendEvent
    PROVE  EventsInOrder' /\ PodEvents' = PodEvents
<1>1. PICK t \in Scale : eventC' = Append(eventC, [typ |-> t, pod |-> NoPod, call |-> 0])
  BY DEF GoSendEvent
<1>. DEFINE e == [typ |-> t, pod |-> NoPod, call |-> 0]
<1>2. UNCHANGED <<mgr, calls, seen, pod, cache>>
  BY DEF GoSendEvent, self, cluster
<1>3. e \in Events /\ ~ IsPodEvent(e) /\ Len(eventC) \in Nat /\ DOMAIN eventC = 1..Len(eventC)
  BY ChannelFacts, WorkerConstants DEF Events, IsPodEvent, Scale, PodOrNone
<1>4. eventC' = Append(eventC, e)
  BY <1>1
<1>. HIDE DEF e
<1>5. /\ InChannel' = InChannel \cup {e}
      /\ DOMAIN eventC' = 1..(Len(eventC) + 1)
      /\ \A i \in 1..Len(eventC) : eventC'[i] = eventC[i]
      /\ eventC'[Len(eventC) + 1] = e
  BY <1>4, <1>3, ChannelAppend
<1>6. PodEvents' = PodEvents
  <2>1. /\ PodEvents = {f \in mgr \cup InChannel : IsPodEvent(f)}
        /\ PodEvents' = {f \in mgr' \cup InChannel' : IsPodEvent(f)}
    BY DEF PodEvents, InChannel, IsPodEvent
  <2>. QED  BY <1>2, <1>3, <1>5, <2>1
<1>7. \A i \in DOMAIN eventC' : IsPodEvent(eventC'[i]) => i \in DOMAIN eventC /\ eventC'[i] = eventC[i]
  <2>1. \A i \in 1..(Len(eventC) + 1) : i \in 1..Len(eventC) \/ i = Len(eventC) + 1
    BY <1>3
  <2>. QED  BY <1>3, <1>5, <2>1
<1>8. /\ \A i, j \in DOMAIN eventC' :
            i < j /\ IsPodEvent(eventC'[i]) /\ IsPodEvent(eventC'[j]) =>
                     Earlier(eventC'[i], eventC'[j])
      /\ \A i \in DOMAIN eventC', f \in mgr :
            IsPodEvent(eventC'[i]) /\ IsPodEvent(f) => Earlier(eventC'[i], f)
  BY <1>7 DEF EventsInOrder
<1>. QED  BY <1>2, <1>6, <1>8 DEF EventsInOrder, IsPodEvent, Earlier

\* A delete event carries no version of the pod.
LEMMA OrderNotifyDelete ==
    ASSUME TypeOK, EventsInOrder, NotifyDelete
    PROVE  EventsInOrder' /\ PodEvents' = PodEvents
<1>. DEFINE d == [typ |-> "Delete", pod |-> NoPod, call |-> 0]
<1>1. /\ mgr = {} /\ mgr' = {d}
      /\ UNCHANGED <<eventC, calls, seen, pod, cache>>
  BY DEF NotifyDelete, self, cluster
<1>3. ~ IsPodEvent(d)
  BY DEF IsPodEvent
<1>. HIDE DEF d
<1>4. PodEvents' = PodEvents
  <2>1. /\ PodEvents = {f \in mgr \cup InChannel : IsPodEvent(f)}
        /\ PodEvents' = {f \in mgr' \cup InChannel' : IsPodEvent(f)}
        /\ InChannel' = InChannel
    BY <1>1 DEF PodEvents, InChannel, IsPodEvent
  <2>. QED  BY <1>1, <1>3, <2>1
<1>. QED  BY <1>1, <1>3, <1>4 DEF EventsInOrder, IsPodEvent, Earlier

-----------------------------------------------------------------------------
(* The invariant.                                                          *)

\* It holds when the manager has made the first New event.
LEMMA IInvInit == Init => IInv
<1>. SUFFICES ASSUME Init PROVE IInv
  OBVIOUS
<1>. DEFINE e == [typ |-> "New", pod |-> api, call |-> 1]
<1>0. TypeOK /\ Stamped
  BY TypeOKInit
<1>1. PICK l \in Limits, m \in BOOLEAN :
         api = [uid |-> 1, rv |-> 1, lim |-> l, main |-> m, stamp |-> 0]
  BY DEF Init
<1>2. api.uid = 1 /\ api.rv = 1 /\ api # NoPod
  BY <1>1 DEF NoPod
<1>3. /\ rv = 1 /\ cache = api /\ pod = api /\ pc = "start" /\ mgr = {e} /\ eventC = <<>>
      /\ calls = 1 /\ seen = NoEvent /\ toolkit = 0 /\ limit = "none"
      /\ had = [u \in Uids |-> IF u = 1 THEN {api.lim} ELSE {}]
  BY DEF Init
<1>4. e.typ = "New" /\ e.pod = api /\ e.call = 1
  OBVIOUS
<1>. HIDE DEF e
<1>5. DOMAIN eventC = {}
  BY <1>3
<1>6. PodEvents = {e}
  BY <1>3, <1>4, <1>5 DEF PodEvents
<1>7. Copies = {api}
  BY <1>2, <1>3, <1>4, <1>6 DEF Copies
<1>8. CopiesAgree
  <2>1. 1 \in Uids /\ api.lim \in had[1] /\ \A u \in Uids : had[u] # {} => u = 1
    BY <1>3, WorkerConstants DEF Uids
  <2>2. \A u, v \in Uids : u < v /\ had[v] # {} => had[u] # {}
    BY <2>1 DEF Uids
  <2>. QED  BY <1>2, <1>3, <1>7, <2>1, <2>2 DEF CopiesAgree
<1>9. EventsInOrder
  BY <1>2, <1>3, <1>4, <1>5, <1>6 DEF EventsInOrder, NoEvent
<1>. QED  BY <1>0, <1>3, <1>8, <1>9 DEF IInv, ToolkitBehind

\* Before an Update that succeeds, the object read is what the API server has.
LEMMA UpdateReadsLast ==
    ASSUME TypeOK, IInv, pc = "update", api # NoPod, api.rv = work.rv
    PROVE  ReadCopy = api /\ work \in Pod /\ work.stamp > 0
<1>1. work \in Pod /\ work.stamp > 0
  BY DEF IInv, Stamped, TypeOK, PodOrNone
<1>2. ReadCopy \in Pod /\ ReadCopy.rv = work.rv
  BY <1>1, ReadCopyFields
<1>3. ReadCopy \in Copies /\ api \in Copies
  BY <1>2, NoPodFacts DEF Copies
<1>. QED  BY <1>1, <1>2, <1>3 DEF IInv, CopiesAgree

\* No copy is of a later pod than the API server's.
LEMMA ApiIsLast ==
    ASSUME TypeOK, IInv, api # NoPod  PROVE \A x \in Copies : x.uid <= api.uid
<1>1. api \in Copies
  BY DEF Copies
<1>. QED  BY <1>1 DEF IInv, CopiesAgree

\* The steps of the cluster keep it.
LEMMA IInvCluster == ASSUME TypeOK, IInv, Cluster PROVE IInv'
<1>. USE DEF cluster, cgroup, chans, self
<1>0. CopiesAgree /\ EventsInOrder /\ ToolkitBehind /\ Stamped
  BY DEF IInv
<1>s. Stamped'
  BY <1>0, TypeOKCluster
<1>t. ToolkitBehind'
  <2>1. UNCHANGED self
    BY DEF Cluster, Edit, Remove, Create, RemoveCgroup, Sync, Notify, NotifyDelete, Cancel
  <2>. QED  BY <1>0, <2>1 DEF ToolkitBehind
<1>h. /\ api \in Copies \cup {NoPod} /\ cache \in Copies \cup {NoPod} /\ pod \in Copies
      /\ \A e \in PodEvents : e.pod \in Copies \cup {NoPod}
      /\ pc = "update" => ReadCopy \in Copies
  BY <1>0, HoldCopies
<1>a. ASSUME Edit \/ Remove \/ Create \/ RemoveCgroup \/ Sync \/ Cancel
      PROVE  /\ EventsInOrder' /\ PodEvents' = PodEvents /\ pod' = pod /\ pc' = pc
             /\ ReadCopy' = ReadCopy
  <2>1. CASE Sync
    BY <1>0, <2>1, OrderSync DEF Sync, ReadCopy
  <2>2. CASE Edit \/ Remove \/ Create \/ RemoveCgroup \/ Cancel
    BY <1>0, <2>2, OrderKept DEF Edit, Remove, Create, RemoveCgroup, Cancel, ReadCopy
  <2>. QED  BY <1>a, <2>1, <2>2
<1>1. CASE Edit
  <2>1. PICK l \in Limits : /\ api # NoPod /\ NewVersion([api EXCEPT !.lim = l])
                            /\ had' = [had EXCEPT ![api.uid] = @ \cup {l}]
    BY <1>1 DEF Edit
  <2>2. api \in Pod /\ [api EXCEPT !.lim = l] \in Pod
    BY <2>1 DEF TypeOK, PodOrNone, Pod
  <2>3. api' \in Pod /\ rv' = rv + 1 /\ rv \in Nat
    BY <2>1, <2>2, NewVersionType
  <2>4. api'.rv = rv + 1 /\ api'.uid = api.uid /\ api'.lim = l
    <3>. DEFINE q == [api EXCEPT !.lim = l]
    <3>1. q.uid = api.uid /\ q.lim = l
      BY <2>2 DEF Pod
    <3>2. q \in Pod /\ api' = [q EXCEPT !.rv = rv + 1]
      BY <2>1, <2>2 DEF NewVersion
    <3>. HIDE DEF q
    <3>. QED  BY <3>1, <3>2 DEF Pod
  <2>5. api.uid \in Uids /\ api.lim \in had[api.uid] /\ had \in [Uids -> SUBSET Limits]
    BY <1>0, <2>1, <2>2, <1>h DEF CopiesAgree, Pod, TypeOK
  <2>6. /\ api'.lim \in had'[api'.uid]
        /\ \A u \in Uids : had[u] \subseteq had'[u]
    BY <2>1, <2>4, <2>5
  <2>7. \A u, v \in Uids : u < v /\ had'[v] # {} => had'[u] # {}
    <3>1. \A v \in Uids : had'[v] # {} => had[v] # {}
      BY <2>1, <2>5
    <3>. QED  BY <1>0, <2>6, <3>1 DEF CopiesAgree
  <2>8. Copies' \subseteq Copies \cup {api'}
    <3>1. cache' = cache
      BY <1>1 DEF Edit
    <3>. QED  BY <1>1, <1>a, <1>h, <3>1, CopiesFrom
  <2>9. \A x \in Copies : x.uid <= api'.uid
    BY <2>1, <2>4, ApiIsLast
  <2>10. CopiesAgree'
    <3>. DEFINE n == api'
    <3>1. /\ n \in Pod /\ api' = n /\ n.rv = rv + 1 /\ n.lim \in had'[n.uid]
          /\ Copies' \subseteq Copies \cup {n} /\ \A x \in Copies : x.uid <= n.uid
      BY <2>3, <2>4, <2>6, <2>8, <2>9
    <3>. HIDE DEF n
    <3>. QED  BY <1>0, <2>3, <2>6, <2>7, <3>1, CopiesNext
  <2>. QED  BY <1>1, <1>s, <1>t, <1>a, <2>10 DEF IInv
<1>2. CASE Remove
  <2>1. /\ api' = NoPod /\ rv' = rv + 1 /\ UNCHANGED had /\ cache' = cache
    BY <1>2 DEF Remove
  <2>2. Copies' \subseteq Copies \cup {}
    BY <1>2, <1>a, <1>h, <2>1, CopiesFrom
  <2>3. CopiesAgree'
    BY <1>0, <2>1, <2>2, CopiesRemoved
  <2>. QED  BY <1>2, <1>s, <1>t, <1>a, <2>3 DEF IInv
<1>3. CASE Create
  <2>1. PICK u \in Uids, l \in Limits, m \in BOOLEAN :
           /\ had[u] = {} /\ (\A v \in Uids : v < u => had[v] # {})
           /\ NewVersion([uid |-> u, rv |-> 0, lim |-> l, main |-> m, stamp |-> 0])
           /\ had' = [had EXCEPT ![u] = {l}]
    BY <1>3 DEF Create
  <2>2. [uid |-> u, rv |-> 0, lim |-> l, main |-> m, stamp |-> 0] \in Pod
    BY DEF Pod
  <2>3. api' \in Pod /\ rv' = rv + 1 /\ rv \in Nat
    BY <2>1, <2>2, NewVersionType
  <2>4. api'.rv = rv + 1 /\ api'.uid = u /\ api'.lim = l
    BY <2>1 DEF NewVersion
  <2>5. had \in [Uids -> SUBSET Limits] /\ \A v \in Uids : v \in Nat
    BY DEF TypeOK, Uids
  <2>6. /\ api'.lim \in had'[api'.uid]
        /\ \A v \in Uids : had[v] \subseteq had'[v]
    BY <2>1, <2>4, <2>5
  <2>7. \A v, w \in Uids : v < w /\ had'[w] # {} => had'[v] # {}
    <3>. SUFFICES ASSUME NEW v \in Uids, NEW w \in Uids, v < w, had'[w] # {}
                  PROVE  had[v] # {}
      BY <2>6
    <3>1. CASE w = u
      BY <2>1, <3>1
    <3>2. CASE w # u
      <4>1. had[w] # {}
        BY <2>1, <2>5, <3>2
      <4>. QED  BY <1>0, <4>1 DEF CopiesAgree
    <3>. QED  BY <3>1, <3>2
  <2>8. Copies' \subseteq Copies \cup {api'}
    <3>1. cache' = cache
      BY <1>3 DEF Create
    <3>. QED  BY <1>3, <1>a, <1>h, <3>1, CopiesFrom
  <2>9. \A x \in Copies : x.uid <= api'.uid
    <3>. SUFFICES ASSUME NEW x \in Copies PROVE x.uid <= u
      BY <2>4
    <3>1. x.uid \in Uids /\ x.lim \in had[x.uid]
      BY <1>0, CopiesArePods DEF CopiesAgree, Pod
    <3>2. had[x.uid] # {}
      BY <3>1
    <3>3. ~ (u < x.uid)
      BY <1>0, <2>1, <3>1, <3>2 DEF CopiesAgree
    <3>. QED  BY <2>5, <3>1, <3>3
  <2>10. CopiesAgree'
    <3>. DEFINE n == api'
    <3>1. /\ n \in Pod /\ api' = n /\ n.rv = rv + 1 /\ n.lim \in had'[n.uid]
          /\ Copies' \subseteq Copies \cup {n} /\ \A x \in Copies : x.uid <= n.uid
      BY <2>3, <2>4, <2>6, <2>8, <2>9
    <3>. HIDE DEF n
    <3>. QED  BY <1>0, <2>3, <2>6, <2>7, <3>1, CopiesNext
  <2>. QED  BY <1>3, <1>s, <1>t, <1>a, <2>10 DEF IInv
<1>4. CASE RemoveCgroup \/ Sync \/ Cancel
  <2>1. UNCHANGED <<api, rv, had>> /\ cache' \in {cache, api}
    BY <1>4 DEF RemoveCgroup, Sync, Cancel
  <2>2. Copies' \subseteq Copies \cup {}
    BY <1>4, <1>a, <1>h, <2>1, CopiesFrom
  <2>3. CopiesAgree'
    BY <1>0, <2>1, <2>2, CopiesKept
  <2>. QED  BY <1>4, <1>s, <1>t, <1>a, <2>3 DEF IInv
<1>5. CASE Notify \/ NotifyDelete
  <2>1. UNCHANGED <<api, rv, had, cache, pod, pc, work>> /\ ReadCopy' = ReadCopy
    BY <1>5 DEF Notify, NotifyDelete, ReadCopy
  <2>2. EventsInOrder' /\ \A e \in PodEvents' : e \in PodEvents \/ e.pod = cache
    BY <1>0, <1>5, OrderNotify, OrderNotifyDelete
  <2>3. Copies' \subseteq Copies \cup {}
    BY <1>h, <2>1, <2>2, CopiesFrom
  <2>4. CopiesAgree'
    BY <1>0, <2>1, <2>3, CopiesKept
  <2>. QED  BY <1>s, <1>t, <2>2, <2>4 DEF IInv
<1>. QED  BY <1>1, <1>2, <1>3, <1>4, <1>5 DEF Cluster

\* Sending an event moves it from a sender into the channel.
LEMMA IInvSenders == ASSUME TypeOK, IInv, Senders PROVE IInv'
<1>. USE DEF cluster, cgroup, chans, self
<1>0. CopiesAgree /\ EventsInOrder /\ ToolkitBehind /\ Stamped
  BY DEF IInv
<1>1. /\ UNCHANGED <<api, rv, had, cache, pod, pc, work, toolkit, limit>>
      /\ ReadCopy' = ReadCopy /\ Stamped' /\ ToolkitBehind'
  BY <1>0 DEF Senders, SendEvent, GoSendEvent, ReadCopy, Stamped, ToolkitBehind
<1>2. EventsInOrder' /\ PodEvents' = PodEvents
  BY <1>0, OrderSendEvent, OrderGoSendEvent DEF Senders
<1>3. Copies' \subseteq Copies \cup {}
  BY <1>0, <1>1, <1>2, HoldCopies, CopiesFrom
<1>4. CopiesAgree'
  BY <1>0, <1>1, <1>3, CopiesKept
<1>. QED  BY <1>1, <1>2, <1>4 DEF IInv

\* The steps of loop() keep it.
LEMMA IInvLoop == ASSUME TypeOK, IInv, Loop PROVE IInv'
<1>. USE DEF cluster, cgroup, chans, self
<1>0. CopiesAgree /\ EventsInOrder /\ ToolkitBehind /\ Stamped
  BY DEF IInv
<1>s. Stamped'
  BY <1>0, TypeOKLoop
<1>h. /\ api \in Copies \cup {NoPod} /\ cache \in Copies \cup {NoPod} /\ pod \in Copies
      /\ \A e \in PodEvents : e.pod \in Copies \cup {NoPod}
      /\ pc = "update" => ReadCopy \in Copies
  BY <1>0, HoldCopies
<1>1. CASE Start \/ Stop \/ Tick
  <2>1. /\ UNCHANGED <<api, rv, had, cache, pod, work, mgr, eventC, calls, seen>>
        /\ pc' # "update" /\ pc # "update"
    BY <1>1 DEF Start, Stop, Tick
  <2>2. EventsInOrder' /\ PodEvents' = PodEvents
    BY <1>0, <2>1, OrderKept
  <2>3. Copies' \subseteq Copies \cup {}
    BY <1>h, <2>1, <2>2, CopiesFrom
  <2>4. CopiesAgree'
    BY <1>0, <2>1, <2>3, CopiesKept
  <2>5. ToolkitBehind'
    <3>1. pod.uid \in Nat \ {0} /\ limit' = limit /\ (toolkit' = toolkit \/ toolkit' = pod.uid)
      BY <1>1 DEF TypeOK, Pod, Uids, Start, Stop, Tick
    <3>. QED  BY <1>0, <2>1, <3>1 DEF ToolkitBehind
  <2>. QED  BY <1>s, <2>2, <2>4, <2>5 DEF IInv
<1>2. CASE HandlePod
  <2>. DEFINE p == Head(eventC).pod
  <2>1. /\ EventsInOrder' /\ PodEvents' \subseteq PodEvents
        /\ Head(eventC) \in PodEvents /\ pod' \in {pod, p}
    BY <1>0, <1>2, OrderHandlePod
  <2>2. UNCHANGED <<api, rv, had, cache, work, toolkit>> /\ pc # "update" /\ pc' # "update"
    BY <1>2 DEF HandlePod, Receive
  <2>3. p # NoPod /\ pod.rv <= p.rv
    BY <1>0, <2>1 DEF EventsInOrder
  <2>4. p \in Copies
    BY <1>h, <2>1, <2>3
  <2>. HIDE DEF p
  <2>5. Copies' \subseteq Copies \cup {}
    BY <1>h, <2>1, <2>2, <2>4, CopiesFrom
  <2>6. CopiesAgree'
    BY <1>0, <2>2, <2>5, CopiesKept
  <2>7. pod.uid <= p.uid /\ pod.uid \in Nat /\ p.uid \in Nat
    <3>1. pod \in Pod /\ p \in Pod
      BY <1>0, <1>h, <2>4, CopiesArePods
    <3>. QED  BY <1>0, <1>h, <2>3, <2>4, <3>1 DEF CopiesAgree, Pod, Uids
  <2>8. ToolkitBehind'
    <3>1. toolkit \in Nat /\ (toolkit = 0 => limit' = limit)
      BY <1>2 DEF HandlePod, TypeOK, Uids
    <3>. QED  BY <1>0, <2>1, <2>2, <2>7, <3>1 DEF ToolkitBehind
  <2>. QED  BY <1>s, <2>1, <2>6, <2>8 DEF IInv
<1>3. CASE HandleDelete \/ HandleScale
  <2>1. /\ UNCHANGED <<api, rv, had, cache, pod, mgr, calls, toolkit, limit>>
        /\ eventC # <<>> /\ eventC' = Tail(eventC) /\ pc # "update"
        /\ ~ IsPodEvent(Head(eventC)) /\ seen' = seen
    BY <1>3 DEF HandleDelete, HandleScale, Receive, IsPodEvent, Scale
  <2>2. EventsInOrder' /\ PodEvents' = PodEvents
    BY <1>0, <2>1, OrderOther
  <2>3. pc' = "update" => ReadCopy' \in Copies
    <3>1. ASSUME pc' = "update" PROVE ReadCopy' = cache /\ cache \in Pod
      <4>1. HandleScale
        BY <1>3, <3>1 DEF HandleDelete
      <4>. QED  BY <2>1, <3>1, <4>1, HandleScaleReads DEF ReadCopy
    <3>. QED  BY <1>h, <3>1, NoPodFacts
  <2>4. Copies' \subseteq Copies \cup {}
    BY <1>h, <2>1, <2>2, <2>3, CopiesFrom
  <2>5. CopiesAgree'
    BY <1>0, <2>1, <2>4, CopiesKept
  <2>. QED  BY <1>0, <1>s, <2>1, <2>2, <2>5 DEF IInv, ToolkitBehind
<1>4. CASE Update
  <2>1. /\ UNCHANGED <<cache, had, pod, mgr, eventC, calls, seen, toolkit, limit>>
        /\ pc = "update" /\ pc' = "select"
    BY <1>4 DEF Update
  <2>2. EventsInOrder' /\ PodEvents' = PodEvents
    BY <1>0, <2>1, OrderKept
  <2>3. CASE UNCHANGED <<api, rv>>
    <3>1. Copies' \subseteq Copies \cup {}
      BY <1>h, <2>1, <2>2, <2>3, CopiesFrom
    <3>2. CopiesAgree'
      BY <1>0, <2>1, <2>3, <3>1, CopiesKept
    <3>. QED  BY <1>0, <1>s, <2>1, <2>2, <3>2 DEF IInv, ToolkitBehind
  <2>4. CASE api # NoPod /\ api.rv = work.rv /\ NewVersion(work)
    <3>1. ReadCopy = api /\ work \in Pod /\ work.stamp > 0
      BY <2>1, <2>4, UpdateReadsLast
    <3>2. work.uid = api.uid /\ work.lim = api.lim
      BY <3>1, ReadCopyFields
    <3>3. api' \in Pod /\ rv' = rv + 1 /\ rv \in Nat
      BY <2>4, <3>1, NewVersionType
    <3>4. api'.rv = rv + 1 /\ api'.uid = api.uid /\ api'.lim = api.lim
      BY <2>4, <3>1, <3>2 DEF NewVersion, Pod
    <3>5. api'.lim \in had'[api'.uid]
      BY <1>0, <1>h, <2>1, <2>4, <3>4 DEF CopiesAgree
    <3>6. Copies' \subseteq Copies \cup {api'}
      BY <1>h, <2>1, <2>2, CopiesFrom
    <3>7. \A x \in Copies : x.uid <= api'.uid
      BY <2>4, <3>4, ApiIsLast
    <3>8. CopiesAgree'
      <4>. DEFINE n == api'
      <4>1. /\ n \in Pod /\ api' = n /\ n.rv = rv + 1 /\ n.lim \in had'[n.uid]
            /\ Copies' \subseteq Copies \cup {n} /\ \A x \in Copies : x.uid <= n.uid
        BY <3>3, <3>4, <3>5, <3>6, <3>7
      <4>2. /\ \A u \in Uids : had[u] \subseteq had'[u]
            /\ \A u, v \in Uids : u < v /\ had'[v] # {} => had'[u] # {}
        BY <1>0, <2>1 DEF CopiesAgree
      <4>. HIDE DEF n
      <4>. QED  BY <1>0, <3>3, <4>1, <4>2, CopiesNext
    <3>. QED  BY <1>0, <1>s, <2>1, <2>2, <3>8 DEF IInv, ToolkitBehind
  <2>. QED  BY <1>4, <2>3, <2>4 DEF Update
<1>. QED  BY <1>1, <1>2, <1>3, <1>4 DEF Loop

\* Every step keeps the invariant.
LEMMA IInvStep == TypeOK /\ IInv /\ [Next]_vars => TypeOK' /\ IInv'
<1>. SUFFICES ASSUME TypeOK, IInv, [Next]_vars PROVE TypeOK' /\ IInv'
  OBVIOUS
<1>1. TypeOK'
  BY TypeOKStep DEF IInv
<1>2. CASE UNCHANGED vars
  <2>1. PodEvents' = PodEvents /\ ReadCopy' = ReadCopy
    BY <1>2 DEF vars, cluster, chans, self, PodEvents, ReadCopy
  <2>2. Copies' = Copies
    BY <1>2, <2>1 DEF vars, cluster, chans, self, Copies
  <2>3. CopiesAgree'
    BY <1>2, <2>2 DEF IInv, CopiesAgree, vars, cluster
  <2>4. EventsInOrder'
    BY <1>2, OrderKept DEF IInv, vars, cluster, chans, self
  <2>. QED  BY <1>1, <1>2, <2>3, <2>4 DEF IInv, ToolkitBehind, Stamped, vars, chans, self
<1>. QED  BY <1>1, <1>2, IInvCluster, IInvSenders, IInvLoop DEF Next

(***************************************************************************)
(* The copies of the pod that the informer, the manager, the channel, the  *)
(* worker and updatePodQuota hold are versions of one order, the oldest    *)
(* nearest to the worker.                                                  *)
(***************************************************************************)
THEOREM CopiesInOrder == Spec => []IInv
BY TypeOKInit, IInvInit, IInvStep, PTL DEF Spec

-----------------------------------------------------------------------------
(* What follows from it.                                                   *)

\* The pod of the event is not of a pod before the toolkit's.
LEMMA EventOfToolkit ==
    ASSUME TypeOK, IInv, HandlePod, toolkit # 0
    PROVE  /\ Head(eventC).pod \in Pod /\ toolkit <= Head(eventC).pod.uid
           /\ Head(eventC).pod.lim \in had[Head(eventC).pod.uid]
<1>. DEFINE p == Head(eventC).pod
<1>0. CopiesAgree /\ EventsInOrder /\ ToolkitBehind /\ Stamped
  BY DEF IInv
<1>1. Head(eventC) \in PodEvents
  BY <1>0, OrderHandlePod
<1>2. p # NoPod /\ pod.rv <= p.rv
  BY <1>0, <1>1 DEF EventsInOrder
<1>3. p \in Copies /\ pod \in Copies
  BY <1>0, <1>1, <1>2, HoldCopies
<1>4. p \in Pod /\ pod \in Pod
  BY <1>0, <1>3, CopiesArePods
<1>. HIDE DEF p
<1>5. pod.uid <= p.uid /\ p.lim \in had[p.uid]
  BY <1>0, <1>2, <1>3 DEF CopiesAgree
<1>6. p.uid \in Nat /\ pod.uid \in Nat /\ toolkit \in Nat
  BY <1>4 DEF Pod, Uids, TypeOK
<1>7. toolkit <= pod.uid
  BY <1>0 DEF ToolkitBehind
<1>8. toolkit <= p.uid
  BY <1>5, <1>6, <1>7
<1>. QED  BY <1>4, <1>5, <1>8 DEF p

\* What a step does to the files of the cgroups: nothing, or SetCgroupLimit
\* with the quota of the pod of the event.
LEMMA CgroupSteps ==
    ASSUME TypeOK, IInv, [Next]_vars
    PROVE  \/ UNCHANGED cgroup
           \/ /\ HandlePod /\ Head(eventC).pod.main /\ toolkit # 0 /\ toolkit' = toolkit
              /\ pod' = Head(eventC).pod /\ quota' = PodQuota(Head(eventC).pod)
              /\ SetCgroupLimit(PodQuota(Head(eventC).pod))
<1>1. CASE UNCHANGED vars
  BY <1>1 DEF vars
<1>2. CASE Cluster \/ Senders
  BY <1>2 DEF Cluster, Senders, Edit, Remove, Create, RemoveCgroup, Sync, Notify,
              NotifyDelete, Cancel, SendEvent, GoSendEvent
<1>3. CASE Loop
  <2>1. CASE HandlePod
    BY <2>1 DEF HandlePod
  <2>2. CASE ~ HandlePod
    BY <1>3, <2>2 DEF Loop, Start, HandleDelete, HandleScale, Update, Tick, Stop
  <2>. QED  BY <2>1, <2>2
<1>. QED  BY <1>1, <1>2, <1>3 DEF Next

\* The limits that a pod has had are not forgotten.
LEMMA HadGrows ==
    ASSUME TypeOK, [Next]_vars
    PROVE  \A u \in Uids : had[u] \subseteq had'[u]
<1>1. CASE Edit \/ Create
  <2>1. PICK u, S : had' = [had EXCEPT ![u] = S] /\ had[u] \subseteq S
    BY <1>1 DEF Edit, Create
  <2>. QED  BY <2>1 DEF TypeOK
<1>2. CASE UNCHANGED had
  BY <1>2
<1>3. UNCHANGED had \/ Edit \/ Create
  BY DEF vars, cluster, Next, Cluster, Senders, Loop, Remove, RemoveCgroup, Sync, Notify, NotifyDelete,
         Cancel, SendEvent, GoSendEvent, Start, HandlePod, HandleDelete, HandleScale, Update, Tick, Stop
<1>. QED  BY <1>1, <1>2, <1>3

\* memory.high of a cgroup is never set from the limits of an earlier pod.
LEMMA NoEarlierLimitsStep ==
    ASSUME TypeOK, IInv, NoEarlierLimits, [Next]_vars PROVE NoEarlierLimits'
<1>. SUFFICES ASSUME NEW u \in Uids, high'[u] # 0
              PROVE  \E v \in Uids : /\ u <= v
                                     /\ \E l \in had'[v] : high'[u] = GetFloorMemoryQuota(Table, l).mem
  BY DEF NoEarlierLimits
<1>1. CASE high'[u] = high[u]
  <2>1. PICK v \in Uids : /\ u <= v
                          /\ \E l \in had[v] : high[u] = GetFloorMemoryQuota(Table, l).mem
    BY <1>1 DEF NoEarlierLimits
  <2>2. had[v] \subseteq had'[v]
    BY HadGrows
  <2>. QED  BY <1>1, <2>1, <2>2
<1>2. CASE high'[u] # high[u]
  <2>. DEFINE p == Head(eventC).pod
  <2>1. /\ HandlePod /\ toolkit # 0 /\ SetCgroupLimit(PodQuota(p))
    BY <1>2, CgroupSteps DEF cgroup
  <2>2. high' = [high EXCEPT ![toolkit] = PodQuota(p).mem]
    BY <1>2, <2>1 DEF SetCgroupLimit, cgroup
  <2>3. u = toolkit /\ high'[u] = PodQuota(p).mem
    BY <1>2, <2>2 DEF TypeOK
  <2>4. p \in Pod /\ u <= p.uid /\ p.lim \in had[p.uid]
    BY <2>1, <2>3, EventOfToolkit
  <2>. HIDE DEF p
  <2>5. p.uid \in Uids
    BY <2>4 DEF Pod
  <2>6. p.lim \in had'[p.uid]
    BY <2>4, <2>5, HadGrows
  <2>. QED  BY <2>3, <2>4, <2>5, <2>6 DEF PodQuota
<1>. QED  BY <1>1, <1>2

(***************************************************************************)
(* loop() makes its toolkit once and gives it the quota of whatever pod of *)
(* the name an event brings, and a cgroup outlives its pod's object.       *)
(* memory.high of it is still never the floor of the limits of a pod       *)
(* before its own.                                                         *)
(***************************************************************************)
THEOREM NoEarlierLimitsHolds == Spec => []NoEarlierLimits
<1>1. Init => NoEarlierLimits
  BY DEF Init, NoEarlierLimits
<1>2. TypeOK /\ IInv /\ NoEarlierLimits /\ [Next]_vars => NoEarlierLimits'
  BY NoEarlierLimitsStep
<1>. QED  BY <1>1, <1>2, TypeCorrect, CopiesInOrder, PTL DEF Spec

\* A step that leaves the worker's pod, quota and limit alone: a tick may make
\* the toolkit, but then no limit has been set.
LEMMA SelfSteps ==
    ASSUME TypeOK, IInv, [Next]_vars
    PROVE  \/ UNCHANGED <<self, cgroup>>
           \/ HandlePod
           \/ UNCHANGED <<pod, quota, limit, cgroup>> /\ limit = "none"
<1>1. CASE UNCHANGED vars
  BY <1>1 DEF vars
<1>2. CASE Cluster \/ Senders
  BY <1>2 DEF Cluster, Senders, Edit, Remove, Create, RemoveCgroup, Sync, Notify,
              NotifyDelete, Cancel, SendEvent, GoSendEvent
<1>3. CASE Tick
  BY <1>3 DEF Tick, self, IInv, ToolkitBehind
<1>4. CASE Start \/ HandleDelete \/ HandleScale \/ Update \/ Stop
  BY <1>4 DEF Start, HandleDelete, HandleScale, Update, Stop
<1>. QED  BY <1>1, <1>2, <1>3, <1>4 DEF Next, Loop

\* SetCgroupLimit leaves the cgroup as the worker's quota says, or reports it.
LEMMA LimitsAppliedStep ==
    ASSUME TypeOK, IInv, LimitsApplied, [Next]_vars PROVE LimitsApplied'
<1>1. CASE UNCHANGED <<self, cgroup>>
  BY <1>1 DEF self, cgroup, LimitsApplied
<1>2. CASE UNCHANGED <<pod, quota, limit, cgroup>> /\ limit = "none"
  BY <1>2 DEF LimitsApplied
<1>3. CASE HandlePod
  <2>. DEFINE p == Head(eventC).pod
              q == PodQuota(p)
  <2>1. CASE UNCHANGED <<cgroup, limit>> /\ toolkit = 0 /\ toolkit' = 0
    BY <2>1 DEF IInv, ToolkitBehind, LimitsApplied
  <2>2. CASE /\ toolkit # 0 /\ toolkit' = toolkit /\ pod' = p /\ quota' = q
             /\ SetCgroupLimit(q)
    <3>1. toolkit \in Uids /\ high \in [Uids -> Nat]
          /\ ioMax \in [Uids -> SUBSET [bps : Nat, iops : Nat]]
      BY <2>2 DEF TypeOK
    <3>2. q.mem <= p.lim.mem
      BY <1>3, <2>2, EventOfToolkit, PodQuotaType
    <3>. HIDE DEF p, q
    <3>3. ASSUME limit' \in {"partly", "done"}, q.mem # 0
          PROVE  high'[toolkit] = q.mem
      BY <2>2, <3>1, <3>3 DEF SetCgroupLimit
    <3>4. ASSUME limit' = "done"
          PROVE  ioMax'[toolkit] = {IoMax(q)}
      <4>1. ioMax' = [ioMax EXCEPT ![toolkit] = {IoMax(q)}]
        BY <2>2, <3>4 DEF SetCgroupLimit
      <4>. QED  BY <3>1, <4>1
    <3>5. IoMax(quota') = IoMax(q)
      BY <2>2
    <3>6. IoMax(quota)' = IoMax(quota')
      BY DEF IoMax, CalculatedQuotaConfig
    <3>. QED  BY <2>2, <3>2, <3>3, <3>4, <3>5, <3>6 DEF LimitsApplied
  <2>. QED  BY <1>1, <1>3, <2>1, <2>2 DEF HandlePod
<1>. QED  BY <1>1, <1>2, <1>3, SelfSteps

(***************************************************************************)
(* Whenever SetCgroupLimit has not failed, memory.high and io.max are what *)
(* the worker's quota says, in the cgroup that the toolkit is for, and     *)
(* that quota is not above the limits of the worker's pod.                 *)
(***************************************************************************)
THEOREM LimitsAppliedHolds == Spec => []LimitsApplied
<1>1. Init => LimitsApplied
  BY DEF Init, LimitsApplied
<1>2. TypeOK /\ IInv /\ LimitsApplied /\ [Next]_vars => LimitsApplied'
  BY LimitsAppliedStep
<1>. QED  BY <1>1, <1>2, TypeCorrect, CopiesInOrder, PTL DEF Spec

\* Where a write by updatePodQuota meets the API server's pod.
LEMMA NoLostEditStep ==
    ASSUME TypeOK, IInv, [Next]_vars, pc = "update", pc' = "select", api' # api
    PROVE  api' = [api EXCEPT !.rv = rv + 1, !.stamp = @ + 1]
<1>1. Update
  <2>1. ~ UNCHANGED vars /\ ~ Cluster /\ ~ Senders
    BY DEF vars, Cluster, Senders, Edit, Remove, Create, RemoveCgroup, Sync, Notify,
           NotifyDelete, Cancel, SendEvent, GoSendEvent
  <2>. QED  BY <2>1 DEF Next, Loop, Start, HandlePod, HandleDelete, HandleScale, Receive, Tick, Stop
<1>2. api # NoPod /\ api.rv = work.rv /\ api' = [work EXCEPT !.rv = rv + 1]
  BY <1>1 DEF Update, NewVersion
<1>3. ReadCopy = api /\ work \in Pod /\ work.stamp > 0
  BY <1>2, UpdateReadsLast
<1>. DEFINE u == work.uid
            r == work.rv
            l == work.lim
            m == work.main
            t == work.stamp
<1>4. t \in Nat /\ t > 0 /\ (t - 1) + 1 = t
  BY <1>3 DEF Pod
<1>5. work = [uid |-> u, rv |-> r, lim |-> l, main |-> m, stamp |-> t]
  BY <1>3 DEF Pod
<1>6. api = [uid |-> u, rv |-> r, lim |-> l, main |-> m, stamp |-> t - 1]
  BY <1>3, ReadCopyFields
<1>. HIDE DEF u, r, l, m, t
<1>7. api' = [uid |-> u, rv |-> rv + 1, lim |-> l, main |-> m, stamp |-> t]
  BY <1>2, <1>5
<1>8. api.stamp + 1 = t
  BY <1>4, <1>6
<1>9. [api EXCEPT !.rv = rv + 1] = [uid |-> u, rv |-> rv + 1, lim |-> l, main |-> m, stamp |-> t - 1]
  BY <1>6
<1>10. [api EXCEPT !.rv = rv + 1, !.stamp = @ + 1] = [[api EXCEPT !.rv = rv + 1] EXCEPT !.stamp = t]
  BY <1>8, <1>9, <1>4
<1>. DEFINE e == [api EXCEPT !.rv = rv + 1]
            k == rv + 1
            j == t - 1
<1>. HIDE DEF e, k, j
<1>11. e = [uid |-> u, rv |-> k, lim |-> l, main |-> m, stamp |-> j]
  BY <1>9 DEF e, k, j
<1>12. [e EXCEPT !.stamp = t] = [uid |-> u, rv |-> k, lim |-> l, main |-> m, stamp |-> t]
  BY <1>11
<1>. QED  BY <1>7, <1>10, <1>12 DEF e, k

(***************************************************************************)
(* updatePodQuota reads the informer's copy, which may be behind, and      *)
(* writes without a retry: what it writes is the API server's very last    *)
(* version with a new stamp, or nothing at all.                            *)
(***************************************************************************)
THEOREM NoLostEditHolds == Spec => NoLostEdit
<1>1. TypeOK /\ IInv /\ [Next]_vars =>
         [pc = "update" /\ pc' = "select" /\ api' # api =>
             api' = [api EXCEPT !.rv = rv + 1, !.stamp = @ + 1]]_vars
  BY NoLostEditStep
<1>. QED  BY <1>1, TypeCorrect, CopiesInOrder, PTL DEF Spec, NoLostEdit

-----------------------------------------------------------------------------
(* The mailbox.                                                            *)

\* Notify puts a call in, HandlePod takes the first one out, and no other step
\* is seen by the mailbox.
LEMMA MailboxStep ==
    ASSUME TypeOK, IInv, TypeOK', IInv', [Next]_vars
    PROVE  [Mailbox!Next]_(Mailbox!vars)
<1>0. EventsInOrder /\ CopiesAgree /\ Stamped
  BY DEF IInv
<1>1. CASE PodEvents' = PodEvents /\ seen' = seen /\ calls' = calls
  <2>1. OnTheWay' = OnTheWay
    BY <1>1 DEF OnTheWay
  <2>. QED  BY <1>1, <2>1 DEF Mailbox!vars
<1>2. CASE Notify
  <2>1. PodEvents' = PodEvents \cup {[typ |-> "Update", pod |-> cache, call |-> calls + 1]}
    <3>. DEFINE n == [typ |-> "Update", pod |-> cache, call |-> calls + 1]
    <3>1. mgr = {} /\ mgr' = {n} /\ UNCHANGED eventC /\ n.typ = "Update"
      BY <1>2 DEF Notify
    <3>. HIDE DEF n
    <3>. QED  BY <3>1 DEF PodEvents, n
  <2>2. OnTheWay' = OnTheWay \cup {calls + 1}
    <3>. DEFINE P == PodEvents
                P1 == PodEvents'
                O == OnTheWay
                O1 == OnTheWay'
                c == calls + 1
                n == [typ |-> "Update", pod |-> cache, call |-> c]
    <3>1. P1 = P \cup {n} /\ n.call = c
      BY <2>1
    <3>2. O = {e.call : e \in P} /\ O1 = {e.call : e \in P1}
      BY DEF OnTheWay
    <3>. HIDE DEF P, P1, O, O1, n, c
    <3>3. O1 = O \cup {c}
      BY <3>1, <3>2
    <3>. QED  BY <3>3 DEF O, O1, c
  <2>3. calls' = calls + 1 /\ seen' = seen
    BY <1>2 DEF Notify
  <2>4. Mailbox!Tell("pod")
    <3>1. [n \in {"pod"} |-> calls]' = [[n \in {"pod"} |-> calls] EXCEPT !["pod"] = @ + 1]
      BY <2>3
    <3>2. [n \in {"pod"} |-> OnTheWay]' =
             [[n \in {"pod"} |-> OnTheWay] EXCEPT
                !["pod"] = @ \cup {[n \in {"pod"} |-> calls]["pod"] + 1}]
      BY <2>2
    <3>. QED  BY <2>3, <3>1, <3>2 DEF Mailbox!Tell
  <2>. QED  BY <2>4 DEF Mailbox!Next
<1>3. CASE HandlePod
  <2>. DEFINE h == Head(eventC)
              c == Head(eventC).call
  <2>1. /\ PodEvents' \subseteq PodEvents /\ h \in PodEvents
        /\ seen' = [typ |-> IF seen = NoEvent THEN "New" ELSE "Update", call |-> c]
    BY <1>0, <1>3, OrderHandlePod
  <2>2. /\ PodEvents \subseteq PodEvents' \cup {h}
        /\ \A e \in PodEvents' : c < e.call
    BY <1>0, <1>3, <2>1, HeadIsFirst DEF HandlePod, Receive, IsPodEvent, Earlier
  <2>3. (\A e \in PodEvents : e.call \in Nat) /\ calls' = calls
    BY <1>3, ChannelFacts DEF HandlePod
  <2>4. h.call = c
    OBVIOUS
  <2>. HIDE DEF h, c
  <2>5. OnTheWay' = OnTheWay \ {c} /\ c \in OnTheWay /\ \A w \in OnTheWay : c <= w
    <3>1. c \in Nat /\ \A e \in PodEvents' : e.call # c
      BY <2>1, <2>2, <2>3, <2>4
    <3>2. \A e \in PodEvents : c <= e.call
      BY <2>1, <2>2, <2>3, <2>4
    <3>3. c \in OnTheWay /\ \A w \in OnTheWay : c <= w
      BY <2>1, <2>4, <3>2 DEF OnTheWay
    <3>4. \A w \in OnTheWay : w # c => w \in OnTheWay'
      BY <2>2, <2>4 DEF OnTheWay
    <3>5. \A w \in OnTheWay' : w \in OnTheWay /\ w # c
      BY <2>1, <3>1 DEF OnTheWay
    <3>. QED  BY <3>3, <3>4, <3>5
  <2>6. Mailbox!Handle("pod")
    <3>1. [n \in {"pod"} |-> OnTheWay]' =
             [[n \in {"pod"} |-> OnTheWay] EXCEPT !["pod"] = @ \ {c}]
      BY <2>5
    <3>2. [n \in {"pod"} |-> calls]' = [n \in {"pod"} |-> calls]
      BY <2>3
    <3>3. [n \in {"pod"} |-> seen]' = [[n \in {"pod"} |-> seen] EXCEPT !["pod"] =
             [typ |-> IF @ = Mailbox!None THEN "New" ELSE "Update", call |-> c]]
      BY <2>1 DEF Mailbox!None, NoEvent
    <3>4. c \in [n \in {"pod"} |-> OnTheWay]["pod"]
          /\ \A w \in [n \in {"pod"} |-> OnTheWay]["pod"] : c <= w
      BY <2>5
    <3>. QED  BY <3>1, <3>2, <3>3, <3>4 DEF Mailbox!Handle
  <2>. QED  BY <2>6 DEF Mailbox!Next
<1>4. ASSUME ~ Notify, ~ HandlePod
      PROVE  PodEvents' = PodEvents /\ seen' = seen /\ calls' = calls
  <2>. USE DEF vars, cluster, cgroup, chans, self
  <2>1. CASE Senders
    BY <1>0, <2>1, OrderSendEvent, OrderGoSendEvent DEF Senders, SendEvent, GoSendEvent
  <2>2. CASE NotifyDelete
    BY <1>0, <2>2, OrderNotifyDelete DEF NotifyDelete
  <2>3. CASE HandleDelete \/ HandleScale
    BY <1>0, <2>3, OrderOther DEF HandleDelete, HandleScale, Receive, IsPodEvent, Scale
  <2>4. CASE \/ UNCHANGED vars \/ Edit \/ Remove \/ Create \/ RemoveCgroup \/ Sync
             \/ Cancel \/ Start \/ Update \/ Tick \/ Stop
    <3>1. UNCHANGED <<mgr, eventC, calls, seen>>
      BY <2>4 DEF Edit, Remove, Create, RemoveCgroup, Sync, Cancel, Start, Update, Tick, Stop
    <3>. QED  BY <3>1 DEF PodEvents
  <2>. QED  BY <1>4, <2>1, <2>2, <2>3, <2>4 DEF Next, Cluster, Loop
<1>. QED  BY <1>1, <1>2, <1>3, <1>4

(***************************************************************************)
(* With scale events pushed in between by goroutines of their own, the     *)
(* worker's channel is still a mailbox of its pod: the pod of every call   *)
(* is taken once, in order, New first, whatever versions the calls bring.  *)
(***************************************************************************)
THEOREM MailboxStepsHold == Spec => MailboxSteps
<1>1. TypeOK /\ IInv /\ TypeOK' /\ IInv' /\ [Next]_vars => [Mailbox!Next]_(Mailbox!vars)
  BY MailboxStep
<1>. QED  BY <1>1, TypeCorrect, CopiesInOrder, PTL DEF Spec, MailboxSteps
=============================================================================
