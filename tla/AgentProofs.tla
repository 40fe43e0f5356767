----------------------------- MODULE AgentProofs -----------------------------
(***************************************************************************)
(* Type correctness of Agent, that no pod is forgotten, and that only the  *)
(* node's own pods are handed over, for any number of pods, versions,      *)
(* failures and kills and in every surrounding.                            *)
(***************************************************************************)
EXTENDS Agent, FiniteSetTheorems, TLAPS

-----------------------------------------------------------------------------
(* The keys of a queue.                                                    *)

Keys(s) == {s[i] : i \in DOMAIN s}

\* Append adds one key to a queue, which stays a sequence of pods.
LEMMA KeysAppend ==
    ASSUME NEW s \in Seq(Pods), NEW p \in Pods
    PROVE  /\ Append(s, p) \in Seq(Pods)
           /\ Keys(Append(s, p)) = Keys(s) \cup {p}
<1>1. Append(s, p) \in Seq(Pods)
  OBVIOUS
<1>2. /\ DOMAIN s = 1..Len(s) /\ DOMAIN Append(s, p) = 1..(Len(s) + 1) /\ Len(s) \in Nat
      /\ \A i \in 1..Len(s) : Append(s, p)[i] = s[i]
      /\ Append(s, p)[Len(s) + 1] = p
  OBVIOUS
<1>3. ASSUME NEW k \in Keys(Append(s, p))  PROVE k \in Keys(s) \cup {p}
  <2>1. PICK i \in 1..(Len(s) + 1) : k = Append(s, p)[i]
    BY <1>2, <1>3 DEF Keys
  <2>. QED  BY <1>2, <2>1 DEF Keys
<1>4. ASSUME NEW k \in Keys(s) \cup {p}  PROVE k \in Keys(Append(s, p))
  <2>1. CASE k = p
    BY <1>2, <2>1 DEF Keys
  <2>2. CASE k \in Keys(s)
    <3>1. PICK i \in 1..Len(s) : k = s[i]
      BY <1>2, <2>2 DEF Keys
    <3>. QED  BY <1>2, <3>1 DEF Keys
  <2>. QED  BY <1>4, <2>1, <2>2
<1>. QED  BY <1>1, <1>3, <1>4

\* Taking the head leaves all other keys in the queue.
LEMMA KeysTail ==
    ASSUME NEW s \in Seq(Pods), s # <<>>
    PROVE  /\ Tail(s) \in Seq(Pods) /\ Head(s) \in Pods
           /\ Keys(s) \subseteq Keys(Tail(s)) \cup {Head(s)}
<1>1. /\ Tail(s) \in Seq(Pods) /\ Head(s) \in Pods /\ Head(s) = s[1]
      /\ Len(s) \in Nat /\ DOMAIN s = 1..Len(s) /\ DOMAIN Tail(s) = 1..(Len(s) - 1)
      /\ \A i \in 1..(Len(s) - 1) : Tail(s)[i] = s[i + 1]
  OBVIOUS
<1>2. ASSUME NEW k \in Keys(s)  PROVE k \in Keys(Tail(s)) \cup {Head(s)}
  <2>1. PICK i \in 1..Len(s) : k = s[i]
    BY <1>1, <1>2 DEF Keys
  <2>2. CASE i = 1
    BY <1>1, <2>1, <2>2
  <2>3. CASE i # 1
    <3>1. i - 1 \in 1..(Len(s) - 1) /\ Tail(s)[i - 1] = s[i]
      BY <1>1, <2>1, <2>3
    <3>. QED  BY <1>1, <2>1, <3>1 DEF Keys
  <2>. QED  BY <2>2, <2>3
<1>. QED  BY <1>1, <1>2

\* The order in which the informer's first list is queued has every pod.
LEMMA KeysOfOrder ==
    ASSUME NEW S \in SUBSET Pods, NEW s \in Bijection(1..Cardinality(S), S)
    PROVE  s \in Seq(Pods) /\ Keys(s) = S
<1>1. IsFiniteSet(S) /\ Cardinality(S) \in Nat
  BY FS_Subset, FS_CardinalityType, AgentConstants
<1>2. /\ s \in [1..Cardinality(S) -> S]
      /\ \A t \in S : \E i \in 1..Cardinality(S) : s[i] = t
  BY DEF Bijection, Injection, Surjection
<1>3. s \in Seq(Pods)
  BY <1>1, <1>2
<1>4. Keys(s) = S
  BY <1>2 DEF Keys
<1>. QED  BY <1>3, <1>4

-----------------------------------------------------------------------------
(* Type correctness.                                                       *)

\* What main() starts with and what is in memory when there is no process.
LEMMA TypeOKEmpty ==
    /\ NewConfiguration \in Config
    /\ Unknown \in [Pods -> Object]
    /\ <<>> \in Seq(Pods)
    /\ [p \in Pods |-> 0] \in [Pods -> 0..MaxVer]
<1>1. NewConfiguration \in Config
  BY DEF NewConfiguration, Config
<1>2. 0 \in 0..MaxVer
  BY AgentConstants
<1>3. Unknown \in [Pods -> Object]
  BY <1>2 DEF Unknown, Object
<1>. QED  BY <1>1, <1>2, <1>3

\* The initial states are well typed.
LEMMA TypeOKInit == Init => TypeOK
<1>. SUFFICES ASSUME Init PROVE TypeOK
  OBVIOUS
<1>1. ClusterType
  <2>1. 0 \in 0..MaxVer /\ 1 \in 0..MaxVer /\ 0 \in 0..MaxFails /\ 0 \in 0..MaxKills
    BY AgentConstants
  <2>2. {[ver |-> 0, spec |-> Absent]} \cup [ver : {1}, spec : Specs] \subseteq Object
    BY <2>1 DEF Object
  <2>3. api \in [Pods -> Object]
    BY <2>2 DEF Init
  <2>. QED  BY <2>1, <2>3 DEF Init, ClusterType
<1>2. MainType
  BY TypeOKEmpty DEF Init, MainType, PCs
<1>3. QueueType /\ OneCall
  BY TypeOKEmpty DEF Init, QueueType, OneCall
<1>. QED  BY <1>1, <1>2, <1>3 DEF TypeOK

\* What the process leaves behind when it ends is well typed.
LEMMA TypeOKDie == ASSUME Die, ClusterType'  PROVE TypeOK'
<1>1. MainType'
  BY TypeOKEmpty DEF Die, MainType, PCs
<1>2. QueueType' /\ OneCall'
  BY TypeOKEmpty DEF Die, QueueType, OneCall
<1>. QED  BY <1>1, <1>2 DEF TypeOK

\* A step of main() that goes on, and one that does not.
LEMMA TypeOKProceed ==
    ASSUME TypeOK, MainType',
           UNCHANGED <<host, api, cache, queue, again, waiting, rec, told, fails, kills>>
    PROVE  TypeOK'
BY DEF TypeOK, ClusterType, QueueType, OneCall

\* A step of main() that ends the process.
LEMMA TypeOKExit ==
    ASSUME TypeOK, Die, UNCHANGED <<host, api, fails, kills>>
    PROVE  TypeOK'
BY TypeOKDie DEF TypeOK, ClusterType

\* The steps of main().
LEMMA TypeOKMain == ASSUME TypeOK, Main PROVE TypeOK'
<1>. USE DEF Proceed, Exit
<1>0. host \in Host /\ cfg \in Config /\ root \in {"container", "host"}
      /\ podManager \in {"nil", "made", "started"}
  BY AgentConstants DEF TypeOK, ClusterType, MainType
<1>1. CASE ReadConfig
  <2>1. CASE Die /\ UNCHANGED <<host, api, fails, kills>>
    BY <2>1, TypeOKExit
  <2>2. CASE host.file # "bad"
    <3>1. [node |-> host.node, labels |-> host.labels] \in Config
      BY <1>0 DEF Host, Config
    <3>2. cfg' \in Config
      BY <1>1, <2>2, <3>1, TypeOKEmpty DEF ReadConfig
    <3>3. pc' \in PCs
      BY <1>1, <2>2 DEF ReadConfig, PCs
    <3>4. UNCHANGED <<host, api, cache, queue, again, waiting, rec, told, fails, kills>>
          /\ UNCHANGED <<root, podManager>>
      BY <1>1, <2>2 DEF ReadConfig
    <3>5. MainType'
      BY <1>0, <3>2, <3>3, <3>4 DEF MainType
    <3>. QED  BY <3>4, <3>5, TypeOKProceed
  <2>. QED  BY <1>1, <2>1, <2>2 DEF ReadConfig
<1>2. CASE GetNodeName
  <2>1. CASE Die /\ UNCHANGED <<host, api, fails, kills>>
    BY <2>1, TypeOKExit
  <2>2. CASE root \in host.creds
    <3>1. cfg' \in Config
      BY <1>0, <1>2, <2>2, AgentConstants DEF GetNodeName, Config
    <3>2. MainType'
      BY <1>0, <1>2, <2>2, <3>1 DEF GetNodeName, MainType, PCs
    <3>. QED  BY <1>2, <2>2, <3>2, TypeOKProceed DEF GetNodeName
  <2>. QED  BY <1>2, <2>1, <2>2 DEF GetNodeName
<1>3. CASE Validate
  <2>1. CASE Die /\ UNCHANGED <<host, api, fails, kills>>
    BY <2>1, TypeOKExit
  <2>2. CASE SelectorOK
    <3>1. MainType'
      BY <1>0, <1>3, <2>2 DEF Validate, MainType, PCs
    <3>. QED  BY <1>3, <2>2, <3>1, TypeOKProceed DEF Validate
  <2>. QED  BY <1>3, <2>1, <2>2 DEF Validate
<1>4. CASE GetKubeletServer
  <2>1. MainType'
    BY <1>0, <1>4 DEF GetKubeletServer, MainType, PCs
  <2>. QED  BY <1>4, <2>1, TypeOKProceed DEF GetKubeletServer
<1>5. CASE NewManager
  <2>1. CASE Die /\ UNCHANGED <<host, api, fails, kills>>
    BY <2>1, TypeOKExit
  <2>2. CASE root \in host.creds
    <3>1. MainType'
      BY <1>0, <1>5, <2>2 DEF NewManager, MainType, PCs
    <3>. QED  BY <1>5, <2>2, <3>1, TypeOKProceed DEF NewManager
  <2>. QED  BY <1>5, <2>1, <2>2 DEF NewManager
<1>6. CASE CheckCgroup
  <2>1. MainType'
    BY <1>0, <1>6 DEF CheckCgroup, MainType, PCs
  <2>. QED  BY <1>6, <2>1, TypeOKProceed DEF CheckCgroup
<1>7. CASE SetupWithManager
  <2>1. MainType'
    BY <1>0, <1>7 DEF SetupWithManager, MainType, PCs
  <2>. QED  BY <1>7, <2>1, TypeOKProceed DEF SetupWithManager
<1>8. CASE MgrStart
  <2>1. queue' \in Seq(Pods)
    BY <1>8, KeysOfOrder DEF MgrStart
  <2>2. MainType'
    BY <1>0, <1>8 DEF MgrStart, MainType, PCs
  <2>3. ClusterType' /\ QueueType' /\ OneCall'
    BY <1>8, <2>1 DEF MgrStart, TypeOK, ClusterType, QueueType, OneCall
  <2>. QED  BY <2>2, <2>3 DEF TypeOK
<1>9. CASE PodManagerStart
  BY <1>9 DEF PodManagerStart, TypeOK, ClusterType, MainType, QueueType, OneCall
<1>. QED  BY <1>1, <1>2, <1>3, <1>4, <1>5, <1>6, <1>7, <1>8, <1>9 DEF Main

\* Queueing a key and finishing with one keep the queue a sequence of pods.
LEMMA TypeOKQueue == ASSUME TypeOK, NEW p \in Pods, Add(p) \/ Done(p)
                     PROVE  queue' \in Seq(Pods) /\ again' \in BOOLEAN
BY KeysAppend DEF TypeOK, QueueType, Add, Done

\* Every step keeps the variables in their types.
LEMMA TypeOKStep == TypeOK /\ [Next]_vars => TypeOK'
<1>. SUFFICES ASSUME TypeOK, [Next]_vars PROVE TypeOK'
  OBVIOUS
<1>1. CASE UNCHANGED vars
  BY <1>1 DEF vars, memory, TypeOK, ClusterType, MainType, QueueType, OneCall
<1>2. CASE Main
  BY <1>2, TypeOKMain
<1>3. CASE Restart
  BY <1>3 DEF Restart, memory, TypeOK, ClusterType, MainType, QueueType, OneCall, PCs
<1>4. CASE Kill \/ StartFail
  <2>1. ClusterType'
    BY <1>4, AgentConstants DEF Kill, StartFail, TypeOK, ClusterType
  <2>. QED  BY <1>4, <2>1, TypeOKDie DEF Kill, StartFail
<1>5. ASSUME NEW p \in Pods, Change(p)  PROVE TypeOK'
  <2>1. PICK s \in Specs \cup {Absent} : api' = [api EXCEPT ![p] = [ver |-> @.ver + 1, spec |-> s]]
    BY <1>5 DEF Change
  <2>2. api[p].ver + 1 \in 0..MaxVer /\ api \in [Pods -> Object]
    BY <1>5, AgentConstants DEF Change, TypeOK, ClusterType, Object
  <2>3. [ver |-> api[p].ver + 1, spec |-> s] \in Object
    BY <2>2 DEF Object
  <2>4. api' \in [Pods -> Object]
    BY <2>1, <2>2, <2>3
  <2>. QED  BY <1>5, <2>4 DEF Change, memory, TypeOK, ClusterType, MainType, QueueType, OneCall
<1>6. ASSUME NEW p \in Pods, Sync(p) \/ Backoff(p)  PROVE TypeOK'
  <2>1. queue' \in Seq(Pods) /\ again' \in BOOLEAN
    BY <1>6, TypeOKQueue DEF Sync, Backoff
  <2>2. cache' \in [Pods -> Object] /\ waiting' \in SUBSET Pods
    BY <1>6 DEF Sync, Backoff, TypeOK, ClusterType, QueueType
  <2>3. UNCHANGED <<host, api, pc, cfg, root, podManager, rec, told, fails, kills>>
    BY <1>6 DEF Sync, Backoff
  <2>. QED  BY <2>1, <2>2, <2>3 DEF TypeOK, ClusterType, MainType, QueueType, OneCall
<1>7. CASE Get
  <2>1. /\ Tail(queue) \in Seq(Pods) /\ Head(queue) \in Pods /\ cache[Head(queue)] \in Object
    BY <1>7, KeysTail DEF Get, TypeOK, QueueType
  <2>2. QueueType' /\ OneCall'
    BY <1>7, <2>1 DEF Get, quiet, TypeOK, QueueType, OneCall
  <2>. QED  BY <1>7, <2>2 DEF Get, quiet, TypeOK, ClusterType, MainType
<1>8. ASSUME NEW r \in rec, Reconcile(r)  PROVE TypeOK'
  <2>1. r.key \in Pods /\ r.obj.ver \in 0..MaxVer
    BY DEF TypeOK, QueueType, Object
  <2>2. CASE NewPodPanic(r)
    BY <2>2, TypeOKExit DEF NewPodPanic
  <2>3. CASE GetFail(r) \/ Pass(r) \/ Refuse(r) \/ NewPod(r)
    <3>0. Done(r.key) /\ UNCHANGED quiet
      BY <2>3 DEF GetFail, Pass, Refuse, NewPod
    <3>1. queue' \in Seq(Pods) /\ again' \in BOOLEAN /\ rec' = {}
      BY <2>1, <3>0, TypeOKQueue DEF Done
    <3>2. waiting' \in SUBSET Pods
      BY <2>1, <2>3 DEF GetFail, Pass, Refuse, NewPod, Requeue, Forget, TypeOK, QueueType
    <3>3. fails' \in 0..MaxFails
      BY <2>3, AgentConstants DEF GetFail, Pass, Refuse, NewPod, TypeOK, ClusterType
    <3>4. told' \in [Pods -> 0..MaxVer]
      BY <2>1, <2>3 DEF GetFail, Pass, Refuse, NewPod, TypeOK, QueueType
    <3>. QED  BY <3>0, <3>1, <3>2, <3>3, <3>4
              DEF quiet, TypeOK, ClusterType, MainType, QueueType, OneCall
  <2>. QED  BY <1>8, <2>2, <2>3 DEF Reconcile
<1>. QED  BY <1>1, <1>2, <1>3, <1>4, <1>5, <1>6, <1>7, <1>8 DEF Next

(***************************************************************************)
(* The process, its work queue and its reconciler keep their types through *)
(* every failure and restart; in particular calls of Reconcile never       *)
(* overlap.                                                                *)
(***************************************************************************)
THEOREM TypeCorrect == Spec => []TypeOK
BY TypeOKInit, TypeOKStep, PTL DEF Spec

-----------------------------------------------------------------------------
(* No pod is forgotten.  By itself this is not inductive: Reconcile might  *)
(* hand over an older version than the informer's and end.  It is with the *)
(* fact that such a call is always marked to be done again.                *)

\* Add keeps what is remembered and adds p.
LEMMA AddRemembers ==
    ASSUME TypeOK, NEW p \in Pods, Add(p), UNCHANGED rec
    PROVE  /\ Queued \subseteq Queued' /\ (again => again')
           /\ p \in Queued' \/ (\E r \in rec : r.key = p /\ again')
<1>1. queue \in Seq(Pods) /\ Queued = Keys(queue) /\ Queued' = Keys(queue')
  BY DEF TypeOK, QueueType, Queued, Keys
<1>2. CASE p \in Queued \cup InProcess
  BY <1>1, <1>2 DEF Add, InProcess
<1>3. CASE p \notin Queued \cup InProcess
  BY <1>1, <1>3, KeysAppend DEF Add
<1>. QED  BY <1>2, <1>3

\* A call that is done leaves the queue as it was, or with its key added.
LEMMA DoneRemembers ==
    ASSUME TypeOK, NEW p \in Pods, Done(p)
    PROVE  Queued \subseteq Queued' /\ (again => p \in Queued')
<1>1. queue \in Seq(Pods) /\ Queued = Keys(queue) /\ Queued' = Keys(queue')
  BY DEF TypeOK, QueueType, Queued, Keys
<1>. QED  BY <1>1, KeysAppend DEF Done

\* There is nothing to forget before the process runs.
LEMMA NoForgottenInit == Init => NoForgottenPod
BY DEF Init, NoForgottenPod

\* Steps of main(): only mgr.Start begins to run, with every pod queued.
LEMMA NoForgottenMain == ASSUME TypeOK, NoForgottenPod, Main PROVE NoForgottenPod'
<1>1. CASE MgrStart
  <2>1. ASSUME NEW p \in Pods, Pending(p)'  PROVE p \in Queued'
    <3>. DEFINE there == {q \in Pods : api[q].spec # Absent}
    <3>1. cache'[p] = api[p]
      BY <1>1 DEF MgrStart
    <3>2. p \in there
      BY <2>1, <3>1 DEF Pending, Wanted, Mine
    <3>3. Keys(queue') = there
      BY <1>1, KeysOfOrder DEF MgrStart
    <3>. QED  BY <3>2, <3>3 DEF Queued, Keys
  <2>. QED  BY <2>1 DEF NoForgottenPod, Remembered
<1>2. CASE PodManagerStart
  <2>1. UNCHANGED <<pc, cfg, cache, queue, again, waiting, rec, told>>
    BY <1>2 DEF PodManagerStart
  <2>. QED  BY <2>1 DEF NoForgottenPod, Pending, Remembered, Queued, Wanted, Mine, SelectorOK,
                        Matches, HasRange
<1>3. CASE ~ MgrStart /\ ~ PodManagerStart
  <2>1. pc' # "running"
    BY <1>3 DEF Main, ReadConfig, GetNodeName, Validate, GetKubeletServer, NewManager,
                CheckCgroup, SetupWithManager, Proceed, Exit, Die
  <2>. QED  BY <2>1 DEF NoForgottenPod
<1>. QED  BY <1>1, <1>2, <1>3

\* The informer and the rate limiter.
LEMMA NoForgottenQueue ==
    ASSUME TypeOK, NoForgottenPod, NEW p \in Pods, Sync(p) \/ Backoff(p)
    PROVE  NoForgottenPod'
<1>. SUFFICES ASSUME pc' = "running", NEW q \in Pods, Pending(q)'
              PROVE  Remembered(q)'
  BY DEF NoForgottenPod
<1>1. /\ UNCHANGED <<pc, cfg, rec, told>> /\ Add(p)
      /\ waiting \ {p} \subseteq waiting'
  BY DEF Sync, Backoff
<1>2. /\ Queued \subseteq Queued' /\ (again => again')
      /\ p \in Queued' \/ (\E r \in rec : r.key = p /\ again')
  BY <1>1, AddRemembers
<1>3. CASE q = p
  BY <1>1, <1>2, <1>3 DEF Remembered
<1>4. CASE q # p
  <2>1. cache'[q] = cache[q]
    BY <1>4 DEF Sync, Backoff, TypeOK, QueueType
  <2>2. Pending(q)
    BY <1>1, <2>1 DEF Pending, Wanted, Mine, SelectorOK, Matches, HasRange
  <2>3. Remembered(q)
    BY <1>1, <2>2 DEF NoForgottenPod
  <2>. QED  BY <1>1, <1>2, <1>4, <2>1, <2>3 DEF Remembered
<1>. QED  BY <1>3, <1>4

\* Reconcile takes a key, with the informer's version at that time.
LEMMA NoForgottenGet == ASSUME TypeOK, NoForgottenPod, Get PROVE NoForgottenPod'
<1>. SUFFICES ASSUME NEW q \in Pods, Pending(q)'
              PROVE  Remembered(q)'
  BY DEF NoForgottenPod
<1>1. /\ UNCHANGED <<pc, cfg, cache, told, waiting, again>> /\ pc = "running" /\ rec = {}
      /\ rec' = {[key |-> Head(queue), obj |-> cache[Head(queue)]]}
      /\ queue' = Tail(queue) /\ queue # <<>>
  BY DEF Get, quiet
<1>2. Pending(q)
  BY <1>1 DEF Pending, Wanted, Mine, SelectorOK, Matches, HasRange
<1>3. q \in Queued \cup waiting
  BY <1>1, <1>2 DEF NoForgottenPod, Remembered
<1>4. Queued \subseteq Queued' \cup {Head(queue)}
  <2>1. queue \in Seq(Pods)
    BY DEF TypeOK, QueueType
  <2>. QED  BY <1>1, <2>1, KeysTail DEF Queued, Keys
<1>5. CASE q = Head(queue)
  BY <1>1, <1>5 DEF Remembered
<1>6. CASE q # Head(queue)
  BY <1>1, <1>3, <1>4, <1>6 DEF Remembered
<1>. QED  BY <1>5, <1>6

\* Reconcile ends: its version was handed over or is not wanted, or its key
\* comes back.  If the informer has moved on since Get, again is set.
LEMMA NoForgottenReconcile ==
    ASSUME TypeOK, StaleIsAgain, NoForgottenPod, NEW r \in rec, Reconcile(r)
    PROVE  NoForgottenPod'
<1>1. CASE NewPodPanic(r)
  BY <1>1 DEF NewPodPanic, Die, NoForgottenPod
<1>2. CASE GetFail(r) \/ Pass(r) \/ Refuse(r) \/ NewPod(r)
  <2>. SUFFICES ASSUME pc' = "running", NEW q \in Pods, Pending(q)'
                PROVE  Remembered(q)'
    BY DEF NoForgottenPod
  <2>1. Done(r.key) /\ UNCHANGED <<pc, cfg, cache>> /\ r.key \in Pods
    BY <1>2 DEF GetFail, Pass, Refuse, NewPod, quiet, TypeOK, QueueType
  <2>2. Queued \subseteq Queued' /\ (again => r.key \in Queued')
    BY <2>1, DoneRemembers
  <2>3. waiting \subseteq waiting'
    BY <1>2 DEF GetFail, Pass, Refuse, NewPod, Requeue, Forget
  <2>4. CASE q # r.key
    <3>1. told'[q] = told[q]
      BY <1>2, <2>1, <2>4 DEF GetFail, Pass, Refuse, NewPod, TypeOK, QueueType
    <3>2. Pending(q)
      BY <2>1, <3>1 DEF Pending, Wanted, Mine, SelectorOK, Matches, HasRange
    <3>3. Remembered(q)
      BY <2>1, <3>2 DEF NoForgottenPod
    <3>4. q \in Queued \cup waiting
      BY <2>4, <3>3 DEF Remembered, TypeOK, OneCall
    <3>. QED  BY <2>2, <2>3, <3>4 DEF Remembered
  <2>5. CASE q = r.key /\ again
    BY <2>2, <2>5 DEF Remembered
  <2>6. CASE q = r.key /\ r.obj = cache[q]
    <3>1. Wanted(r.obj)
      BY <2>1, <2>6 DEF Pending, Wanted, Mine, SelectorOK, Matches, HasRange
    <3>2. ~ Pass(r) /\ ~ Refuse(r)
      BY <3>1 DEF Pass, Refuse, Wanted
    <3>3. told'[q] # r.obj.ver
      BY <2>1, <2>6 DEF Pending
    <3>4. told' # [told EXCEPT ![r.key] = r.obj.ver]
      BY <2>1, <2>6, <3>3 DEF TypeOK, QueueType
    <3>5. r.key \in waiting'
      BY <1>2, <3>2, <3>4 DEF GetFail, NewPod, Requeue
    <3>. QED  BY <2>6, <3>5 DEF Remembered
  <2>. QED  BY <2>4, <2>5, <2>6 DEF StaleIsAgain
<1>. QED  BY <1>1, <1>2 DEF Reconcile

\* A call that falls behind the informer is marked to be done again.
LEMMA StaleIsAgainStep ==
    ASSUME TypeOK, StaleIsAgain, [Next]_vars
    PROVE  StaleIsAgain'
<1>1. CASE UNCHANGED vars
  BY <1>1 DEF vars, memory, StaleIsAgain
<1>2. CASE rec' = {}
  BY <1>2 DEF StaleIsAgain
<1>3. CASE Main
  <2>1. CASE PodManagerStart
    BY <2>1 DEF PodManagerStart, StaleIsAgain
  <2>2. CASE ~ PodManagerStart
    <3>1. rec' \in {rec, {}} /\ pc # "running"
      BY <1>3, <2>2 DEF Main, ReadConfig, GetNodeName, Validate, GetKubeletServer, NewManager,
                        CheckCgroup, SetupWithManager, MgrStart, Proceed, Exit, Die
    <3>. QED  BY <3>1 DEF StaleIsAgain
  <2>. QED  BY <2>1, <2>2
<1>4. CASE Restart
  BY <1>4 DEF Restart, memory, StaleIsAgain
<1>5. CASE Kill \/ StartFail
  BY <1>2, <1>5 DEF Kill, StartFail, Die
<1>6. ASSUME NEW p \in Pods, Change(p)  PROVE StaleIsAgain'
  BY <1>6 DEF Change, memory, StaleIsAgain
<1>7. ASSUME NEW p \in Pods, Sync(p)  PROVE StaleIsAgain'
  <2>1. /\ UNCHANGED <<pc, rec>> /\ again' = (again \/ p \in InProcess)
        /\ cache' = [cache EXCEPT ![p] = api[p]]
    BY <1>7 DEF Sync, Add
  <2>2. ASSUME NEW r \in rec  PROVE again' \/ r.obj = cache'[r.key]
    <3>1. CASE r.key = p
      BY <2>1, <3>1 DEF InProcess
    <3>2. CASE r.key # p
      <4>1. cache'[r.key] = cache[r.key]
        BY <2>1, <3>2 DEF TypeOK, QueueType
      <4>. QED  BY <2>1, <4>1 DEF StaleIsAgain
    <3>. QED  BY <3>1, <3>2
  <2>. QED  BY <2>1, <2>2 DEF StaleIsAgain
<1>8. ASSUME NEW p \in Pods, Backoff(p)  PROVE StaleIsAgain'
  BY <1>8 DEF Backoff, Add, StaleIsAgain
<1>9. CASE Get
  BY <1>9 DEF Get, quiet, StaleIsAgain
<1>10. ASSUME NEW r \in rec, Reconcile(r)  PROVE StaleIsAgain'
  BY <1>2, <1>10 DEF Reconcile, GetFail, Pass, Refuse, NewPod, NewPodPanic, Done, Die
<1>. QED  BY <1>1, <1>3, <1>4, <1>5, <1>6, <1>7, <1>8, <1>9, <1>10 DEF Next

\* No step forgets a pod.
LEMMA NoForgottenStep ==
    ASSUME TypeOK, StaleIsAgain, NoForgottenPod, [Next]_vars
    PROVE  NoForgottenPod'
<1>1. CASE UNCHANGED vars \/ \E p \in Pods : Change(p)
  <2>1. UNCHANGED <<pc, cfg, cache, queue, again, waiting, rec, told>>
    BY <1>1 DEF vars, memory, Change
  <2>. QED  BY <2>1 DEF NoForgottenPod, Pending, Remembered, Queued, Wanted, Mine, SelectorOK,
                        Matches, HasRange
<1>2. CASE Main
  BY <1>2, NoForgottenMain
<1>3. CASE Restart \/ Kill \/ StartFail
  BY <1>3 DEF Restart, Kill, StartFail, Die, NoForgottenPod
<1>4. ASSUME NEW p \in Pods, Sync(p) \/ Backoff(p)  PROVE NoForgottenPod'
  BY <1>4, NoForgottenQueue
<1>5. CASE Get
  BY <1>5, NoForgottenGet
<1>6. ASSUME NEW r \in rec, Reconcile(r)  PROVE NoForgottenPod'
  BY <1>6, NoForgottenReconcile
<1>. QED  BY <1>1, <1>2, <1>3, <1>4, <1>5, <1>6 DEF Next

(***************************************************************************)
(* No pod is forgotten: while a version that Reconcile would hand over has *)
(* not been handed over, its key is queued, waits for a retry, or is in    *)
(* process.  For any number of pods and versions, in every surrounding,    *)
(* whatever fails and however often the process is stopped.                *)
(***************************************************************************)
THEOREM NoForgottenPodHolds == Spec => []NoForgottenPod
<1>. DEFINE Inv == TypeOK /\ StaleIsAgain /\ NoForgottenPod
<1>1. Init => Inv
  BY TypeOKInit, NoForgottenInit DEF Init, StaleIsAgain
<1>2. Inv /\ [Next]_vars => Inv'
  BY TypeOKStep, StaleIsAgainStep, NoForgottenStep
<1>. QED  BY <1>1, <1>2, PTL DEF Spec

-----------------------------------------------------------------------------
(* The copies of a pod and of the configuration.                           *)

\* The steps that leave the process dead leave both parts true.
LEMMA OrderDie ==
    ASSUME TypeOK, TypeOK', Die
    PROVE  ConfigRead' /\ VersionsInOrder'
<1>1. ConfigRead'
  BY DEF Die, ConfigRead
<1>2. \A p \in Pods : told'[p] = 0 /\ cache'[p].ver = 0 /\ api'[p].ver \in Nat
  BY DEF Die, Unknown, TypeOK, ClusterType, Object
<1>. QED  BY <1>1, <1>2 DEF Die, VersionsInOrder

\* main() takes over the file, then asks for the name, and changes neither.
LEMMA ConfigReadStep ==
    ASSUME TypeOK, TypeOK', StaleIsAgain, ConfigRead, [Next]_vars
    PROVE  ConfigRead'
<1>1. CASE UNCHANGED <<host, pc, cfg>>
  BY <1>1 DEF ConfigRead
<1>2. CASE Die
  BY <1>2 DEF Die, ConfigRead
<1>3. CASE Main
  <2>1. CASE ReadConfig
    BY <2>1, <1>2 DEF ReadConfig, Proceed, Exit, ConfigRead
  <2>2. CASE GetNodeName
    <3>1. CASE root \in host.creds
      <4>1. cfg' = [cfg EXCEPT !.node = This] /\ cfg \in Config /\ pc = "nodeName" /\ UNCHANGED host
        BY <2>2, <3>1 DEF GetNodeName, Proceed, Exit, TypeOK, MainType
      <4>2. cfg'.node = This /\ cfg'.labels = cfg.labels
        BY <4>1 DEF Config
      <4>. QED  BY <4>1, <4>2 DEF ConfigRead
    <3>2. CASE Die
      BY <3>2, <1>2
    <3>. QED  BY <2>2, <3>1, <3>2 DEF GetNodeName, Proceed, Exit
  <2>3. CASE Validate \/ GetKubeletServer \/ NewManager \/ CheckCgroup \/ SetupWithManager
    <3>1. CASE UNCHANGED <<host, cfg>> /\ pc \notin {"down", "config", "nodeName"}
      BY <3>1 DEF ConfigRead
    <3>2. CASE Die
      BY <3>2, <1>2
    <3>. QED  BY <2>3, <3>1, <3>2 DEF Validate, GetKubeletServer, NewManager, CheckCgroup,
                                      SetupWithManager, Proceed, Exit
  <2>4. CASE MgrStart \/ PodManagerStart
    <3>1. UNCHANGED <<host, cfg>> /\ pc \notin {"down", "config", "nodeName"}
      BY <2>4 DEF MgrStart, PodManagerStart
    <3>. QED  BY <3>1 DEF ConfigRead
  <2>. QED  BY <1>3, <2>1, <2>2, <2>3, <2>4 DEF Main
<1>4. CASE Restart
  BY <1>4 DEF Restart, ConfigRead
<1>5. CASE Kill \/ StartFail
  BY <1>2, <1>5 DEF Kill, StartFail
<1>6. ASSUME NEW p \in Pods, Change(p) \/ Sync(p) \/ Backoff(p)  PROVE ConfigRead'
  BY <1>1, <1>6 DEF Change, Sync, Backoff, memory
<1>7. CASE Get
  BY <1>1, <1>7 DEF Get, quiet
<1>8. ASSUME NEW r \in rec, Reconcile(r)  PROVE ConfigRead'
  BY <1>1, <1>2, <1>8 DEF Reconcile, GetFail, Pass, Refuse, NewPod, NewPodPanic, quiet
<1>9. CASE UNCHANGED vars
  BY <1>1, <1>9 DEF vars, memory
<1>. QED  BY <1>3, <1>4, <1>5, <1>6, <1>7, <1>8, <1>9 DEF Next

\* The versions in the copies of a pod are numbers.
LEMMA Versions ==
    ASSUME TypeOK
    PROVE  /\ \A p \in Pods : told[p] \in Nat /\ cache[p].ver \in Nat /\ api[p].ver \in Nat
           /\ \A r \in rec : r.key \in Pods /\ r.obj.ver \in Nat
<1>1. 0..MaxVer \subseteq Nat
  BY AgentConstants
<1>2. \A o \in Object : o.ver \in Nat
  BY <1>1 DEF Object
<1>. QED  BY <1>1, <1>2 DEF TypeOK, ClusterType, QueueType

\* A version that is copied is not behind the copy it replaces.
LEMMA VersionsStep ==
    ASSUME TypeOK, TypeOK', StaleIsAgain, VersionsInOrder, [Next]_vars
    PROVE  VersionsInOrder'
<1>0. /\ \A p \in Pods : told[p] \in Nat /\ cache[p].ver \in Nat /\ api[p].ver \in Nat
      /\ \A r \in rec : r.key \in Pods /\ r.obj.ver \in Nat
  BY Versions
<1>1. CASE UNCHANGED <<api, cache, rec, told>>
  BY <1>1 DEF VersionsInOrder
<1>2. CASE Die
  BY <1>2, OrderDie
<1>3. CASE MgrStart
  <2>1. rec = {}
    BY <1>3 DEF MgrStart, StaleIsAgain
  <2>2. UNCHANGED <<api, rec, told>> /\ cache' = api
    BY <1>3 DEF MgrStart
  <2>3. \A p \in Pods : told[p] <= api[p].ver
    BY <1>0 DEF VersionsInOrder
  <2>. QED  BY <1>0, <2>1, <2>2, <2>3 DEF VersionsInOrder
<1>4. CASE Main /\ ~ MgrStart
  BY <1>1, <1>2, <1>4 DEF Main, ReadConfig, GetNodeName, Validate, GetKubeletServer, NewManager,
                          CheckCgroup, SetupWithManager, PodManagerStart, Proceed, Exit
<1>5. CASE Restart
  BY <1>1, <1>5 DEF Restart, memory
<1>6. CASE Kill \/ StartFail
  BY <1>2, <1>6 DEF Kill, StartFail
<1>7. ASSUME NEW p \in Pods, Change(p)  PROVE VersionsInOrder'
  <2>1. UNCHANGED <<cache, rec, told>>
    BY <1>7 DEF Change, memory
  <2>2. ASSUME NEW q \in Pods  PROVE api'[q].ver >= api[q].ver
    <3>1. PICK s : api' = [api EXCEPT ![p] = [ver |-> @.ver + 1, spec |-> s]]
      BY <1>7 DEF Change
    <3>2. api'[q].ver = IF q = p THEN api[q].ver + 1 ELSE api[q].ver
      BY <3>1 DEF TypeOK, ClusterType
    <3>. QED  BY <1>0, <3>2
  <2>3. \A q \in Pods : api'[q].ver \in Nat
    BY Versions DEF TypeOK, ClusterType, Object
  <2>. QED  BY <1>0, <2>1, <2>2, <2>3 DEF VersionsInOrder
<1>8. ASSUME NEW p \in Pods, Sync(p)  PROVE VersionsInOrder'
  <2>1. UNCHANGED <<api, rec, told>> /\ cache' = [cache EXCEPT ![p] = api[p]]
    BY <1>8 DEF Sync
  <2>2. \A q \in Pods : cache'[q] = IF q = p THEN api[q] ELSE cache[q]
    BY <2>1 DEF TypeOK, QueueType
  <2>3. \A q \in Pods : cache[q].ver <= cache'[q].ver /\ cache'[q].ver <= api[q].ver
                        /\ cache'[q].ver \in Nat
    BY <1>0, <2>2 DEF VersionsInOrder
  <2>4. \A q \in Pods : told[q] <= cache'[q].ver
    BY <1>0, <2>3 DEF VersionsInOrder
  <2>5. \A r \in rec : r.obj.ver <= cache'[r.key].ver
    BY <1>0, <2>3 DEF VersionsInOrder
  <2>. QED  BY <2>1, <2>3, <2>4, <2>5 DEF VersionsInOrder
<1>9. ASSUME NEW p \in Pods, Backoff(p)  PROVE VersionsInOrder'
  BY <1>1, <1>9 DEF Backoff
<1>10. CASE Get
  <2>1. /\ UNCHANGED <<api, cache, told>> /\ Head(queue) \in Pods
        /\ rec' = {[key |-> Head(queue), obj |-> cache[Head(queue)]]}
    BY <1>10, KeysTail DEF Get, quiet, TypeOK, QueueType
  <2>2. \A r \in rec' : r.key \in Pods /\ r.obj.ver = cache[r.key].ver
    BY <2>1
  <2>. QED  BY <1>0, <2>1, <2>2 DEF VersionsInOrder
<1>11. ASSUME NEW r \in rec, Reconcile(r)  PROVE VersionsInOrder'
  <2>1. CASE NewPodPanic(r)
    BY <1>2, <2>1 DEF NewPodPanic
  <2>2. CASE GetFail(r) \/ Pass(r) \/ Refuse(r) \/ NewPod(r)
    <3>1. UNCHANGED <<api, cache>> /\ rec' = {}
      BY <2>2 DEF GetFail, Pass, Refuse, NewPod, Done, quiet
    <3>2. told' = told \/ told' = [told EXCEPT ![r.key] = r.obj.ver]
      BY <2>2 DEF GetFail, Pass, Refuse, NewPod
    <3>3. \A q \in Pods : told'[q] <= cache[q].ver
      BY <1>0, <3>2 DEF TypeOK, QueueType, VersionsInOrder
    <3>. QED  BY <3>1, <3>3 DEF VersionsInOrder
  <2>. QED  BY <1>11, <2>1, <2>2 DEF Reconcile
<1>12. CASE UNCHANGED vars
  BY <1>1, <1>12 DEF vars, memory
<1>. QED  BY <1>3, <1>4, <1>5, <1>6, <1>7, <1>8, <1>9, <1>10, <1>11, <1>12 DEF Next

\* The types and the order of the copies are inductive together.
LEMMA IInvInit == Init => TypeOK /\ IInv
<1>. SUFFICES ASSUME Init PROVE TypeOK /\ IInv
  OBVIOUS
<1>1. TypeOK
  BY TypeOKInit
<1>2. \A p \in Pods : told[p] = 0 /\ cache[p].ver = 0 /\ api[p].ver \in Nat
  BY <1>1, Versions DEF Init, Unknown
<1>. QED  BY <1>1, <1>2 DEF Init, IInv, StaleIsAgain, ConfigRead, VersionsInOrder

\* Every step keeps them.
LEMMA IInvStep == TypeOK /\ IInv /\ [Next]_vars => TypeOK' /\ IInv'
BY TypeOKStep, StaleIsAgainStep, ConfigReadStep, VersionsStep DEF IInv

(***************************************************************************)
(* No copy of a pod gets ahead of what it was copied from, the version     *)
(* handed to NewPod included, and Reconcile works with the configuration   *)
(* that the file gave, its node's own name where that says "auto".         *)
(***************************************************************************)
THEOREM CopiesInOrder == Spec => []IInv
BY IInvInit, IInvStep, PTL DEF Spec

-----------------------------------------------------------------------------
(* What is handed over.                                                    *)

\* Only NewPod hands a pod over, and what Reconcile had in hand then.
LEMMA HandOverStep ==
    ASSUME TypeOK, IInv, Next, NEW p \in Pods, told'[p] \notin {0, told[p]}
    PROVE  \E r \in rec : NewPod(r) /\ r.key = p /\ told'[p] = r.obj.ver
<1>1. told' # told /\ ~ Die
  BY DEF Die
<1>2. ~ Main /\ ~ Restart /\ ~ Kill /\ ~ StartFail /\ ~ Get
  BY <1>1 DEF Main, ReadConfig, GetNodeName, Validate, GetKubeletServer, NewManager, CheckCgroup,
              SetupWithManager, MgrStart, PodManagerStart, Proceed, Exit, Restart, memory, Kill,
              StartFail, Get
<1>3. \A q \in Pods : ~ Change(q) /\ ~ Sync(q) /\ ~ Backoff(q)
  BY <1>1 DEF Change, memory, Sync, Backoff
<1>4. PICK r \in rec : Reconcile(r)
  BY <1>2, <1>3 DEF Next
<1>5. NewPod(r) /\ told' = [told EXCEPT ![r.key] = r.obj.ver]
  BY <1>1, <1>4 DEF Reconcile, GetFail, Pass, Refuse, NewPod, NewPodPanic
<1>6. r.key = p /\ told'[p] = r.obj.ver
  BY <1>5 DEF TypeOK, QueueType
<1>. QED  BY <1>5, <1>6

(***************************************************************************)
(* Only pods of the agent's own node that match and have a resource range  *)
(* are handed to NewPod, and never an older version after a newer one:     *)
(* whatever the informer and the API server do between Get and NewPod, and *)
(* for any number of pods, versions, failures and kills.                   *)
(***************************************************************************)
THEOREM HandsOverItsOwnHolds == Spec => HandsOverItsOwn
<1>. DEFINE Handed(p) ==
       told'[p] \notin {0, told[p]} =>
           /\ told'[p] > told[p]
           /\ \E r \in rec : /\ r.key = p /\ r.obj.ver = told'[p]
                             /\ host.node = NodeNameAuto /\ host.file = "good"
                                   => r.obj.spec.node = This
                             /\ host.labels = "valid" /\ host.file = "good"
                                   => r.obj.spec.match
                             /\ r.obj.spec.range = "ok"
<1>1. ASSUME TypeOK, IInv, Next, NEW p \in Pods, told'[p] \notin {0, told[p]}  PROVE Handed(p)
  <2>1. PICK r \in rec : NewPod(r) /\ r.key = p /\ told'[p] = r.obj.ver
    BY <1>1, HandOverStep
  <2>2. told[p] \in Nat /\ r.obj.ver \in Nat /\ told[p] <= r.obj.ver
    BY <1>1, <2>1, Versions DEF IInv, VersionsInOrder
  <2>3. told'[p] > told[p]
    BY <1>1, <2>1, <2>2
  <2>4. /\ r.obj.spec.node = cfg.node /\ r.obj.spec.range = "ok"
        /\ cfg.labels = "none" \/ r.obj.spec.match
    BY <2>1 DEF NewPod, Wanted, Mine, Matches, HasRange
  <2>5. pc = "running" /\ ConfigRead
    BY <1>1 DEF IInv, StaleIsAgain
  <2>6. host.file = "good" => /\ cfg.labels = host.labels
                              /\ host.node = NodeNameAuto => cfg.node = This
    BY <2>5 DEF ConfigRead
  <2>. QED  BY <2>1, <2>3, <2>4, <2>6
<1>2. TypeOK /\ IInv /\ [Next]_vars => [\A p \in Pods : Handed(p)]_vars
  BY <1>1
<1>. QED  BY <1>2, IInvInit, IInvStep, PTL DEF Spec, HandsOverItsOwn
=============================================================================
