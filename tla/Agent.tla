-------------------------------- MODULE Agent --------------------------------
(***************************************************************************)
(* The agent's process: main() (cmd/main.go, cmd/setup), its configuration *)
(* (pkg/config/config.go), and the reconciler of pods                      *)
(* (pkg/controller/pod_controller.go) on controller-runtime's informer     *)
(* and work queue.  The process may exit, panic or be killed at any point, *)
(* and its DaemonSet starts it again with nothing in memory.               *)
(*                                                                         *)
(* A version of a pod is [ver, spec]; deleting the pod is a version too,   *)
(* whose spec is Absent.  A spec keeps what Reconcile looks at: the node,  *)
(* whether the labels match the configured ones, and the annotation with   *)
(* the resource range: "none", "bad" (does not parse) or "ok".             *)
(*                                                                         *)
(* NewPod, which Reconcile calls, is not implemented and the manager it is *)
(* called on is never set.  The rigid field newPod of host says whether    *)
(* they are: FALSE is the committed code.                                  *)
(***************************************************************************)
EXTENDS Naturals, Sequences, FiniteSets, Functions

CONSTANTS Pods,      \* names of pods
          This,      \* the node the agent runs on
          Nodes,     \* the nodes of the cluster
          Specs,     \* the specs a pod may be given
          Hosts,     \* the surroundings the agent may be started in
          MaxVer,    \* bound: versions of one pod
          MaxFails,  \* bound: transient failures
          MaxKills   \* bound: times the process is stopped from outside

NoNode == "no node"   \* the empty string: a pod that is not bound yet
NodeNameAuto == "auto"
Absent == [node |-> "gone", match |-> FALSE, range |-> "none"]

Spec0 == [node : Nodes \cup {NoNode}, match : BOOLEAN, range : {"none", "bad", "ok"}]

\* The configuration file (none given, unreadable, or readable with a node
\* name and labels), the cgroup version, the roots in which API credentials
\* are found, and whether NewPod is implemented.
Host == [file : {"none", "bad", "good"}, node : Nodes \cup {NoNode, NodeNameAuto},
         labels : {"none", "valid", "invalid"}, v2 : BOOLEAN,
         creds : SUBSET {"container", "host"}, newPod : BOOLEAN]

ASSUME AgentConstants ==
    /\ This \in Nodes
    /\ {NoNode, NodeNameAuto, "gone"} \cap Nodes = {}
    /\ Specs \subseteq Spec0
    /\ Hosts \subseteq Host
    /\ IsFiniteSet(Pods)
    /\ MaxVer \in Nat \ {0} /\ MaxFails \in Nat /\ MaxKills \in Nat

VARIABLES
    host,        \* rigid: an element of Hosts
    api,         \* the pods of the API server
    (* the process *)
    pc,          \* where main() is; "down" while there is no process
    cfg,         \* gCfg
    root,        \* the root directory of the process
    podManager,  \* "nil", "made" or "started"
    (* the informer and the controller's work queue *)
    cache,       \* the informer's copy of api
    queue,       \* keys waiting for the reconciler, in order
    again,       \* the key being reconciled was added again meanwhile
    waiting,     \* keys that are put back in the queue after a while
    rec,         \* the calls of Reconcile: a set of at most one
    told,        \* version last given to NewPod, 0 if none
    (* bounds *)
    fails, kills

memory == <<cfg, root, podManager, cache, queue, again, waiting, rec, told>>
vars   == <<host, api, pc, memory, fails, kills>>

Object == [ver : 0..MaxVer, spec : Specs \cup {Absent}]

NewConfiguration == [node |-> NoNode, labels |-> "none"]

Unknown == [p \in Pods |-> [ver |-> 0, spec |-> Absent]]

-----------------------------------------------------------------------------
(* The cluster.                                                            *)

Init == /\ host \in Hosts
        /\ api \in [Pods -> {[ver |-> 0, spec |-> Absent]} \cup [ver : {1}, spec : Specs]]
        /\ pc = "config"
        /\ cfg = NewConfiguration /\ root = "container" /\ podManager = "nil"
        /\ cache = Unknown /\ queue = <<>> /\ again = FALSE /\ waiting = {}
        /\ rec = {}
        /\ told = [p \in Pods |-> 0]
        /\ fails = 0 /\ kills = 0

\* A pod is created, changed or deleted.  A bound pod stays on its node.
Change(p) ==
    /\ api[p].ver < MaxVer
    /\ \E s \in (Specs \cup {Absent}) \ {api[p].spec} :
          /\ \/ s = Absent
             \/ api[p].spec.node \in {s.node, NoNode, Absent.node}
          /\ api' = [api EXCEPT ![p] = [ver |-> @.ver + 1, spec |-> s]]
    /\ UNCHANGED <<host, pc, memory, fails, kills>>

-----------------------------------------------------------------------------
(* The life of the process.                                                *)

\* os.Exit, a panic or a signal: nothing in memory is left.
Die == /\ pc' = "down"
       /\ cfg' = NewConfiguration /\ root' = "container" /\ podManager' = "nil"
       /\ cache' = Unknown /\ queue' = <<>> /\ again' = FALSE /\ waiting' = {}
       /\ rec' = {}
       /\ told' = [p \in Pods |-> 0]

\* The DaemonSet's pod is started again.
Restart == /\ pc = "down"
           /\ pc' = "config"
           /\ UNCHANGED <<host, api, memory, fails, kills>>

\* A signal ends mgr.Start and main(), or the process at any earlier point.
Kill == /\ pc # "down"
        /\ kills < MaxKills
        /\ kills' = kills + 1
        /\ Die
        /\ UNCHANGED <<host, api, fails>>

\* Something that main() depends on fails this time: main() exits or panics.
StartFail == /\ pc \in {"nodeName", "kubelet", "manager", "setup"}
             /\ fails < MaxFails
             /\ fails' = fails + 1
             /\ Die
             /\ UNCHANGED <<host, api, kills>>

\* The step of main() at pc succeeds if ok holds, and is its last if not.
Proceed(ok, next) == /\ ok
                     /\ pc' = next
                     /\ UNCHANGED <<host, api, cache, queue, again, waiting, rec, told,
                                    fails, kills>>

Exit(ok) == ~ ok /\ Die /\ UNCHANGED <<host, api, fails, kills>>

\* Mutant: "auto" is taken for the name of a node.
ReadConfigAsIs ==
    /\ pc = "config"
    /\ \/ /\ Proceed(host.file # "bad", "validate")
          /\ cfg' = IF host.file = "good" THEN [node |-> host.node, labels |-> host.labels]
                                          ELSE NewConfiguration
          /\ UNCHANGED <<root, podManager>>
       \/ Exit(host.file # "bad")

\* InitConfiguration, if a file is given; without one, the defaults.
ReadConfig ==
    /\ pc = "config"
    /\ \/ /\ Proceed(host.file # "bad",
                     IF host.file = "good" /\ host.node = NodeNameAuto THEN "nodeName" ELSE "validate")
          /\ cfg' = IF host.file = "good" THEN [node |-> host.node, labels |-> host.labels]
                                          ELSE NewConfiguration
          /\ UNCHANGED <<root, podManager>>
       \/ Exit(host.file # "bad")

\* GetNodeName asks the API server for the agent's own pod.
GetNodeName ==
    /\ pc = "nodeName"
    /\ \/ /\ Proceed(root \in host.creds, "validate")
          /\ cfg' = [cfg EXCEPT !.node = This]
          /\ UNCHANGED <<root, podManager>>
       \/ Exit(root \in host.creds)

\* GetLabelSelector: labels are refused or accepted as a whole.
SelectorOK == cfg.labels # "invalid"

Validate ==
    /\ pc = "validate"
    /\ \/ Proceed(SelectorOK, "kubelet") /\ UNCHANGED <<cfg, root, podManager>>
       \/ Exit(SelectorOK)

\* The kubelet's configuration is read from the node: the process changes
\* its root to get there, for good.
GetKubeletServer ==
    /\ pc = "kubelet"
    /\ Proceed(TRUE, "manager")
    /\ root' = "host"
    /\ UNCHANGED <<cfg, podManager>>

\* GetConfigOrDie looks for credentials in the root it finds itself in.
NewManager ==
    /\ pc = "manager"
    /\ \/ Proceed(root \in host.creds, "cgroup") /\ UNCHANGED <<cfg, root, podManager>>
       \/ Exit(root \in host.creds)

\* Without cgroup v2 no pod manager is made, and main() goes on.
CheckCgroup ==
    /\ pc = "cgroup"
    /\ Proceed(TRUE, "setup")
    /\ podManager' = IF host.v2 THEN "made" ELSE "nil"
    /\ UNCHANGED <<cfg, root>>

\* The controller, the health checks, the index.
SetupWithManager ==
    /\ pc = "setup"
    /\ Proceed(TRUE, "start")
    /\ UNCHANGED <<cfg, root, podManager>>

\* mgr.Start: the informer lists the pods and every one of them is queued,
\* in any order, before the reconciler is called.
MgrStart ==
    /\ pc = "start"
    /\ pc' = "running"
    /\ cache' = api
    /\ LET there == {p \in Pods : api[p].spec # Absent}
       IN  queue' \in Bijection(1..Cardinality(there), there)
    /\ UNCHANGED <<host, api, cfg, root, podManager, again, waiting, rec, told, fails, kills>>

\* The goroutine that waits for mgr.Elected().
PodManagerStart ==
    /\ pc = "running" /\ podManager = "made"
    /\ podManager' = "started"
    /\ UNCHANGED <<host, api, pc, cfg, root, cache, queue, again, waiting, rec, told,
                   fails, kills>>

-----------------------------------------------------------------------------
(* The informer and the work queue (external).                             *)

Queued    == {queue[i] : i \in DOMAIN queue}
InProcess == {r.key : r \in rec}

\* workqueue.Add: a key is queued once; the key in process waits its turn.
Add(p) == /\ queue' = IF p \in Queued \cup InProcess THEN queue ELSE Append(queue, p)
          /\ again' = (again \/ p \in InProcess)

\* The informer sees a newer version of the pod, perhaps skipping some.
Sync(p) == /\ pc = "running"
           /\ cache[p] # api[p]
           /\ cache' = [cache EXCEPT ![p] = api[p]]
           /\ Add(p)
           /\ UNCHANGED <<host, api, pc, cfg, root, podManager, waiting, rec, told,
                          fails, kills>>

\* The rate limiter's delay is over.
Backoff(p) == /\ p \in waiting
              /\ waiting' = waiting \ {p}
              /\ Add(p)
              /\ UNCHANGED <<host, api, pc, cfg, root, podManager, cache, rec, told,
                             fails, kills>>

\* workqueue.Done
Done(p) == /\ rec' = {}
           /\ queue' = IF again THEN Append(queue, p) ELSE queue
           /\ again' = FALSE

\* Mutant: an error is logged and the key forgotten.
LogOnly(p) == waiting' = waiting

\* What the controller does with the result of Reconcile.
Requeue(p) == waiting' = waiting \cup {p}
Forget     == waiting' = waiting

-----------------------------------------------------------------------------
(* Reconcile                                                               *)

quiet == <<host, api, pc, cfg, root, podManager, cache, kills>>

\* Mutant: calls of Reconcile overlap.
GetAtOnce == /\ pc = "running" /\ queue # <<>>
             /\ rec' = rec \cup {[key |-> Head(queue), obj |-> cache[Head(queue)]]}
             /\ queue' = Tail(queue)
             /\ UNCHANGED <<quiet, again, waiting, told, fails>>

\* The call begins with Get, from the informer's copy.
Get == /\ pc = "running" /\ rec = {} /\ queue # <<>>
       /\ rec' = {[key |-> Head(queue), obj |-> cache[Head(queue)]]}
       /\ queue' = Tail(queue)
       /\ UNCHANGED <<quiet, again, waiting, told, fails>>

\* Get fails other than with NotFound.
GetFail(r) == /\ fails < MaxFails
              /\ fails' = fails + 1
              /\ Done(r.key)
              /\ Requeue(r.key)
              /\ UNCHANGED <<quiet, told>>

\* Mutant: the node is not looked at.
MineAnywhere(o) == o.spec # Absent

Mine(o)     == o.spec # Absent /\ o.spec.node = cfg.node
Matches(o)  == cfg.labels = "none" \/ o.spec.match
HasRange(o) == o.spec.range = "ok"

Wanted(o) == Mine(o) /\ SelectorOK /\ Matches(o) /\ HasRange(o)

\* Not found, on another node, or not selected: nothing to do.
Pass(r) == /\ ~ Mine(r.obj) \/ (SelectorOK /\ ~ Matches(r.obj))
           /\ Done(r.key)
           /\ Forget
           /\ UNCHANGED <<quiet, told, fails>>

\* No selector, no annotation, or one that does not parse: errorL.
Refuse(r) == /\ Mine(r.obj)
             /\ ~ SelectorOK \/ (Matches(r.obj) /\ ~ HasRange(r.obj))
             /\ Done(r.key)
             /\ Requeue(r.key)
             /\ UNCHANGED <<quiet, told, fails>>

\* Mutant: successL after an error of NewPod.
NewPodForgets(r) == /\ Wanted(r.obj)
                    /\ host.newPod /\ podManager # "nil"
                    /\ Done(r.key)
                    /\ Forget
                    /\ \/ /\ told' = [told EXCEPT ![r.key] = r.obj.ver]
                          /\ UNCHANGED fails
                       \/ /\ fails < MaxFails
                          /\ fails' = fails + 1
                          /\ UNCHANGED told
                    /\ UNCHANGED quiet

\* NewPod returns: the pod is handed over, or there is an error to retry.
NewPod(r) == /\ Wanted(r.obj)
             /\ host.newPod /\ podManager # "nil"
             /\ Done(r.key)
             /\ \/ /\ told' = [told EXCEPT ![r.key] = r.obj.ver]
                   /\ Forget
                   /\ UNCHANGED fails
                \/ /\ fails < MaxFails
                   /\ fails' = fails + 1
                   /\ Requeue(r.key)
                   /\ UNCHANGED told
             /\ UNCHANGED quiet

\* NewPod is not implemented, or there is no manager to call it on.
NewPodPanic(r) == /\ Wanted(r.obj)
                  /\ ~ host.newPod \/ podManager = "nil"
                  /\ Die
                  /\ UNCHANGED <<host, api, fails, kills>>

Reconcile(r) == GetFail(r) \/ Pass(r) \/ Refuse(r) \/ NewPod(r) \/ NewPodPanic(r)

-----------------------------------------------------------------------------
Main == \/ ReadConfig
        \/ GetNodeName
        \/ Validate
        \/ GetKubeletServer
        \/ NewManager
        \/ CheckCgroup
        \/ SetupWithManager
        \/ MgrStart
        \/ PodManagerStart

Next == \/ Main
        \/ Restart
        \/ Kill
        \/ StartFail
        \/ \E p \in Pods : Change(p) \/ Sync(p) \/ Backoff(p)
        \/ Get
        \/ \E r \in rec : Reconcile(r)

\* main() runs on, the kubelet starts the container again, watch events
\* arrive, delays end, and the reconciler works while its queue has keys.
Fairness == /\ WF_vars(Main)
            /\ WF_vars(Restart)
            /\ WF_vars(Get)
            /\ WF_vars(\E r \in rec : Reconcile(r))
            /\ \A p \in Pods : WF_vars(Sync(p)) /\ WF_vars(Backoff(p))

Spec == Init /\ [][Next]_vars /\ Fairness
-----------------------------------------------------------------------------
PCs == {"down", "config", "nodeName", "validate", "kubelet", "manager", "cgroup",
        "setup", "start", "running"}

Config == [node : Nodes \cup {NoNode, NodeNameAuto}, labels : {"none", "valid", "invalid"}]

ClusterType == /\ host \in Hosts /\ api \in [Pods -> Object]
               /\ fails \in 0..MaxFails /\ kills \in 0..MaxKills

MainType == /\ pc \in PCs /\ cfg \in Config
            /\ root \in {"container", "host"} /\ podManager \in {"nil", "made", "started"}

QueueType == /\ cache \in [Pods -> Object] /\ queue \in Seq(Pods) /\ again \in BOOLEAN
             /\ waiting \in SUBSET Pods /\ told \in [Pods -> 0..MaxVer]
             /\ rec \in SUBSET [key : Pods, obj : Object]

\* Calls of Reconcile do not overlap.
OneCall == \A r, s \in rec : r = s

TypeOK == ClusterType /\ MainType /\ QueueType /\ OneCall

\* The informer has a version of p that is to be handed over.
Pending(p) == Wanted(cache[p]) /\ told[p] # cache[p].ver

\* Reconcile will be called for p, or is working on that very version.
Remembered(p) == \/ p \in Queued \cup waiting
                 \/ \E r \in rec : r.key = p /\ (again \/ r.obj = cache[p])

(***************************************************************************)
(* No pod is forgotten: while a version that Reconcile would hand over has *)
(* not been handed over, its key is queued, or waits for a retry, or is in *)
(* process with that very version or about to be queued again.  This is    *)
(* what the Requeue results of Reconcile's error paths are for.            *)
(***************************************************************************)
NoForgottenPod == pc = "running" => \A p \in Pods : Pending(p) => Remembered(p)

\* Only the running process reconciles, and a call whose copy of the pod is
\* behind the informer's has been marked by workqueue.Add.
StaleIsAgain == \A r \in rec : pc = "running" /\ (again \/ r.obj = cache[r.key])

\* From its first steps on, main() works with the configuration file it was
\* given, and with its node's own name where that says "auto".
ConfigRead ==
    pc \notin {"down", "config"} /\ host.file = "good" =>
        /\ cfg.labels = host.labels
        /\ host.node = NodeNameAuto => pc = "nodeName" \/ cfg.node = This

\* What was handed over is not ahead of what Reconcile has in hand, that not
\* of the informer's copy, and that not of the API server.
VersionsInOrder ==
    /\ \A p \in Pods : told[p] <= cache[p].ver /\ cache[p].ver <= api[p].ver
    /\ \A r \in rec : told[r.key] <= r.obj.ver /\ r.obj.ver <= cache[r.key].ver

(***************************************************************************)
(* The copies of a pod along the way from the API server to NewPod are     *)
(* never ahead of the one they were made from, through lists, retries and  *)
(* restarts, and Reconcile decides with the configuration main() was       *)
(* started with.                                                           *)
(***************************************************************************)
IInv == StaleIsAgain /\ ConfigRead /\ VersionsInOrder

(***************************************************************************)
(* An agent that finds its node's name by itself hands over only pods that *)
(* are bound to its node, match, and have a resource range that parses;    *)
(* and for one pod it never goes back to an older version, although        *)
(* Reconcile's copy may be behind the informer's when NewPod is called.    *)
(***************************************************************************)
HandsOverItsOwn ==
    [][\A p \in Pods :
          told'[p] \notin {0, told[p]} =>
              /\ told'[p] > told[p]
              /\ \E r \in rec : /\ r.key = p /\ r.obj.ver = told'[p]
                                /\ host.node = NodeNameAuto /\ host.file = "good"
                                      => r.obj.spec.node = This
                                /\ host.labels = "valid" /\ host.file = "good"
                                      => r.obj.spec.match
                                /\ r.obj.spec.range = "ok"]_vars

\* Where the agent can work: its configuration is good, API credentials are
\* found wherever main() looks for them, after it has changed its root, and
\* there is a NewPod to call.
Able == /\ host.file # "bad"
        /\ host.file = "good" => host.labels # "invalid"
        /\ host.file = "good" /\ host.node = NodeNameAuto => "container" \in host.creds
        /\ "host" \in host.creds
        /\ host.v2 /\ host.newPod

(***************************************************************************)
(* Reconcile is to "send event" to the manager for each pod it selects:    *)
(* once pods stop changing, the manager has the last version of each pod   *)
(* that is wanted, whatever restarts, transient failures, and other pods   *)
(* that are refused and retried for ever.                                  *)
(***************************************************************************)
Converges ==
    Able => <>[](/\ pc = "running"
                 /\ \A p \in Pods : Wanted(api[p]) => told[p] = api[p].ver)

(***************************************************************************)
(* On a node without cgroup v2, main() says it does "NOT start up the main *)
(* flow": Reconcile gets no pod as far as NewPod.                          *)
(***************************************************************************)
MainFlowOnlyOnV2 == (\E r \in rec : Wanted(r.obj)) => host.v2
=============================================================================
