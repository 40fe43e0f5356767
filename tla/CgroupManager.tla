---------------------------- MODULE CgroupManager ----------------------------
(***************************************************************************)
(* From the kubelet's configuration to the cgroup of a pod: at each tick   *)
(* every worker builds a cgroup manager (buildCgroupMgr of                 *)
(* pkg/kubelet/cmd.go, newCgroupManager of pkg/kubelet/server_linux.go)    *)
(* from the one KubeletServer they all share, leaves its QoS manager in    *)
(* the package's variable qosCM, asks whatever qosCM then is for the       *)
(* parent of its pod's cgroup, and makes a toolkit on the result unless it *)
(* has one (worker.go, the ticker's case; Worker has the rest of it).      *)
(*                                                                         *)
(* Composed with Kubelet: the process may die at any of these steps, and   *)
(* then everything begins again from the list of processes.                *)
(***************************************************************************)
EXTENDS Kubelet

CONSTANTS Pods,  \* the pods of the node, by uid
          Qos    \* the QoS class of each

Classes == {"Guaranteed", "Burstable", "BestEffort"}

\* A pod's part of a name is "pod" and its uid, so that it is no tier's.
ASSUME CgroupManagerConstants ==
    /\ Qos \in [Pods -> Classes]
    /\ Pods \cap (Classes \cup {"kubepods"}) = {}

VARIABLES
    at,       \* where each worker's tick is
    qosCM,    \* the QoS manager made last: "nil", "empty" (its Start failed,
              \* or it does nothing without cgroups-per-qos) or "full"
    toolkit,  \* the cgroup of each worker's toolkit: a set of at most one
    cgroup    \* the cgroup that the kubelet made for each pod, likewise

workers == <<at, qosCM, toolkit>>
vars    == <<kubelet, workers, cgroup>>

-----------------------------------------------------------------------------
(* Names of cgroups.                                                       *)

\* ParseCgroupfsToCgroupName, and the top level cgroup of the pods.
RootName(c) == IF c["cgroup-root"] \in {"", "/"} THEN <<>> ELSE <<c["cgroup-root"]>>
PodsRoot(c) == RootName(c) \o <<"kubepods">>

\* QOSContainersInfo (external): the parent of the pods of each class.
Parent(c, class) == PodsRoot(c) \o IF class = "Guaranteed" THEN <<>> ELSE <<class>>

\* Mutant: always as cgroupfs has it.
CgroupfsPath(name, driver) == [form |-> "cgroupfs", name |-> name]

\* BuildCgroupPaths: the driver decides how a name becomes a path.
BuildCgroupPath(name, driver) ==
    [form |-> IF driver = "systemd" THEN "systemd" ELSE "cgroupfs", name |-> name]

\* Mutant: without the pod's own part.
ParentOnly(p) == IF qosCM = "full" THEN Parent(server, Qos[p]) ELSE <<p>>

\* GetPodContainerName: without a parent the name is the pod's part alone.
GetPodContainerName(p) == (IF qosCM = "full" THEN Parent(server, Qos[p]) ELSE <<>>) \o <<p>>

\* The kubelet's side (external): where a kubelet with configuration c has
\* the cgroup of p, and all cgroups there are.
PlacedBy(c, p) == [form |-> c["cgroup-driver"], name |-> Parent(c, Qos[p]) \o <<p>>]
Tiers(c)       == {[form |-> c["cgroup-driver"], name |-> Parent(c, Qos[p])] : p \in Pods}

Existing == (UNION {cgroup[p] : p \in Pods}) \cup Tiers(server)

-----------------------------------------------------------------------------
Init == /\ KubeletInit
        /\ at = [p \in Pods |-> "idle"] /\ qosCM = "nil" /\ toolkit = [p \in Pods |-> {}]
        /\ cgroup = [p \in Pods |-> {}]

\* The kubelet makes the cgroup of a pod, unless it has none for pods.
MakeCgroup(p) == /\ Cardinality(LiveKubelets) = 1
                 /\ KubeletsOwn["cgroups-per-qos"] = "true"
                 /\ cgroup[p] = {}
                 /\ cgroup' = [cgroup EXCEPT ![p] = {PlacedBy(KubeletsOwn, p)}]
                 /\ UNCHANGED <<kubelet, workers>>

Crash == /\ Die("panic")
         /\ at' = [p \in Pods |-> "idle"] /\ qosCM' = "nil" /\ toolkit' = [p \in Pods |-> {}]

Goto(p, next) == at' = [at EXCEPT ![p] = next]

\* Mutant: a worker that does not wait for the server.
TickEarly(p) == /\ at[p] = "idle"
                /\ Goto(p, "root")
                /\ UNCHANGED <<kubelet, qosCM, toolkit, cgroup>>

\* initCadvisorInterface panics if cadvisor cannot be made, and if it is given
\* the nil of a failed UnsecuredDependencies.
InitCadvisorPanics == Fail /\ Crash

\* Ticker, and buildCgroupMgr as far as cadvisor.  UnsecuredDependencies is
\* called twice: a failure of the second call ends the tick, but one of the
\* first is not looked at, and its nil goes to initCadvisorInterface.
Tick(p) ==
    /\ pc = "run" /\ at[p] = "idle"
    /\ \/ Goto(p, "root") /\ UNCHANGED <<kubelet, qosCM, toolkit>>
       \/ Fail /\ UNCHANGED <<node, changes, fresh, process, workers>>
       \/ InitCadvisorPanics
    /\ UNCHANGED cgroup

\* getReservedCPUs: the list can be read and names CPUs that are there.
ReservedCPUsOk(c) == c["reserved-cpus"] # "bad"

\* CgroupRoot, which needs a value.
DefaultRoot(c) ==
    IF c["cgroups-per-qos"] = "true" /\ c["cgroup-root"] = ""
    THEN [c EXCEPT !["cgroup-root"] = "/"] ELSE c

\* newCgroupManager as far as getReservedCPUs.  MachineInfo may fail.
ReadReserved(p) ==
    /\ at[p] = "root"
    /\ server' = DefaultRoot(server)
    /\ \/ /\ ReservedCPUsOk(server)
          /\ Goto(p, IF server["reserved-cpus"] = "" THEN "parse" ELSE "kube")
          /\ UNCHANGED fails
       \/ ~ ReservedCPUsOk(server) /\ Goto(p, "idle") /\ UNCHANGED fails
       \/ Fail /\ Goto(p, "idle")
    /\ UNCHANGED <<node, changes, fresh, pc, args, gates, died, qosCM, toolkit, cgroup>>

\* The reserved CPUs replace the cpu entries of KubeReserved and
\* SystemReserved, which are maps that all workers share: one is deleted, then
\* the other set.
DropKubeCpus(c)  == IF c["reserved-cpus"] = "" THEN c ELSE [c EXCEPT !["kube-reserved"] = "none"]
SetSystemCpus(c) == IF c["reserved-cpus"] = "" THEN c
                    ELSE [c EXCEPT !["system-reserved"] = "reserved cpus"]

WriteReserved(p) ==
    /\ \/ at[p] = "kube" /\ server' = DropKubeCpus(server) /\ Goto(p, "system")
       \/ at[p] = "system" /\ server' = SetSystemCpus(server) /\ Goto(p, "parse")
    /\ UNCHANGED <<node, changes, fresh, pc, args, gates, died, fails, qosCM, toolkit, cgroup>>

\* Two workers at the same maps, one of them writing: the Go runtime ends the
\* process when it notices.
MapRace == /\ \E p, q \in Pods : /\ p # q /\ at[p] \in {"kube", "system"}
                              /\ at[q] \in {"kube", "system", "parse"}
           /\ Fail
           /\ Crash
           /\ UNCHANGED cgroup

\* parseResourceList on the cpu entries of KubeReserved and SystemReserved.
ParseResourceListsOk(c) == "bad" \notin {c["kube-reserved"], c["system-reserved"]}

\* The conditions of newCgroupManager that depend on the configuration only.
Usable(c, g) ==
    /\ ParseResourceListsOk(c)
    /\ c["eviction-hard"] # "bad"
    /\ c["policy-options"] # "nil" => g["PolicyOptions"] # "false"
    /\ c["cgroups-per-qos"] = "true" => c["cgroup-root"] \notin {"", "missing"}

\* The rest of newCgroupManager: an error, or a QoS manager for everybody.
\* Without cgroups-per-qos it knows no names; the error of its Start is not
\* looked at, and leaves it without names too.
NewCgroupManager(p) ==
    /\ at[p] = "parse"
    /\ \/ /\ Usable(server, gates)
          /\ qosCM' = IF server["cgroups-per-qos"] = "true" THEN "full" ELSE "empty"
          /\ Goto(p, "name") /\ UNCHANGED fails
       \/ Usable(server, gates) /\ Fail /\ qosCM' = "empty" /\ Goto(p, "name")
       \/ ~ Usable(server, gates) /\ Goto(p, "idle") /\ UNCHANGED <<qosCM, fails>>
       \/ Fail /\ Goto(p, "idle") /\ UNCHANGED qosCM
    /\ UNCHANGED <<node, changes, fresh, process, toolkit, cgroup>>

\* GetPodContainerName on whatever qosCM is now; NewToolkit and its Init,
\* which reads the cgroup's files.
MakeToolkit(p) ==
    /\ at[p] = "name"
    /\ Goto(p, "idle")
    /\ LET path == BuildCgroupPath(GetPodContainerName(p), server["cgroup-driver"])
       IN  \/ /\ toolkit[p] = {} /\ path \in Existing
              /\ toolkit' = [toolkit EXCEPT ![p] = {path}] /\ UNCHANGED fails
           \/ /\ toolkit[p] = {} /\ path \notin Existing
              /\ UNCHANGED <<toolkit, fails>>
           \/ toolkit[p] = {} /\ Fail /\ UNCHANGED toolkit
           \/ toolkit[p] # {} /\ UNCHANGED <<toolkit, fails>>
    /\ UNCHANGED <<node, changes, fresh, process, qosCM, cgroup>>

-----------------------------------------------------------------------------
Worker(p) == \/ Tick(p) \/ ReadReserved(p) \/ WriteReserved(p)
             \/ NewCgroupManager(p) \/ MakeToolkit(p)

Main == (GetKubeletServer \/ Restart) /\ UNCHANGED <<workers, cgroup>>

Next == \/ Main
        \/ ChangeNode /\ UNCHANGED <<workers, cgroup>>
        \/ MapRace
        \/ \E p \in Pods : MakeCgroup(p) \/ Worker(p)

\* The DaemonSet restarts the process, main() and every worker's goroutine go
\* on, and a worker that is not given events has its ticks.
Fairness == WF_vars(Main) /\ \A p \in Pods : WF_vars(Worker(p))

Spec == Init /\ [][Next]_vars /\ Fairness
-----------------------------------------------------------------------------
Paths == [form : Words \cup {"cgroupfs", "systemd"},
          name : Seq(Words \cup {"kubepods"} \cup Classes \cup Pods)]

TypeOK ==
    /\ KubeletTypeOK
    /\ at \in [Pods -> {"idle", "root", "kube", "system", "parse", "name"}]
    /\ qosCM \in {"nil", "empty", "full"}
    /\ toolkit \in [Pods -> SUBSET Paths] /\ cgroup \in [Pods -> SUBSET Paths]
    /\ pc # "run" => at = [p \in Pods |-> "idle"] /\ toolkit = [p \in Pods |-> {}]

\* A configuration as it is once it has been used.
InUse(c) == SetSystemCpus(DropKubeCpus(DefaultRoot(c)))

\* What the agent could know of the kubelet's configuration: for the keys that
\* a drop-in file decides, it has something of its own.
KnownOfKubelets == [k \in Keys |-> IF k \in FromDropIns THEN server[k] ELSE KubeletsOwn[k]]

(***************************************************************************)
(* The server that all workers share is the configuration that the node's  *)
(* only kubelet works with, on every key that no drop-in file decides, as  *)
(* long as the node has not changed since the agent began: flags over file *)
(* over defaults, gates merged, whatever the workers, which write to it    *)
(* without a lock, have done to it since.  With a second parse the process *)
(* has its feature gates too.                                              *)
(***************************************************************************)
ServerIsKubelets ==
    pc = "run" /\ fresh /\ Cardinality(LiveKubelets) = 1 =>
        /\ InUse(server) = InUse(KnownOfKubelets)
        /\ Names(args, "config") \/ Names(args, "config-dir") =>
              \A g \in Gates \ FromDropIns : gates[g] = KubeletsOwn[g]

(***************************************************************************)
(* A toolkit is made on the cgroup that the kubelet made for the worker's  *)
(* own pod and on no other: not on a parent that a QoS manager of another  *)
(* worker, a failed Start, a drop-in file that the agent has not read or a *)
(* kubelet that has changed since would lead to.                           *)
(***************************************************************************)
ToolkitOnItsCgroup == \A p \in Pods : toolkit[p] \subseteq cgroup[p]

\* The name of a pod's cgroup ends in the pod's own part.
CgroupsNamed ==
    \A p \in Pods : \A x \in cgroup[p] : x.name # <<>> /\ x.name[Len(x.name)] = p

(***************************************************************************)
(* What getKubeletServer has put together at each of its steps comes from  *)
(* the command line of the node's only kubelet, not of a defunct one and   *)
(* not of one that was cut at its blanks, and each pod's cgroup can be     *)
(* told from its name.                                                     *)
(***************************************************************************)
IInv == ReadFromKubelet /\ CgroupsNamed

\* Nothing about the node keeps the agent from finding p's cgroup.
CommandLineOk ==
    /\ GetProcessListOk /\ Cardinality(LiveKubelets) = 1
    /\ KubeletArgs = KubeletArgv /\ KubeletArgs # <<>>
    /\ Given(KubeletArgs, "") = {}
    /\ IF Names(KubeletArgs, "config") \/ Names(KubeletArgs, "config-dir")
       THEN /\ Parses(KubeletArgs, KubeletFlags)
            /\ Names(KubeletArgs, "config") => node.fileOk
            /\ \A g \in Gates \ KnownGates : WithoutDropIns[g] = Unset
       ELSE Parses(KubeletArgs, KubeletFlags \cup AdaptFlags)

\* Nor does its configuration.  A drop-in file that names another cgroup root
\* or driver would: the agent looks where the cgroup would be without it.
Reachable(p) ==
    /\ fresh /\ CommandLineOk
    /\ WithoutDropIns["cgroups-per-qos"] = "true"
    /\ ReservedCPUsOk(WithoutDropIns)
    /\ Usable(InUse(WithoutDropIns), gates)
    /\ cgroup[p] = {PlacedBy(KubeletsOwn, p)} /\ PlacedBy(KubeletsOwn, p) = PlacedBy(WithoutDropIns, p)

(***************************************************************************)
(* If nothing about the node keeps the agent from it for ever, be it the   *)
(* list of processes, the command line, the file or a drop-in file that    *)
(* moves the cgroups, the worker of a pod gets its toolkit and keeps it,   *)
(* in spite of crashes, of other workers that replace qosCM in between and *)
(* of failures that pass.  Ticks are assumed, and a worker that goes on.   *)
(***************************************************************************)
EveryPodGetsToolkit ==
    \A p \in Pods : <>[]Reachable(p) => <>[](toolkit[p] # {})
=============================================================================
