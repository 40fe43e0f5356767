------------------------------ MODULE MCKubelet ------------------------------
(* CgroupManager for TLC: two pods of different classes and 22 nodes.      *)
EXTENDS CgroupManager, TLC

CONSTANTS p1, p2

MCWords == STRING
MCPods  == {p1, p2}
MCQos   == p1 :> "Guaranteed" @@ p2 :> "Burstable"

MCDefaults ==
    [k \in Keys |-> CASE k = "cgroup-driver"   -> "cgroupfs"
                      [] k = "cgroups-per-qos" -> "true"
                      [] k = "eviction-hard"   -> "DefaultEvictionHard"
                      [] k = "policy-options"  -> "nil"
                      [] k \in {"kube-reserved", "system-reserved"} -> "none"
                      [] k \in Gates           -> Unset
                      [] OTHER                 -> ""]

F(flag, val) == [flag |-> flag, val |-> val, blank |-> FALSE]
Kubelet(as)  == [comm |-> "kubelet", live |-> TRUE, short |-> FALSE, argv |-> as]
Other        == [comm |-> "other", live |-> TRUE, short |-> FALSE, argv |-> <<F("other", "")>>]
Kworker      == [comm |-> "kworker", live |-> TRUE, short |-> TRUE, argv |-> <<>>]
Defunct      == [comm |-> "kubelet", live |-> FALSE, short |-> FALSE, argv |-> <<Stray, Stray>>]

\* Configuration files, with what they say.
Systemd == [NoConfiguration EXCEPT !["cgroup-driver"] = "systemd", !["MemoryQoS"] = "true",
                                   !["policy-options"] = "set"]
OldGate == [NoConfiguration EXCEPT !["OldGate"] = "true"]
NoQos   == [NoConfiguration EXCEPT !["cgroups-per-qos"] = "false"]

\* Drop-in files: the first moves the cgroups, the second leaves them alone.
MovedIn  == [NoConfiguration EXCEPT !["cgroup-driver"] = "systemd", !["cgroup-root"] = "/pods"]
KeptHere == [NoConfiguration EXCEPT !["reserved-cpus"] = "0-1", !["MemoryQoS"] = "false"]

Config  == F("config", "/etc/kubelet.yaml")
DropIns == F("config-dir", "/etc/kubelet.d")

Node1(procs, file) ==
    [procs |-> procs, fileOk |-> TRUE, file |-> file, dropIn |-> NoConfiguration]
One(as, file)      == Node1(<<Other, Kubelet(as)>>, file)

\* The nodes on which the agent can work: flags only; a file, flags that partly
\* replace it and drop-in files that do not move the cgroups; reserved CPUs; a
\* kubelet of 1.26 without a file.
GoodNodes ==
    {One(<<F("cgroup-driver", "cgroupfs"), F("cgroup-root", "/pods"), F("cgroup-driver", "systemd")>>,
         NoConfiguration),
     [One(<<Config, F("PolicyOptions", "true"), DropIns>>, Systemd) EXCEPT !.dropIn = KeptHere],
     One(<<F("cgroup-driver", "cgroupfs"), Config, F("reserved-cpus", "0-1"), F("kube-reserved", "bad")>>,
         Systemd),
     One(<<F("container-runtime", "remote")>>, NoConfiguration)}

\* A kubelet of 1.26 with a file.
OldNodes == {One(<<F("container-runtime", "remote"), Config>>, Systemd)}

\* Those on which it cannot: what is wrong is in the list of processes, on
\* the command line, in the file, in a drop-in file, or in what they ask for.
BadNodes ==
    {Node1(<<Other>>, NoConfiguration),
     One(<<>>, NoConfiguration),
     Node1(<<Defunct, Kubelet(<<Config>>)>>, Systemd),
     Node1(<<Kworker, Kubelet(<<Config>>)>>, Systemd),
     One(<<[F("other", "") EXCEPT !.blank = TRUE]>>, NoConfiguration),
     One(<<F("removed flag", "")>>, NoConfiguration),
     [One(<<Config>>, Systemd) EXCEPT !.fileOk = FALSE],
     One(<<DropIns, F("OldGate", "true")>>, NoConfiguration),
     [One(<<DropIns>>, NoConfiguration) EXCEPT !.dropIn = MovedIn],
     One(<<Config>>, OldGate),
     One(<<Config>>, NoQos),
     One(<<F("eviction-hard", "bad")>>, NoConfiguration),
     One(<<F("kube-reserved", "bad")>>, NoConfiguration),
     One(<<F("cgroups-per-qos", "yes")>>, NoConfiguration),
     One(<<Config, F("PolicyOptions", "false")>>, Systemd),
     One(<<F("reserved-cpus", "bad")>>, NoConfiguration),
     One(<<F("cgroup-root", "missing")>>, NoConfiguration)}

AllNodes == GoodNodes \cup OldNodes \cup BadNodes
=============================================================================
