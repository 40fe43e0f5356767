------------------------------- MODULE Kubelet -------------------------------
(***************************************************************************)
(* How the agent learns the configuration of the node's kubelet:           *)
(* getKubeletServer of pkg/kubelet/cmd.go, with GetProcessList of          *)
(* pkg/util/ps.go and loadConfigFile and kubeletConfigFlagPrecedence of    *)
(* pkg/kubelet/server_linux.go.  The list of processes gives the kubelet's *)
(* command line; its flags are parsed over the defaults, then the file     *)
(* that --config names replaces the result, then the flags are parsed      *)
(* again over the file.  It is done once in the life of the process.       *)
(*                                                                         *)
(* Meanwhile kubelets come and go: one may be replaced by another, with    *)
(* other flags or another file, between any two steps.                     *)
(***************************************************************************)
EXTENDS Naturals, Sequences, FiniteSets, FiniteSetsExt

CONSTANTS Words,       \* what may stand on a command line or in a file
          Nodes,       \* the processes and configuration files a node may have
          Defaults,    \* a configuration without flags and file
          MaxChanges,  \* bound: times the node changes
          MaxFails     \* bound: transient failures

\* The configuration: the flags that matter here, by name, and feature gates.
Fields == {"cgroup-root", "cgroup-driver", "cgroups-per-qos", "reserved-cpus",
           "kube-reserved", "system-reserved", "eviction-hard", "policy-options"}
Gates  == {"PolicyOptions", "MemoryQoS", "OldGate"}
Keys   == Fields \cup Gates

\* Gates that the agent's libraries know, and the value of a key not given.
KnownGates == {"PolicyOptions", "MemoryQoS"}
Unset      == "unset"

Configuration == [Keys -> Words]

\* An argument is a flag with its value, or with the flag "" a word that
\* belongs to no flag.  A gate stands for its entry in --feature-gates, and
\* "other" for the flags that are not kept.  blank: the value has a blank.
\* dropIn: the drop-in files in the directory that --config-dir names.
Arg     == [flag : Words, val : Words \ {Unset}, blank : BOOLEAN]
Process == [comm : Words, live : BOOLEAN, short : BOOLEAN, argv : Seq(Arg)]
Node    == [procs : Seq(Process), fileOk : BOOLEAN, file : Configuration, dropIn : Configuration]

ASSUME KubeletConstants ==
    /\ {"", "/", "cut", Unset, "none", "reserved cpus", "DefaultEvictionHard"} \subseteq Words
    /\ Nodes \subseteq Node
    /\ Defaults \in Configuration /\ \A g \in Gates : Defaults[g] = Unset
    /\ MaxChanges \in Nat /\ MaxFails \in Nat

VARIABLES
    node,     \* the node the agent runs on
    changes,  \* times it has changed
    fresh,    \* history: it has not changed since the agent's process began
    pc,       \* where getKubeletServer is; "run" once it has returned
    args,     \* the arguments that were read
    server,   \* the KubeletServer: kubeletConfig while it is put together
    gates,    \* DefaultFeatureGate
    died,     \* how the process last ended
    fails     \* transient failures so far

process == <<pc, args, server, gates, died>>
kubelet == <<node, changes, fresh, process, fails>>

-----------------------------------------------------------------------------
(* GetProcessList: "ps -e -o comm,cmd", and each line cut at its blanks.   *)

Stray == [flag |-> "", val |-> "", blank |-> FALSE]

\* The words after the command: a value with a blank in it is cut there.  What
\* follows the blank is taken to be no flag: no value has " --" in it.
CutAtBlanks(argv) ==
    [i \in DOMAIN argv |-> IF argv[i].blank THEN [argv[i] EXCEPT !.val = "cut", !.blank = FALSE]
                                            ELSE argv[i]]
    \o (IF \E i \in DOMAIN argv : argv[i].blank THEN <<Stray>> ELSE <<>>)

\* One line with fewer than two words, and there is no list at all; a ps that
\* cannot be run has the same effect.
GetProcessListOk == \A i \in DOMAIN node.procs : ~ node.procs[i].short

\* The arguments of the first process that is called kubelet.
KubeletArgs == LET found == {i \in DOMAIN node.procs : node.procs[i].comm = "kubelet"}
               IN  IF found = {} THEN <<>> ELSE CutAtBlanks(node.procs[Min(found)].argv)

-----------------------------------------------------------------------------
(* Flag sets (pflag, external) and the configuration they are parsed into. *)

KubeletFlags == Keys \cup {"config", "config-dir", "other"}

\* The flags of kubelets before 1.27 that cleanFlagSet is given as well.
AdaptFlags == {"container-runtime"}

\* Parse succeeds if it knows every flag and can read its value; a word that
\* belongs to no flag is kept for Args().
Parses(as, flags) ==
    \A i \in DOMAIN as :
        /\ as[i].flag \in flags \cup {""}
        /\ as[i].flag = "cgroups-per-qos" => as[i].val \in {"true", "false"}

\* Where a flag is given; its value, the last one; and whether it names a file.
Given(as, k)    == {i \in DOMAIN as : as[i].flag = k}
LastVal(as, k)  == as[Max(Given(as, k))].val
Names(as, flag) == Given(as, flag) # {} /\ LastVal(as, flag) # ""

\* ps shows a defunct process as "[kubelet] <defunct>": words of no flag.
ASSUME DefunctIsStray ==
    \A n \in Nodes : \A i \in DOMAIN n.procs :
        ~ n.procs[i].live => Given(n.procs[i].argv, "") # {}

\* What parsing leaves in c.  The first --feature-gates replaces the map.
SetFlags(as, c) ==
    [k \in Keys |-> IF Given(as, k) # {} THEN LastVal(as, k)
                    ELSE IF k \in Gates /\ \E g \in Gates : Given(as, g) # {} THEN Unset
                    ELSE c[k]]

\* loadConfigFile: what the file leaves out has its default.  EvictionHard has
\* none in the file's scheme and is given one afterwards.
LoadConfigFile(file) ==
    [k \in Keys |-> IF file[k] # Unset \/ k \in Gates THEN file[k]
                    ELSE IF k = "eviction-hard" THEN "DefaultEvictionHard" ELSE Defaults[k]]

\* Mutant: the gates of the file are not added back.
FlagsOnly(as, c) == SetFlags(as, c)

\* kubeletConfigFlagPrecedence: the flags again, over the file; gates that
\* were in the file and not in the flags are added back.
FlagPrecedence(as, c) ==
    LET again == SetFlags(as, c)
    IN  [k \in Keys |-> IF k \in Gates /\ again[k] = Unset THEN c[k] ELSE again[k]]

-----------------------------------------------------------------------------
NoConfiguration == [k \in Keys |-> Unset]
DefaultGates    == [g \in Gates |-> Unset]

KubeletInit == /\ node \in Nodes
               /\ changes = 0 /\ fresh = TRUE
               /\ pc = "ps"
               /\ args = <<>> /\ server = NoConfiguration /\ gates = DefaultGates
               /\ died = "never"
               /\ fails = 0

\* A kubelet ends, begins or is begun with other flags; a file is edited.
ChangeNode == /\ changes < MaxChanges
              /\ node' \in Nodes \ {node}
              /\ changes' = changes + 1
              /\ fresh' = (pc = "down")
              /\ UNCHANGED <<process, fails>>

\* The process ends and nothing in its memory is left.
Die(how) == /\ pc' = "down"
            /\ args' = <<>> /\ server' = NoConfiguration /\ gates' = DefaultGates
            /\ died' = how
            /\ UNCHANGED <<node, changes, fresh>>

Restart == /\ pc = "down"
           /\ pc' = "ps" /\ fresh' = TRUE
           /\ UNCHANGED <<node, changes, args, server, gates, died, fails>>

Fail == fails < MaxFails /\ fails' = fails + 1

\* Chroot, GetProcessList, and the kubelet's arguments: everything that goes
\* wrong here panics.
ReadProcesses ==
    /\ pc = "ps"
    /\ \/ /\ GetProcessListOk /\ KubeletArgs # <<>>
          /\ args' = KubeletArgs
          /\ pc' = "flags"
          /\ UNCHANGED <<node, changes, fresh, server, gates, died, fails>>
       \/ /\ ~ GetProcessListOk \/ KubeletArgs = <<>>
          /\ Die("panic") /\ UNCHANGED fails
       \/ Fail /\ Die("panic")

\* Mutant: the words that are left over are not looked at.
ParseFlagsOnly ==
    /\ pc = "flags"
    /\ LET ok == Parses(args, KubeletFlags \cup AdaptFlags)
       IN  \/ /\ ok
              /\ server' = SetFlags(args, Defaults)
              /\ pc' = "file"
              /\ UNCHANGED <<node, changes, fresh, args, gates, died, fails>>
           \/ ~ ok /\ Die("error") /\ UNCHANGED fails

\* cleanFlagSet.Parse, then the words it has left over; main() exits on the
\* error of this and of the next two steps.
ParseFlags ==
    /\ pc = "flags"
    /\ LET ok == Parses(args, KubeletFlags \cup AdaptFlags) /\ Given(args, "") = {}
       IN  \/ /\ ok
              /\ server' = SetFlags(args, Defaults)
              /\ pc' = "file"
              /\ UNCHANGED <<node, changes, fresh, args, gates, died, fails>>
           \/ ~ ok /\ Die("error") /\ UNCHANGED fails

LoadFile ==
    /\ pc = "file"
    /\ \/ /\ Names(args, "config") => node.fileOk
          /\ server' = IF Names(args, "config") THEN LoadConfigFile(node.file) ELSE server
          /\ pc' = "precedence"
          /\ UNCHANGED <<node, changes, fresh, args, gates, died, fails>>
       \/ /\ Names(args, "config") /\ ~ node.fileOk
          /\ Die("error") /\ UNCHANGED fails

\* The flag set of the second parse ends the process on an error, and does
\* not have AdaptFlags.  Gates are set from the result, and only here.
ApplyPrecedence ==
    /\ pc = "precedence"
    /\ LET second == Names(args, "config") \/ Names(args, "config-dir")
           c      == FlagPrecedence(args, server)
           known  == \A g \in Gates \ KnownGates : c[g] = Unset
       IN  \/ /\ ~ second
              /\ pc' = "run"
              /\ UNCHANGED <<node, changes, fresh, args, server, gates, died, fails>>
           \/ /\ second /\ Parses(args, KubeletFlags) /\ known
              /\ server' = c
              /\ gates' = [g \in Gates |-> c[g]]
              /\ pc' = "run"
              /\ UNCHANGED <<node, changes, fresh, args, died, fails>>
           \/ /\ second /\ ~ Parses(args, KubeletFlags)
              /\ Die("unknown flag") /\ UNCHANGED fails
           \/ /\ second /\ Parses(args, KubeletFlags) /\ ~ known
              /\ Die("error") /\ UNCHANGED fails

GetKubeletServer == ReadProcesses \/ ParseFlags \/ LoadFile \/ ApplyPrecedence

-----------------------------------------------------------------------------
KubeletTypeOK ==
    /\ node \in Nodes /\ changes \in 0..MaxChanges /\ fresh \in BOOLEAN
    /\ pc \in {"ps", "flags", "file", "precedence", "run", "down"}
    /\ args \in Seq(Arg)
    /\ server \in Configuration /\ gates \in [Gates -> Words]
    /\ died \in {"never", "panic", "error", "unknown flag"}
    /\ fails \in 0..MaxFails

\* The node's kubelet, if there is exactly one; a defunct one does not count.
LiveKubelets == {i \in DOMAIN node.procs : node.procs[i].comm = "kubelet" /\ node.procs[i].live}
KubeletArgv  == node.procs[CHOOSE i \in LiveKubelets : TRUE].argv

\* What it would work with if there were no drop-in files: for each key its
\* last flag, or else the file, or else the default, which with a file is
\* another one for evictions.
WithoutDropIns ==
    LET hasFile    == Names(KubeletArgv, "config")
        default(k) == IF hasFile /\ k = "eviction-hard" THEN "DefaultEvictionHard" ELSE Defaults[k]
    IN  [k \in Keys |-> IF Given(KubeletArgv, k) # {} THEN LastVal(KubeletArgv, k)
                        ELSE IF hasFile /\ node.file[k] # Unset THEN node.file[k] ELSE default(k)]

\* The keys that a drop-in file decides: the kubelet merges these files over
\* the file, and the agent never reads them.
FromDropIns == {k \in Keys : /\ Names(KubeletArgv, "config-dir")
                             /\ Given(KubeletArgv, k) = {} /\ node.dropIn[k] # Unset}

\* The configuration that kubelet works with.
KubeletsOwn == [k \in Keys |-> IF k \in FromDropIns THEN node.dropIn[k] ELSE WithoutDropIns[k]]

\* Why the agent arrives at the same: while the node is as it was when the
\* agent began, each step of getKubeletServer goes on from what the steps
\* before it made of the command line of the node's only kubelet, since
\* any other command line has a word that belongs to no flag.
ReadFromKubelet ==
    /\ pc \in {"file", "precedence", "run"} => Given(args, "") = {}
    /\ fresh /\ Cardinality(LiveKubelets) = 1 =>
          /\ pc = "flags" /\ Given(args, "") = {} => args = KubeletArgv
          /\ pc \in {"file", "precedence", "run"} => args = KubeletArgv
          /\ pc = "file" => server = SetFlags(args, Defaults)
          /\ pc = "precedence" =>
                server = IF Names(args, "config") THEN LoadConfigFile(node.file)
                                                  ELSE SetFlags(args, Defaults)

(***************************************************************************)
(* "adapt 1.23.3 / 1.26 kubelet cmd-line": no agent is ended by an unknown *)
(* flag on a command line whose flags cleanFlagSet has just accepted,      *)
(* whether the second parse is needed or not.                              *)
(***************************************************************************)
AdaptsOldKubelet == died # "unknown flag"
=============================================================================
