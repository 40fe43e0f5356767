-------------------------- MODULE CgroupManagerProofs ------------------------
(***************************************************************************)
(* Type correctness of CgroupManager; that the server which the workers    *)
(* share is the configuration of the node's kubelet but for its drop-in    *)
(* files; and that a toolkit is only ever made on the cgroup of its own    *)
(* pod: for any set of nodes, with any processes, command lines and files, *)
(* any number of pods, of changes and of failures.                         *)
(***************************************************************************)
EXTENDS CgroupManager, FiniteSetTheorems, WellFoundedInduction, TLAPS

-----------------------------------------------------------------------------
(* Sets of indices.                                                        *)

\* A set of indices has a first and a last one.
LEMMA MinIndex ==
    ASSUME NEW S, S \subseteq Nat, S # {}
    PROVE  Min(S) \in S /\ \A k \in S : Min(S) <= k
<1>. DEFINE R == OpToRel(<, Nat)
<1>1. IsWellFoundedOn(R, Nat)
  BY NatLessThanWellFounded
<1>2. \A k, m \in Nat : k < m => <<k, m>> \in R
  BY DEF OpToRel
<1>. HIDE DEF R
<1>3. PICK m \in S : \A k \in S : ~ (<<k, m>> \in R)
  BY <1>1, WFMin
<1>4. ASSUME NEW k \in S PROVE m <= k
  <2>1. m \in Nat /\ k \in Nat
    OBVIOUS
  <2>2. ~ (k < m)
    BY <1>2, <1>3, <2>1
  <2>. QED  BY <2>1, <2>2
<1>. QED  BY <1>4 DEF Min

\* A nonempty set of indices has a greatest one.
LEMMA MaxIndex ==
    ASSUME NEW n \in Nat, NEW S \in SUBSET (1..n), S # {}
    PROVE  Max(S) \in S /\ \A k \in S : k <= Max(S)
<1>. DEFINE D == {n - x : x \in S}
<1>1. D \subseteq Nat /\ D # {}
  <2>1. \A x \in S : n - x \in Nat
    OBVIOUS
  <2>. QED  BY <2>1
<1>. DEFINE d == Min(D)
<1>2. d \in D /\ \A y \in D : d <= y
  BY <1>1, MinIndex
<1>. HIDE DEF d
<1>3. PICK m \in S : d = n - m
  BY <1>2
<1>4. \A x \in S : m >= x
  <2>. SUFFICES ASSUME NEW x \in S PROVE m >= x
    OBVIOUS
  <2>1. d <= n - x
    BY <1>2
  <2>. QED  BY <1>3, <2>1
<1>5. \E y \in S : \A x \in S : y >= x
  BY <1>4
<1>6. Max(S) \in S /\ \A x \in S : Max(S) >= x
  BY <1>5 DEF Max
<1>. QED  BY <1>6

\* The empty sequence, and the elements of a sequence.
LEMMA EmptySeq == ASSUME NEW S PROVE <<>> \in Seq(S)
OBVIOUS

\* A sequence is a function on its indices.
LEMMA SeqFacts ==
    ASSUME NEW S, NEW s \in Seq(S)
    PROVE  Len(s) \in Nat /\ DOMAIN s = 1..Len(s) /\ \A i \in DOMAIN s : s[i] \in S
OBVIOUS

\* A sequence and one more element, or none.
LEMMA ConcatFacts ==
    ASSUME NEW S, NEW s \in Seq(S), NEW e \in S
    PROVE  /\ s \o <<e>> \in Seq(S) /\ s \o <<>> = s
           /\ DOMAIN (s \o <<e>>) = 1..(Len(s) + 1)
           /\ \A i \in 1..Len(s) : (s \o <<e>>)[i] = s[i]
           /\ (s \o <<e>>)[Len(s) + 1] = e
OBVIOUS

\* A sequence that ends in e.
LEMMA EndsIn ==
    ASSUME NEW S, NEW s \in Seq(S), NEW e \in S
    PROVE  /\ s \o <<e>> \in Seq(S) /\ s \o <<e>> # <<>>
           /\ (s \o <<e>>)[Len(s \o <<e>>)] = e
<1>1. <<e>> \in Seq(S) /\ Len(<<e>>) = 1 /\ <<e>>[1] = e
  OBVIOUS
<1>2. s \o <<e>> \in Seq(S) /\ Len(s \o <<e>>) = Len(s) + 1 /\ Len(s) \in Nat
  BY <1>1
<1>3. (s \o <<e>>)[Len(s) + 1] = e
  OBVIOUS
<1>4. s \o <<e>> # <<>>
  BY <1>2
<1>. QED  BY <1>2, <1>3, <1>4

-----------------------------------------------------------------------------
(* Command lines and configurations.                                       *)

\* The value of a flag that is given is a string, and is not Unset.
LEMMA LastValType ==
    ASSUME NEW as \in Seq(Arg), NEW k, Given(as, k) # {}
    PROVE  LastVal(as, k) \in Words \ {Unset}
<1>0. Len(as) \in Nat /\ DOMAIN as = 1..Len(as) /\ \A i \in DOMAIN as : as[i] \in Arg
  BY SeqFacts
<1>1. Given(as, k) \in SUBSET (1..Len(as))
  BY <1>0 DEF Given
<1>2. Max(Given(as, k)) \in Given(as, k)
  BY <1>0, <1>1, MaxIndex
<1>3. Max(Given(as, k)) \in DOMAIN as
  BY <1>2 DEF Given
<1>4. as[Max(Given(as, k))] \in Arg
  BY <1>0, <1>3
<1>. QED  BY <1>4 DEF LastVal, Arg

\* A command line without words of no flag is read as it is.
LEMMA CutKeeps ==
    ASSUME NEW argv \in Seq(Arg)
    PROVE  /\ CutAtBlanks(argv) \in Seq(Arg)
           /\ Given(argv, "") # {} => Given(CutAtBlanks(argv), "") # {}
           /\ Given(CutAtBlanks(argv), "") = {} => CutAtBlanks(argv) = argv
<1>. DEFINE c == [i \in DOMAIN argv |->
                     IF argv[i].blank THEN [argv[i] EXCEPT !.val = "cut", !.blank = FALSE]
                                      ELSE argv[i]]
            t == IF \E i \in DOMAIN argv : argv[i].blank THEN <<Stray>> ELSE <<>>
<1>1. Len(argv) \in Nat /\ DOMAIN argv = 1..Len(argv) /\ \A i \in DOMAIN argv : argv[i] \in Arg
  OBVIOUS
<1>2. \A i \in DOMAIN argv : c[i] \in Arg /\ c[i].flag = argv[i].flag
  <2>. SUFFICES ASSUME NEW i \in DOMAIN argv PROVE c[i] \in Arg /\ c[i].flag = argv[i].flag
    OBVIOUS
  <2>1. argv[i] \in Arg
    BY <1>1
  <2>2. "cut" \in Words \ {Unset}
    BY KubeletConstants DEF Unset
  <2>3. CASE argv[i].blank
    <3>. DEFINE a == argv[i]
                b == [a EXCEPT !.val = "cut"]
    <3>1. b \in Arg /\ b.flag = a.flag
      BY <2>1, <2>2 DEF Arg
    <3>2. c[i] = [b EXCEPT !.blank = FALSE]
      BY <2>3
    <3>. HIDE DEF b, c
    <3>. QED  BY <3>1, <3>2 DEF Arg
  <2>4. CASE ~ argv[i].blank
    BY <2>1, <2>4
  <2>. QED  BY <2>3, <2>4
<1>3. c \in Seq(Arg) /\ Len(c) = Len(argv) /\ DOMAIN c = DOMAIN argv
  <2>1. c \in [1..Len(argv) -> Arg]
    BY <1>1, <1>2
  <2>. HIDE DEF c
  <2>. QED  BY <1>1, <2>1
<1>4. Stray \in Arg /\ Stray.flag = ""
  BY KubeletConstants DEF Stray, Arg, Unset
<1>5. CutAtBlanks(argv) = c \o t
  BY DEF CutAtBlanks
<1>. DEFINE w == CutAtBlanks(argv)
<1>6. CASE \E i \in DOMAIN argv : argv[i].blank
  <2>1. t = <<Stray>>
    BY <1>6
  <2>. HIDE DEF c, t
  <2>2. w = c \o <<Stray>>
    BY <1>5, <2>1
  <2>. DEFINE n == Len(argv)
              x == Stray
  <2>. HIDE DEF w, n, x
  <2>3. w \in Seq(Arg) /\ DOMAIN w = 1..(n + 1) /\ w[n + 1] = x
    <3>1. c \in Seq(Arg) /\ x \in Arg /\ Len(c) = n /\ w = c \o <<x>>
      BY <1>3, <1>4, <2>2 DEF n, x
    <3>. QED  BY <3>1, ConcatFacts
  <2>4. n + 1 \in DOMAIN w
    BY <1>1, <2>3 DEF n
  <2>5. Given(w, "") # {}
    BY <1>4, <2>3, <2>4 DEF Given, x
  <2>. QED  BY <2>3, <2>5 DEF w
<1>7. CASE ~ \E i \in DOMAIN argv : argv[i].blank
  <2>1. t = <<>>
    BY <1>7
  <2>2. \A i \in DOMAIN argv : c[i] = argv[i]
    BY <1>7
  <2>. HIDE DEF c, t
  <2>3. c = argv
    BY <1>1, <1>3, <2>2
  <2>4. w = argv
    BY <1>4, <1>5, <2>1, <2>3, ConcatFacts
  <2>. QED  BY <2>4
<1>. QED  BY <1>6, <1>7

\* The node, its processes and its file.
LEMMA NodeFacts ==
    ASSUME node \in Nodes
    PROVE  /\ Len(node.procs) \in Nat /\ DOMAIN node.procs = 1..Len(node.procs)
           /\ DOMAIN node.procs \subseteq Nat
           /\ \A i \in DOMAIN node.procs : /\ node.procs[i] \in Process
                                           /\ node.procs[i].argv \in Seq(Arg)
                                           /\ node.procs[i].live \in BOOLEAN
           /\ node.file \in Configuration /\ node.dropIn \in Configuration
<1>1. /\ node.procs \in Seq(Process)
      /\ node.file \in Configuration /\ node.dropIn \in Configuration
  BY KubeletConstants DEF Node
<1>2. /\ Len(node.procs) \in Nat /\ DOMAIN node.procs = 1..Len(node.procs)
      /\ \A i \in DOMAIN node.procs : node.procs[i] \in Process
  BY <1>1, SeqFacts
<1>3. DOMAIN node.procs \subseteq Nat
  BY <1>2
<1>. QED  BY <1>1, <1>2, <1>3 DEF Process

\* What the agent reads of the process list is a command line.
LEMMA KubeletArgsType == ASSUME node \in Nodes PROVE KubeletArgs \in Seq(Arg)
<1>. DEFINE F == {i \in DOMAIN node.procs : node.procs[i].comm = "kubelet"}
<1>1. CASE F = {}
  BY <1>1 DEF KubeletArgs
<1>2. CASE F # {}
  <2>1. F \subseteq Nat
    BY NodeFacts
  <2>2. Min(F) \in F
    BY <1>2, <2>1, MinIndex
  <2>3. Min(F) \in DOMAIN node.procs
    BY <2>2
  <2>4. KubeletArgs = CutAtBlanks(node.procs[Min(F)].argv)
    BY <1>2 DEF KubeletArgs
  <2>5. node.procs[Min(F)].argv \in Seq(Arg)
    BY <2>3, NodeFacts
  <2>. QED  BY <2>4, <2>5, CutKeeps
<1>. QED  BY <1>1, <1>2

\* The node's only kubelet.
LEMMA TheKubelet ==
    ASSUME node \in Nodes, Cardinality(LiveKubelets) = 1
    PROVE  \E i \in DOMAIN node.procs : /\ node.procs[i].comm = "kubelet"
                                        /\ LiveKubelets = {i}
                                        /\ KubeletArgv = node.procs[i].argv
                                        /\ KubeletArgv \in Seq(Arg)
<1>1. LiveKubelets \in SUBSET (1..Len(node.procs)) /\ Len(node.procs) \in Nat
  BY NodeFacts DEF LiveKubelets
<1>2. IsFiniteSet(1..Len(node.procs))
  BY <1>1, FS_Interval
<1>3. IsFiniteSet(LiveKubelets)
  BY <1>1, <1>2, FS_Subset
<1>4. PICK i : LiveKubelets = {i}
  BY <1>3, FS_Singleton
<1>5. i \in DOMAIN node.procs /\ node.procs[i].comm = "kubelet"
  BY <1>4 DEF LiveKubelets
<1>6. (CHOOSE j \in LiveKubelets : TRUE) = i
  BY <1>4
<1>7. KubeletArgv = node.procs[i].argv
  BY <1>6 DEF KubeletArgv
<1>. QED  BY <1>4, <1>5, <1>7, NodeFacts

\* What the agent reads without a word of no flag is the command line of the
\* node's only kubelet: a defunct kubelet that comes first in the list, and a
\* value that was cut, leave such words.
LEMMA ReadsTheKubelet ==
    ASSUME node \in Nodes, Cardinality(LiveKubelets) = 1, Given(KubeletArgs, "") = {}
    PROVE  KubeletArgs = KubeletArgv
<1>. DEFINE F == {i \in DOMAIN node.procs : node.procs[i].comm = "kubelet"}
<1>1. PICK i \in DOMAIN node.procs : /\ node.procs[i].comm = "kubelet"
                                     /\ LiveKubelets = {i}
                                     /\ KubeletArgv = node.procs[i].argv
  BY TheKubelet
<1>2. i \in F /\ F \subseteq Nat
  <2>1. F \subseteq DOMAIN node.procs /\ i \in F
    BY <1>1
  <2>2. DOMAIN node.procs \subseteq Nat
    BY NodeFacts
  <2>. QED  BY <2>1, <2>2
<1>. DEFINE j == Min(F)
<1>3. j \in F
  BY <1>2, MinIndex
<1>4. KubeletArgs = CutAtBlanks(node.procs[j].argv)
  BY <1>2 DEF KubeletArgs
<1>. HIDE DEF j
<1>5. j \in DOMAIN node.procs /\ node.procs[j].comm = "kubelet" /\ node.procs[j].argv \in Seq(Arg)
  BY <1>3, NodeFacts
<1>6. KubeletArgs = node.procs[j].argv /\ Given(node.procs[j].argv, "") = {}
  BY <1>4, <1>5, CutKeeps
<1>7. node.procs[j].live
  BY <1>5, <1>6, DefunctIsStray
<1>8. j = i
  BY <1>1, <1>5, <1>7 DEF LiveKubelets
<1>. QED  BY <1>1, <1>6, <1>8

\* What parsing and loading make are configurations.
LEMMA ConfigurationTypes ==
    ASSUME NEW as \in Seq(Arg), NEW c \in Configuration
    PROVE  /\ SetFlags(as, c) \in Configuration
           /\ LoadConfigFile(c) \in Configuration
           /\ FlagPrecedence(as, c) \in Configuration
           /\ DefaultRoot(c) \in Configuration
           /\ DropKubeCpus(c) \in Configuration /\ SetSystemCpus(c) \in Configuration
<1>1. \A k \in Keys : Given(as, k) # {} => LastVal(as, k) \in Words
  BY LastValType
<1>2. /\ Unset \in Words /\ "DefaultEvictionHard" \in Words /\ "/" \in Words
      /\ "none" \in Words /\ "reserved cpus" \in Words
      /\ \A k \in Keys : c[k] \in Words /\ Defaults[k] \in Words
  BY KubeletConstants DEF Configuration
<1>3. SetFlags(as, c) \in Configuration
  BY <1>1, <1>2 DEF SetFlags, Configuration
<1>4. LoadConfigFile(c) \in Configuration
  BY <1>2 DEF LoadConfigFile, Configuration
<1>5. FlagPrecedence(as, c) \in Configuration
  <2>. DEFINE d == SetFlags(as, c)
  <2>1. \A k \in Keys : d[k] \in Words
    BY <1>3 DEF Configuration
  <2>2. FlagPrecedence(as, c) = [k \in Keys |-> IF k \in Gates /\ d[k] = Unset THEN c[k] ELSE d[k]]
    BY DEF FlagPrecedence
  <2>. HIDE DEF d
  <2>. QED  BY <1>2, <2>1, <2>2 DEF Configuration
<1>6. DefaultRoot(c) \in Configuration
  BY <1>2 DEF DefaultRoot, Configuration
<1>7. DropKubeCpus(c) \in Configuration /\ SetSystemCpus(c) \in Configuration
  BY <1>2 DEF DropKubeCpus, SetSystemCpus, Configuration
<1>. QED  BY <1>3, <1>4, <1>5, <1>6, <1>7

\* The kubelet's own configuration is one.
LEMMA KubeletsOwnType ==
    ASSUME node \in Nodes, Cardinality(LiveKubelets) = 1
    PROVE  KubeletsOwn \in Configuration /\ WithoutDropIns \in Configuration
<1>1. KubeletArgv \in Seq(Arg)
  BY TheKubelet
<1>2. \A k \in Keys : Given(KubeletArgv, k) # {} => LastVal(KubeletArgv, k) \in Words
  BY <1>1, LastValType
<1>3. /\ "DefaultEvictionHard" \in Words
      /\ \A k \in Keys : node.file[k] \in Words /\ node.dropIn[k] \in Words /\ Defaults[k] \in Words
  BY KubeletConstants, NodeFacts DEF Configuration
<1>4. WithoutDropIns \in Configuration
  BY <1>2, <1>3 DEF WithoutDropIns, Configuration
<1>. QED  BY <1>3, <1>4 DEF KubeletsOwn, Configuration

\* The steps of getKubeletServer, from the kubelet's own command line, arrive
\* at the kubelet's own configuration but for drop-in files, with one parse
\* and with two.
LEMMA OneParse ==
    ASSUME node \in Nodes, Cardinality(LiveKubelets) = 1, ~ Names(KubeletArgv, "config")
    PROVE  SetFlags(KubeletArgv, Defaults) = WithoutDropIns
<1>1. \A k \in Gates : Defaults[k] = Unset
  BY KubeletConstants
<1>2. \A k \in Keys : SetFlags(KubeletArgv, Defaults)[k] = WithoutDropIns[k]
  BY <1>1 DEF SetFlags, WithoutDropIns
<1>. QED  BY <1>2 DEF SetFlags, WithoutDropIns

\* What the agent keeps after both of its parses is what the one kubelet of
\* the node would work with if there were no drop-in files.
LEMMA TwoParses ==
    ASSUME node \in Nodes, Cardinality(LiveKubelets) = 1
    PROVE  FlagPrecedence(KubeletArgv,
               IF Names(KubeletArgv, "config") THEN LoadConfigFile(node.file)
                                               ELSE SetFlags(KubeletArgv, Defaults)) = WithoutDropIns
<1>. DEFINE as == KubeletArgv
            c  == IF Names(as, "config") THEN LoadConfigFile(node.file) ELSE SetFlags(as, Defaults)
            d  == SetFlags(as, c)
<1>0. as \in Seq(Arg)
  BY TheKubelet
<1>1. \A k \in Keys : Given(as, k) # {} => LastVal(as, k) # Unset
  BY <1>0, LastValType
<1>2. \A k \in Gates : Defaults[k] = Unset
  BY KubeletConstants
<1>3. "eviction-hard" \notin Gates /\ Gates \subseteq Keys
  BY DEF Gates, Keys
<1>4. FlagPrecedence(as, c) = [k \in Keys |-> IF k \in Gates /\ d[k] = Unset THEN c[k] ELSE d[k]]
  BY DEF FlagPrecedence
<1>5. ASSUME NEW k \in Keys
      PROVE  d[k] = IF Given(as, k) # {} THEN LastVal(as, k)
                    ELSE IF k \in Gates /\ \E g \in Gates : Given(as, g) # {} THEN Unset
                    ELSE c[k]
  BY DEF SetFlags
<1>6. ASSUME NEW k \in Keys
      PROVE  c[k] = IF Names(as, "config")
                    THEN IF node.file[k] # Unset \/ k \in Gates THEN node.file[k]
                         ELSE IF k = "eviction-hard" THEN "DefaultEvictionHard" ELSE Defaults[k]
                    ELSE IF Given(as, k) # {} THEN LastVal(as, k)
                    ELSE IF k \in Gates /\ \E g \in Gates : Given(as, g) # {} THEN Unset
                    ELSE Defaults[k]
  BY DEF SetFlags, LoadConfigFile
<1>7. ASSUME NEW k \in Keys
      PROVE  WithoutDropIns[k] =
                 IF Given(as, k) # {} THEN LastVal(as, k)
                 ELSE IF Names(as, "config") /\ node.file[k] # Unset THEN node.file[k]
                 ELSE IF Names(as, "config") /\ k = "eviction-hard" THEN "DefaultEvictionHard"
                 ELSE Defaults[k]
  BY DEF WithoutDropIns
<1>. HIDE DEF as, c, d
<1>8. ASSUME NEW k \in Keys PROVE FlagPrecedence(as, c)[k] = WithoutDropIns[k]
  <2>1. FlagPrecedence(as, c)[k] = IF k \in Gates /\ d[k] = Unset THEN c[k] ELSE d[k]
    BY <1>4
  <2>2. CASE Given(as, k) # {}
    BY <1>1, <1>5, <1>7, <2>1, <2>2
  <2>3. CASE Given(as, k) = {} /\ k \in Gates
    <3>1. FlagPrecedence(as, c)[k] = c[k]
      BY <1>5, <2>1, <2>3
    <3>. QED  BY <1>2, <1>3, <1>6, <1>7, <2>3, <3>1
  <2>4. CASE Given(as, k) = {} /\ k \notin Gates
    <3>1. FlagPrecedence(as, c)[k] = c[k]
      BY <1>5, <2>1, <2>4
    <3>. QED  BY <1>6, <1>7, <2>4, <3>1
  <2>. QED  BY <2>2, <2>3, <2>4
<1>9. FlagPrecedence(as, c) = [k \in Keys |-> WithoutDropIns[k]]
  BY <1>4, <1>8
<1>10. WithoutDropIns = [k \in Keys |-> WithoutDropIns[k]]
  BY DEF WithoutDropIns
<1>. QED  BY <1>9, <1>10 DEF as, c

\* What a configuration is once it has been used, key by key.
LEMMA InUseKeys ==
    ASSUME NEW c \in Configuration
    PROVE  /\ InUse(c) = [k \in Keys |-> InUse(c)[k]]
           /\ \A k \in Keys :
                 InUse(c)[k] =
                     IF k = "kube-reserved" /\ c["reserved-cpus"] # "" THEN "none"
                     ELSE IF k = "system-reserved" /\ c["reserved-cpus"] # "" THEN "reserved cpus"
                     ELSE IF k = "cgroup-root" /\ c["cgroups-per-qos"] = "true" /\ c[k] = "" THEN "/"
                     ELSE c[k]
<1>1. {"cgroup-root", "cgroups-per-qos", "reserved-cpus", "kube-reserved", "system-reserved"}
         \subseteq Keys
  BY DEF Keys, Fields
<1>. QED  BY <1>1 DEF InUse, DefaultRoot, DropKubeCpus, SetSystemCpus, Configuration

\* What the workers write to the server they share is lost in InUse.
LEMMA WorkersWrites ==
    ASSUME NEW c \in Configuration
    PROVE  /\ InUse(DefaultRoot(c)) = InUse(c)
           /\ InUse(DropKubeCpus(c)) = InUse(c) /\ InUse(SetSystemCpus(c)) = InUse(c)
<1>1. {"cgroup-root", "cgroups-per-qos", "reserved-cpus", "kube-reserved", "system-reserved"}
         \subseteq Keys
  BY DEF Keys, Fields
<1>2. ASSUME NEW d \in Configuration, \A k \in Keys : InUse(d)[k] = InUse(c)[k]
      PROVE  InUse(d) = InUse(c)
  BY <1>2, InUseKeys
<1>3. InUse(DefaultRoot(c)) = InUse(c)
  <2>1. DefaultRoot(c) \in Configuration
    BY KubeletConstants DEF DefaultRoot, Configuration
  <2>2. \A k \in Keys : DefaultRoot(c)[k] = IF /\ k = "cgroup-root"
                                               /\ c["cgroups-per-qos"] = "true" /\ c[k] = ""
                                            THEN "/" ELSE c[k]
    BY <1>1 DEF DefaultRoot, Configuration
  <2>. QED  BY <1>1, <1>2, <2>1, <2>2, InUseKeys
<1>4. InUse(DropKubeCpus(c)) = InUse(c)
  <2>1. DropKubeCpus(c) \in Configuration
    BY KubeletConstants DEF DropKubeCpus, Configuration
  <2>2. \A k \in Keys : DropKubeCpus(c)[k] = IF k = "kube-reserved" /\ c["reserved-cpus"] # ""
                                             THEN "none" ELSE c[k]
    BY <1>1 DEF DropKubeCpus, Configuration
  <2>. QED  BY <1>1, <1>2, <2>1, <2>2, InUseKeys
<1>5. InUse(SetSystemCpus(c)) = InUse(c)
  <2>1. SetSystemCpus(c) \in Configuration
    BY KubeletConstants DEF SetSystemCpus, Configuration
  <2>2. \A k \in Keys : SetSystemCpus(c)[k] = IF k = "system-reserved" /\ c["reserved-cpus"] # ""
                                              THEN "reserved cpus" ELSE c[k]
    BY <1>1 DEF SetSystemCpus, Configuration
  <2>. QED  BY <1>1, <1>2, <2>1, <2>2, InUseKeys
<1>. QED  BY <1>3, <1>4, <1>5

\* A server that is, in use, the kubelet's configuration without its drop-in
\* files agrees with the kubelet's own on every other key.
LEMMA KnownIsServers ==
    ASSUME TypeOK, Cardinality(LiveKubelets) = 1, InUse(server) = InUse(WithoutDropIns)
    PROVE  InUse(server) = InUse(KnownOfKubelets)
<1>. DEFINE w == WithoutDropIns
            n == KnownOfKubelets
<1>1. server \in Configuration /\ w \in Configuration
  BY KubeletsOwnType DEF TypeOK, KubeletTypeOK
<1>2. \A k \in Keys : n[k] = IF k \in FromDropIns THEN server[k] ELSE w[k]
  BY DEF KnownOfKubelets, KubeletsOwn
<1>3. n \in Configuration
  BY <1>1, <1>2 DEF KnownOfKubelets, Configuration
<1>4. \A k \in Keys : InUse(server)[k] = InUse(w)[k]
  OBVIOUS
<1>. HIDE DEF w, n
<1>5. {"cgroup-root", "cgroups-per-qos", "reserved-cpus", "kube-reserved", "system-reserved"}
         \subseteq Keys
  BY DEF Keys, Fields
<1>6. /\ server["reserved-cpus"] = w["reserved-cpus"]
      /\ server["cgroups-per-qos"] = w["cgroups-per-qos"]
  BY <1>1, <1>4, <1>5, InUseKeys
<1>7. /\ n["reserved-cpus"] = server["reserved-cpus"]
      /\ n["cgroups-per-qos"] = server["cgroups-per-qos"]
  BY <1>2, <1>5, <1>6
<1>. DEFINE f(c, k) == IF k = "kube-reserved" /\ c["reserved-cpus"] # "" THEN "none"
                       ELSE IF k = "system-reserved" /\ c["reserved-cpus"] # "" THEN "reserved cpus"
                       ELSE IF k = "cgroup-root" /\ c["cgroups-per-qos"] = "true" /\ c[k] = "" THEN "/"
                       ELSE c[k]
<1>f. \A k \in Keys : /\ InUse(n)[k] = f(n, k) /\ InUse(server)[k] = f(server, k)
                      /\ InUse(w)[k] = f(w, k)
  BY <1>1, <1>3, InUseKeys
<1>8. ASSUME NEW k \in Keys PROVE InUse(n)[k] = InUse(server)[k]
  <2>1. CASE k \in FromDropIns
    <3>1. n[k] = server[k]
      BY <1>2, <2>1
    <3>2. f(n, k) = f(server, k)
      BY <1>7, <3>1
    <3>. QED  BY <1>f, <3>2
  <2>2. CASE k \notin FromDropIns
    <3>1. n[k] = w[k]
      BY <1>2, <2>2
    <3>2. f(n, k) = f(w, k)
      BY <1>6, <1>7, <3>1
    <3>. QED  BY <1>4, <1>f, <3>2
  <2>. QED  BY <2>1, <2>2
<1>9. InUse(n) = InUse(server)
  BY <1>1, <1>3, <1>8, InUseKeys
<1>. QED  BY <1>9 DEF n

-----------------------------------------------------------------------------
(* Names of cgroups.                                                       *)

NamePart == Words \cup {"kubepods"} \cup Classes \cup Pods

\* The parent of the pods of a class is a tier, whose name ends in kubepods or
\* in a class.
LEMMA ParentFacts ==
    ASSUME NEW c \in Configuration, NEW class \in Classes
    PROVE  /\ Parent(c, class) \in Seq(NamePart) /\ Parent(c, class) # <<>>
           /\ Parent(c, class)[Len(Parent(c, class))] \in Classes \cup {"kubepods"}
<1>1. c["cgroup-root"] \in NamePart
  BY DEF Configuration, Keys, Fields, NamePart
<1>2. RootName(c) \in Seq(NamePart)
  <2>. DEFINE x == c["cgroup-root"]
  <2>1. RootName(c) \in {<<>>, <<x>>}
    BY DEF RootName
  <2>. HIDE DEF x
  <2>2. x \in NamePart
    BY <1>1 DEF x
  <2>3. <<>> \in Seq(NamePart) /\ <<x>> \in Seq(NamePart)
    BY <2>2
  <2>. QED  BY <2>1, <2>3
<1>3. "kubepods" \in NamePart /\ class \in NamePart
  BY DEF NamePart
<1>. DEFINE k == "kubepods"
<1>. HIDE DEF k
<1>4. /\ RootName(c) \o <<k>> \in Seq(NamePart) /\ RootName(c) \o <<k>> # <<>>
      /\ (RootName(c) \o <<k>>)[Len(RootName(c) \o <<k>>)] = k
  BY <1>2, <1>3, EndsIn DEF k
<1>. DEFINE r == PodsRoot(c)
<1>5. r \in Seq(NamePart) /\ r # <<>> /\ r[Len(r)] = "kubepods"
  BY <1>4 DEF PodsRoot, k
<1>6. CASE class = "Guaranteed"
  <2>1. Parent(c, class) = r \o <<>>
    BY <1>6 DEF Parent
  <2>2. r \o <<>> = r
    BY <1>5
  <2>. QED  BY <1>5, <2>1, <2>2
<1>7. CASE class # "Guaranteed"
  <2>1. Parent(c, class) = r \o <<class>>
    BY <1>7 DEF Parent
  <2>2. r \in Seq(NamePart)
    BY <1>5
  <2>. HIDE DEF r
  <2>3. /\ r \o <<class>> \in Seq(NamePart) /\ r \o <<class>> # <<>>
        /\ (r \o <<class>>)[Len(r \o <<class>>)] = class
    BY <1>3, <2>2, EndsIn
  <2>. QED  BY <2>1, <2>3
<1>. QED  BY <1>6, <1>7

\* Where a kubelet has the cgroup of a pod, and where the agent looks for it:
\* in either case the name ends in the pod's own part.
LEMMA PlacedByFacts ==
    ASSUME NEW c \in Configuration, NEW p \in Pods
    PROVE  /\ PlacedBy(c, p) \in Paths /\ PlacedBy(c, p).name # <<>>
           /\ PlacedBy(c, p).name[Len(PlacedBy(c, p).name)] = p
<1>1. Qos[p] \in Classes /\ p \in NamePart
  BY CgroupManagerConstants DEF NamePart
<1>. DEFINE s == Parent(c, Qos[p])
<1>2. s \in Seq(NamePart)
  BY <1>1, ParentFacts
<1>3. c["cgroup-driver"] \in Words
  BY DEF Configuration, Keys, Fields
<1>. HIDE DEF s
<1>. DEFINE n == s \o <<p>>
<1>4. n \in Seq(NamePart) /\ n # <<>> /\ n[Len(n)] = p
  BY <1>1, <1>2, EndsIn
<1>5. PlacedBy(c, p) = [form |-> c["cgroup-driver"], name |-> n]
  BY DEF PlacedBy, s
<1>. HIDE DEF n
<1>. QED  BY <1>3, <1>4, <1>5 DEF Paths, NamePart

\* A pod's cgroup, as the agent names it, ends in the pod.
LEMMA PodContainerNameFacts ==
    ASSUME server \in Configuration, NEW p \in Pods, NEW driver
    PROVE  LET path == BuildCgroupPath(GetPodContainerName(p), driver)
           IN  path \in Paths /\ path.name # <<>> /\ path.name[Len(path.name)] = p
<1>1. Qos[p] \in Classes /\ p \in NamePart
  BY CgroupManagerConstants DEF NamePart
<1>. DEFINE s == IF qosCM = "full" THEN Parent(server, Qos[p]) ELSE <<>>
<1>2. s \in Seq(NamePart)
  BY <1>1, ParentFacts
<1>. HIDE DEF s
<1>. DEFINE n == s \o <<p>>
            f == IF driver = "systemd" THEN "systemd" ELSE "cgroupfs"
<1>3. n \in Seq(NamePart) /\ n # <<>> /\ n[Len(n)] = p
  BY <1>1, <1>2, EndsIn
<1>4. BuildCgroupPath(GetPodContainerName(p), driver) = [form |-> f, name |-> n]
  BY DEF BuildCgroupPath, GetPodContainerName, s
<1>5. f \in {"cgroupfs", "systemd"}
  OBVIOUS
<1>. HIDE DEF n, f
<1>. QED  BY <1>3, <1>4, <1>5 DEF Paths, NamePart

-----------------------------------------------------------------------------
(* Type correctness.                                                       *)

\* The bounds, and how they are counted up to.
LEMMA Bounds == MaxChanges \in Nat /\ MaxFails \in Nat
BY KubeletConstants

\* A counter below its bound can be raised.
LEMMA CountUp == ASSUME NEW m \in Nat, NEW n \in 0..m, n < m PROVE n + 1 \in 0..m
OBVIOUS

\* The initial states are well typed.
LEMMA TypeOKInit == Init => TypeOK
<1>. SUFFICES ASSUME Init PROVE TypeOK
  OBVIOUS
<1>1. NoConfiguration \in Configuration /\ DefaultGates \in [Gates -> Words]
  BY KubeletConstants DEF NoConfiguration, DefaultGates, Configuration
<1>2. 0 \in 0..MaxChanges /\ 0 \in 0..MaxFails
  BY Bounds
<1>3. args \in Seq(Arg)
  BY EmptySeq DEF Init, KubeletInit
<1>4. KubeletTypeOK
  BY <1>1, <1>2, <1>3 DEF Init, KubeletInit, KubeletTypeOK
<1>. QED  BY <1>4 DEF Init, KubeletInit, TypeOK

\* A process that has died has left nothing behind.
LEMMA DieType ==
    ASSUME KubeletTypeOK, NEW how \in {"panic", "error", "unknown flag"}, Die(how),
           fails' \in 0..MaxFails
    PROVE  KubeletTypeOK' /\ pc' = "down"
<1>1. NoConfiguration \in Configuration /\ DefaultGates \in [Gates -> Words]
  BY KubeletConstants DEF NoConfiguration, DefaultGates, Configuration
<1>2. /\ pc' = "down" /\ args' = <<>> /\ server' = NoConfiguration /\ gates' = DefaultGates
      /\ died' = how /\ UNCHANGED <<node, changes, fresh>>
  BY DEF Die
<1>3. args' \in Seq(Arg)
  BY <1>2, EmptySeq
<1>. QED  BY <1>1, <1>2, <1>3 DEF KubeletTypeOK

\* Failures are counted.
LEMMA FailType == ASSUME KubeletTypeOK, Fail \/ UNCHANGED fails PROVE fails' \in 0..MaxFails
BY Bounds, CountUp DEF KubeletTypeOK, Fail

\* The steps of main() and of the node.
LEMMA KubeletTypeOKMain ==
    ASSUME KubeletTypeOK, GetKubeletServer \/ Restart \/ ChangeNode
    PROVE  KubeletTypeOK' /\ (pc' = "run" => pc \in {"precedence", "run"})
<1>1. CASE ReadProcesses
  <2>1. CASE Die("panic") /\ (Fail \/ UNCHANGED fails)
    BY <2>1, FailType, DieType
  <2>2. CASE /\ args' = KubeletArgs /\ pc' = "flags"
             /\ UNCHANGED <<node, changes, fresh, server, gates, died, fails>>
    BY <2>2, KubeletArgsType DEF KubeletTypeOK
  <2>. QED  BY <1>1, <2>1, <2>2 DEF ReadProcesses
<1>2. CASE ParseFlags
  <2>1. CASE Die("error") /\ UNCHANGED fails
    BY <2>1, FailType, DieType
  <2>2. CASE /\ server' = SetFlags(args, Defaults) /\ pc' = "file"
             /\ UNCHANGED <<node, changes, fresh, args, gates, died, fails>>
    <3>1. server' \in Configuration
      BY <2>2, KubeletConstants, ConfigurationTypes DEF KubeletTypeOK
    <3>. QED  BY <2>2, <3>1 DEF KubeletTypeOK
  <2>. QED  BY <1>2, <2>1, <2>2 DEF ParseFlags
<1>3. CASE LoadFile
  <2>1. CASE Die("error") /\ UNCHANGED fails
    BY <2>1, FailType, DieType
  <2>2. CASE /\ server' = IF Names(args, "config") THEN LoadConfigFile(node.file) ELSE server
             /\ pc' = "precedence"
             /\ UNCHANGED <<node, changes, fresh, args, gates, died, fails>>
    <3>1. node.file \in Configuration
      BY NodeFacts DEF KubeletTypeOK
    <3>2. server' \in Configuration
      BY <2>2, <3>1, ConfigurationTypes DEF KubeletTypeOK
    <3>. QED  BY <2>2, <3>2 DEF KubeletTypeOK
  <2>. QED  BY <1>3, <2>1, <2>2 DEF LoadFile
<1>4. CASE ApplyPrecedence
  <2>. DEFINE c == FlagPrecedence(args, server)
  <2>1. CASE (Die("error") \/ Die("unknown flag")) /\ UNCHANGED fails
    BY <2>1, FailType, DieType
  <2>2. CASE /\ pc' = "run"
             /\ UNCHANGED <<node, changes, fresh, args, server, gates, died, fails>>
    BY <1>4, <2>2 DEF KubeletTypeOK, ApplyPrecedence
  <2>3. CASE /\ server' = c /\ gates' = [g \in Gates |-> c[g]] /\ pc' = "run"
             /\ UNCHANGED <<node, changes, fresh, args, died, fails>>
    <3>1. c \in Configuration
      BY ConfigurationTypes DEF KubeletTypeOK
    <3>. HIDE DEF c
    <3>2. server' \in Configuration /\ gates' \in [Gates -> Words]
      BY <2>3, <3>1 DEF Configuration, Keys
    <3>. QED  BY <1>4, <2>3, <3>2 DEF KubeletTypeOK, ApplyPrecedence
  <2>. QED  BY <1>4, <2>1, <2>2, <2>3 DEF ApplyPrecedence
<1>5. CASE Restart
  BY <1>5 DEF Restart, KubeletTypeOK
<1>6. CASE ChangeNode
  <2>1. changes' \in 0..MaxChanges
    BY <1>6, Bounds, CountUp DEF ChangeNode, KubeletTypeOK
  <2>2. fresh' \in BOOLEAN
    BY <1>6 DEF ChangeNode
  <2>. QED  BY <1>6, <2>1, <2>2 DEF ChangeNode, process, KubeletTypeOK
<1>. QED  BY <1>1, <1>2, <1>3, <1>4, <1>5, <1>6 DEF GetKubeletServer

\* Every way for the process to crash.
LEMMA CrashType ==
    ASSUME TypeOK, Crash, Fail, UNCHANGED cgroup
    PROVE  TypeOK' /\ pc' = "down" /\ toolkit' = [p \in Pods |-> {}]
<1>1. KubeletTypeOK' /\ pc' = "down"
  BY FailType, DieType DEF TypeOK, Crash
<1>. QED  BY <1>1 DEF TypeOK, Crash

\* A worker is busy only while the process runs.
LEMMA BusyRuns == ASSUME TypeOK, NEW p \in Pods, at[p] # "idle" PROVE pc = "run"
BY DEF TypeOK

\* The steps of the workers and of the kubelet's cgroups.
LEMMA TypeOKWorker == ASSUME TypeOK, NEW p \in Pods, Worker(p) PROVE TypeOK'
<1>. USE DEF process, kubelet, workers, Goto
<1>1. CASE Tick(p)
  <2>1. CASE Fail /\ Crash
    BY <1>1, <2>1, CrashType DEF Tick
  <2>2. CASE /\ at' = [at EXCEPT ![p] = "root"] /\ UNCHANGED <<kubelet, qosCM, toolkit, cgroup>>
             /\ pc = "run"
    BY <2>2 DEF TypeOK, KubeletTypeOK
  <2>3. CASE Fail /\ UNCHANGED <<node, changes, fresh, process, workers, cgroup>>
    BY <2>3, FailType DEF TypeOK, KubeletTypeOK
  <2>. QED  BY <1>1, <2>1, <2>2, <2>3 DEF Tick, InitCadvisorPanics
<1>2. CASE ReadReserved(p)
  <2>1. server' \in Configuration
    BY <1>2, KubeletConstants, ConfigurationTypes DEF ReadReserved, TypeOK, KubeletTypeOK
  <2>2. fails' \in 0..MaxFails
    BY <1>2, FailType DEF ReadReserved, TypeOK
  <2>3. /\ at' \in [Pods -> {"idle", "root", "kube", "system", "parse", "name"}]
        /\ pc = "run"
    BY <1>2, BusyRuns DEF ReadReserved, TypeOK
  <2>. QED  BY <1>2, <2>1, <2>2, <2>3 DEF ReadReserved, TypeOK, KubeletTypeOK
<1>3. CASE WriteReserved(p)
  <2>1. server' \in Configuration
    BY <1>3, KubeletConstants, ConfigurationTypes DEF WriteReserved, TypeOK, KubeletTypeOK
  <2>2. /\ at' \in [Pods -> {"idle", "root", "kube", "system", "parse", "name"}]
        /\ pc = "run"
    BY <1>3, BusyRuns DEF WriteReserved, TypeOK
  <2>. QED  BY <1>3, <2>1, <2>2 DEF WriteReserved, TypeOK, KubeletTypeOK
<1>4. CASE NewCgroupManager(p)
  <2>1. fails' \in 0..MaxFails
    BY <1>4, FailType DEF NewCgroupManager, TypeOK
  <2>2. /\ at' \in [Pods -> {"idle", "root", "kube", "system", "parse", "name"}]
        /\ qosCM' \in {"nil", "empty", "full"} /\ pc = "run"
    BY <1>4, BusyRuns DEF NewCgroupManager, TypeOK
  <2>. QED  BY <1>4, <2>1, <2>2 DEF NewCgroupManager, TypeOK, KubeletTypeOK
<1>5. CASE MakeToolkit(p)
  <2>. DEFINE path == BuildCgroupPath(GetPodContainerName(p), server["cgroup-driver"])
  <2>1. fails' \in 0..MaxFails
    BY <1>5, FailType DEF MakeToolkit, TypeOK
  <2>2. path \in Paths
    BY PodContainerNameFacts DEF TypeOK, KubeletTypeOK
  <2>3. toolkit' = toolkit \/ toolkit' = [toolkit EXCEPT ![p] = {path}]
    BY <1>5 DEF MakeToolkit
  <2>. HIDE DEF path
  <2>4. toolkit' \in [Pods -> SUBSET Paths]
    BY <2>2, <2>3 DEF TypeOK
  <2>5. /\ at' \in [Pods -> {"idle", "root", "kube", "system", "parse", "name"}]
        /\ pc = "run"
    BY <1>5, BusyRuns DEF MakeToolkit, TypeOK
  <2>. QED  BY <1>5, <2>1, <2>4, <2>5 DEF MakeToolkit, TypeOK, KubeletTypeOK
<1>. QED  BY <1>1, <1>2, <1>3, <1>4, <1>5 DEF Worker

\* The kubelet makes a pod's cgroup.
LEMMA TypeOKMakeCgroup == ASSUME TypeOK, NEW p \in Pods, MakeCgroup(p) PROVE TypeOK'
<1>. DEFINE x == PlacedBy(KubeletsOwn, p)
<1>1. x \in Paths
  BY KubeletsOwnType, PlacedByFacts DEF MakeCgroup, TypeOK, KubeletTypeOK
<1>2. cgroup' = [cgroup EXCEPT ![p] = {x}] /\ UNCHANGED <<kubelet, workers>>
  BY DEF MakeCgroup
<1>. HIDE DEF x
<1>3. cgroup' \in [Pods -> SUBSET Paths]
  BY <1>1, <1>2 DEF TypeOK
<1>. QED  BY <1>2, <1>3 DEF TypeOK, KubeletTypeOK, kubelet, process, workers

\* Every step keeps the variables in their types.
LEMMA TypeOKStep == TypeOK /\ [Next]_vars => TypeOK'
<1>. SUFFICES ASSUME TypeOK, [Next]_vars PROVE TypeOK'
  OBVIOUS
<1>1. CASE UNCHANGED vars
  BY <1>1 DEF vars, kubelet, process, workers, TypeOK, KubeletTypeOK
<1>2. CASE (GetKubeletServer \/ Restart \/ ChangeNode) /\ UNCHANGED <<workers, cgroup>>
  <2>1. KubeletTypeOK' /\ (pc' = "run" => pc \in {"precedence", "run"})
    BY <1>2, KubeletTypeOKMain DEF TypeOK
  <2>2. pc = "run" => pc' = "run"
    BY <1>2 DEF GetKubeletServer, ReadProcesses, ParseFlags, LoadFile, ApplyPrecedence, Restart,
                ChangeNode, process
  <2>3. UNCHANGED <<at, qosCM, toolkit, cgroup>>
    BY <1>2 DEF workers
  <2>. QED  BY <2>1, <2>2, <2>3 DEF TypeOK
<1>3. CASE MapRace
  BY <1>3, CrashType DEF MapRace
<1>. QED  BY <1>1, <1>2, <1>3, TypeOKWorker, TypeOKMakeCgroup DEF Next, Main

(***************************************************************************)
(* The process, the configuration it puts together, and what the workers   *)
(* make of it keep their types; no worker is in a tick and no toolkit is   *)
(* there unless getKubeletServer has returned.                             *)
(***************************************************************************)
THEOREM TypeCorrect == Spec => []TypeOK
BY TypeOKInit, TypeOKStep, PTL DEF Spec

-----------------------------------------------------------------------------
(* The configuration that the workers share.                               *)

\* The server is what the kubelet's configuration would be without drop-in
\* files, and so are the feature gates.
ServerAgrees ==
    pc = "run" /\ fresh /\ Cardinality(LiveKubelets) = 1 =>
        /\ InUse(server) = InUse(WithoutDropIns)
        /\ Names(args, "config") \/ Names(args, "config-dir") =>
              \A g \in Gates : gates[g] = WithoutDropIns[g]

\* InUse of the next state's configurations.
LEMMA InUsePrimed == /\ InUse(server)' = InUse(server')
                     /\ InUse(WithoutDropIns)' = InUse(WithoutDropIns')
<1>1. InUse(server)' = InUse(server')
  BY DEF InUse, DropKubeCpus, SetSystemCpus, DefaultRoot
<1>2. InUse(WithoutDropIns)' = InUse(WithoutDropIns')
  BY DEF InUse, DropKubeCpus, SetSystemCpus, DefaultRoot
<1>. QED  BY <1>1, <1>2

\* The kubelet stays the same while the node does.
LEMMA SameNode ==
    ASSUME node' = node
    PROVE  /\ LiveKubelets' = LiveKubelets /\ KubeletArgv' = KubeletArgv
           /\ WithoutDropIns' = WithoutDropIns
BY DEF LiveKubelets, KubeletArgv, WithoutDropIns, Names, Given, LastVal

\* Both hold of a process that does not run, or runs beside another kubelet
\* than the one it began with.
LEMMA NothingToShow ==
    ASSUME \/ pc' \in {"ps", "down"}
           \/ fresh' = FALSE /\ UNCHANGED <<pc, args>>, ReadFromKubelet
    PROVE  ReadFromKubelet' /\ ServerAgrees'
BY DEF ReadFromKubelet, ServerAgrees, Given

\* The four steps of getKubeletServer.
LEMMA ReadStep ==
    ASSUME TypeOK, ReadFromKubelet, ServerAgrees, GetKubeletServer
    PROVE  ReadFromKubelet' /\ ServerAgrees'
<1>. DEFINE One == Cardinality(LiveKubelets) = 1
<1>n. node \in Nodes
  BY DEF TypeOK, KubeletTypeOK
<1>0. node' = node
  BY DEF GetKubeletServer, ReadProcesses, ParseFlags, LoadFile, ApplyPrecedence, Die
<1>s. /\ LiveKubelets' = LiveKubelets /\ KubeletArgv' = KubeletArgv
      /\ WithoutDropIns' = WithoutDropIns
  BY <1>0, SameNode
<1>1. CASE pc' = "down"
  BY <1>1, NothingToShow
<1>2. CASE ReadProcesses /\ pc' = "flags"
  <2>1. args' = KubeletArgs
    BY <1>2 DEF ReadProcesses, Die
  <2>2. One /\ Given(KubeletArgs, "") = {} => KubeletArgs = KubeletArgv
    BY <1>n, ReadsTheKubelet
  <2>3. Given(args, "")' = Given(args', "")
    BY DEF Given
  <2>4. ReadFromKubelet'
    BY <1>2, <1>s, <2>1, <2>2, <2>3 DEF ReadFromKubelet
  <2>. QED  BY <1>2, <2>4 DEF ServerAgrees
<1>3. CASE ParseFlags /\ pc' = "file"
  <2>1. /\ pc = "flags" /\ Given(args, "") = {} /\ server' = SetFlags(args, Defaults)
        /\ UNCHANGED <<args, fresh>>
    BY <1>3 DEF ParseFlags, Die
  <2>2. Given(args, "")' = Given(args, "") /\ SetFlags(args, Defaults)' = SetFlags(args, Defaults)
    BY <2>1 DEF Given, SetFlags, LastVal
  <2>3. fresh /\ One => args = KubeletArgv
    BY <2>1 DEF ReadFromKubelet
  <2>4. ReadFromKubelet'
    BY <1>3, <1>s, <2>1, <2>2, <2>3 DEF ReadFromKubelet
  <2>. QED  BY <1>3, <2>4 DEF ServerAgrees
<1>4. CASE LoadFile /\ pc' = "precedence"
  <2>. DEFINE c == IF Names(args, "config") THEN LoadConfigFile(node.file) ELSE SetFlags(args, Defaults)
  <2>1. /\ pc = "file" /\ server' = (IF Names(args, "config") THEN LoadConfigFile(node.file) ELSE server)
        /\ UNCHANGED <<args, fresh>>
    BY <1>4 DEF LoadFile, Die
  <2>2. Given(args, "") = {} /\ (fresh /\ One => args = KubeletArgv /\ server' = c)
    BY <2>1 DEF ReadFromKubelet
  <2>3. Given(args, "")' = Given(args, "") /\ c' = c
    BY <1>0, <2>1 DEF Given, SetFlags, LastVal, Names, LoadConfigFile
  <2>4. ReadFromKubelet'
    BY <1>4, <1>s, <2>1, <2>2, <2>3 DEF ReadFromKubelet
  <2>. QED  BY <1>4, <2>4 DEF ServerAgrees
<1>5. CASE ApplyPrecedence /\ pc' = "run"
  <2>. DEFINE c == FlagPrecedence(args, server)
  <2>1. pc = "precedence" /\ UNCHANGED <<args, fresh>>
    BY <1>5 DEF ApplyPrecedence, Die
  <2>2. /\ Given(args, "")' = Given(args, "") /\ Names(args, "config")' = Names(args, "config")
        /\ Names(args, "config-dir")' = Names(args, "config-dir")
    BY <2>1 DEF Given, LastVal, Names
  <2>3. ReadFromKubelet'
    BY <1>5, <1>s, <2>1, <2>2 DEF ReadFromKubelet
  <2>4. ASSUME fresh, One
        PROVE  /\ server' = WithoutDropIns
               /\ Names(args, "config") \/ Names(args, "config-dir") =>
                     \A g \in Gates : gates'[g] = WithoutDropIns[g]
    <3>1. /\ args = KubeletArgv
          /\ server = IF Names(KubeletArgv, "config") THEN LoadConfigFile(node.file)
                                                      ELSE SetFlags(KubeletArgv, Defaults)
      BY <2>1, <2>4 DEF ReadFromKubelet
    <3>2. c = WithoutDropIns
      BY <1>n, <2>4, <3>1, TwoParses
    <3>3. CASE ~ Names(args, "config") /\ ~ Names(args, "config-dir") /\ server' = server
      BY <1>n, <2>4, <3>1, <3>3, OneParse
    <3>4. CASE server' = c /\ gates' = [g \in Gates |-> c[g]]
      BY <3>2, <3>4
    <3>. QED  BY <1>5, <3>3, <3>4 DEF ApplyPrecedence, Die
  <2>5. ServerAgrees'
    <3>1. ASSUME fresh, One
          PROVE  InUse(server') = InUse(WithoutDropIns)
      BY <2>4, <3>1
    <3>2. InUse(server)' = InUse(server') /\ InUse(WithoutDropIns)' = InUse(WithoutDropIns)
      BY <1>s, InUsePrimed
    <3>. QED  BY <1>s, <2>1, <2>2, <2>4, <3>1, <3>2 DEF ServerAgrees
  <2>. QED  BY <2>3, <2>5
<1>. QED  BY <1>1, <1>2, <1>3, <1>4, <1>5
          DEF GetKubeletServer, ReadProcesses, ParseFlags, LoadFile, ApplyPrecedence, Die

\* A step of a worker that does not end the process: what it writes to the
\* server is no more than InUse allows for.
LEMMA SharedStep ==
    ASSUME TypeOK, ReadFromKubelet, ServerAgrees, pc = "run",
           UNCHANGED <<node, fresh, pc, args, gates>>,
           server' \in {server, DefaultRoot(server), DropKubeCpus(server), SetSystemCpus(server)}
    PROVE  ReadFromKubelet' /\ ServerAgrees'
<1>1. /\ LiveKubelets' = LiveKubelets /\ KubeletArgv' = KubeletArgv
      /\ WithoutDropIns' = WithoutDropIns
  BY SameNode
<1>2. /\ Given(args, "")' = Given(args, "") /\ Names(args, "config")' = Names(args, "config")
      /\ Names(args, "config-dir")' = Names(args, "config-dir")
  BY DEF Given, LastVal, Names
<1>3. InUse(server') = InUse(server)
  BY WorkersWrites DEF TypeOK, KubeletTypeOK
<1>4. InUse(server)' = InUse(server') /\ InUse(WithoutDropIns)' = InUse(WithoutDropIns)
  BY <1>1, InUsePrimed
<1>5. ReadFromKubelet'
  BY <1>1, <1>2 DEF ReadFromKubelet
<1>6. ServerAgrees'
  BY <1>1, <1>2, <1>3, <1>4 DEF ServerAgrees
<1>. QED  BY <1>5, <1>6

\* Every step keeps the server that of the node's kubelet.
LEMMA ServerStep ==
    ASSUME TypeOK, ReadFromKubelet, ServerAgrees, [Next]_vars
    PROVE  ReadFromKubelet' /\ ServerAgrees'
<1>. USE DEF process, kubelet, workers
<1>1. CASE UNCHANGED kubelet
  <2>1. CASE pc = "run"
    BY <1>1, <2>1, SharedStep
  <2>2. CASE pc # "run"
    <3>1. /\ LiveKubelets' = LiveKubelets /\ KubeletArgv' = KubeletArgv
      BY <1>1, SameNode
    <3>2. /\ Given(args, "")' = Given(args, "") /\ Names(args, "config")' = Names(args, "config")
          /\ Names(args, "config-dir")' = Names(args, "config-dir")
          /\ SetFlags(args, Defaults)' = SetFlags(args, Defaults)
          /\ LoadConfigFile(node.file)' = LoadConfigFile(node.file)
      BY <1>1 DEF Given, LastVal, Names, SetFlags, LoadConfigFile
    <3>. QED  BY <1>1, <2>2, <3>1, <3>2 DEF ReadFromKubelet, ServerAgrees
  <2>. QED  BY <2>1, <2>2
<1>2. CASE GetKubeletServer
  BY <1>2, ReadStep
<1>3. CASE Restart
  BY <1>3, NothingToShow DEF Restart
<1>4. CASE ChangeNode
  <2>1. CASE pc = "down"
    BY <1>4, <2>1, NothingToShow DEF ChangeNode
  <2>2. CASE pc # "down"
    <3>1. fresh' = FALSE /\ UNCHANGED <<pc, args>>
      BY <1>4, <2>2 DEF ChangeNode
    <3>. QED  BY <3>1, NothingToShow
  <2>. QED  BY <2>1, <2>2
<1>5. CASE Crash
  BY <1>5, NothingToShow DEF Crash, Die
<1>6. ASSUME NEW p \in Pods, Worker(p), ~ Crash PROVE ReadFromKubelet' /\ ServerAgrees'
  <2>1. pc = "run"
    BY <1>6, BusyRuns DEF Worker, Tick, ReadReserved, WriteReserved, NewCgroupManager, MakeToolkit
  <2>2. /\ UNCHANGED <<node, fresh, pc, args, gates>>
        /\ server' \in {server, DefaultRoot(server), DropKubeCpus(server), SetSystemCpus(server)}
    BY <1>6 DEF Worker, Tick, InitCadvisorPanics, ReadReserved, WriteReserved, NewCgroupManager,
                MakeToolkit
  <2>. QED  BY <2>1, <2>2, SharedStep
<1>7. CASE UNCHANGED vars
  BY <1>1, <1>7 DEF vars
<1>8. ASSUME NEW p \in Pods, MakeCgroup(p) PROVE UNCHANGED kubelet
  BY <1>8 DEF MakeCgroup
<1>. QED  BY <1>1, <1>2, <1>3, <1>4, <1>5, <1>6, <1>7, <1>8 DEF Next, Main, MapRace

(***************************************************************************)
(* Flags over file over defaults, gates merged, read once and then shared  *)
(* by workers that write to it without a lock: as long as the node has not *)
(* changed, the server is the configuration of the node's only kubelet on  *)
(* every key that no drop-in file of its decides.                          *)
(***************************************************************************)
THEOREM ServerIsKubeletsHolds == Spec => []ServerIsKubelets
<1>1. Init => ReadFromKubelet /\ ServerAgrees
  BY DEF Init, KubeletInit, ReadFromKubelet, ServerAgrees
<1>2. TypeOK /\ ReadFromKubelet /\ ServerAgrees /\ [Next]_vars =>
         ReadFromKubelet' /\ ServerAgrees'
  BY ServerStep
<1>3. TypeOK /\ ServerAgrees => ServerIsKubelets
  <2>. SUFFICES ASSUME TypeOK, ServerAgrees, pc = "run", fresh, Cardinality(LiveKubelets) = 1
                PROVE  /\ InUse(server) = InUse(KnownOfKubelets)
                       /\ Names(args, "config") \/ Names(args, "config-dir") =>
                             \A g \in Gates \ FromDropIns : gates[g] = KubeletsOwn[g]
    BY DEF ServerIsKubelets
  <2>1. \A g \in Gates \ FromDropIns : KubeletsOwn[g] = WithoutDropIns[g]
    BY DEF KubeletsOwn, Keys
  <2>. QED  BY <2>1, KnownIsServers DEF ServerAgrees
<1>. QED  BY <1>1, <1>2, <1>3, TypeCorrect, PTL DEF Spec

-----------------------------------------------------------------------------
(* The cgroups of the pods.                                                *)

\* What a step does to the cgroups: nothing, or one is made where there was
\* none.
LEMMA CgroupStep ==
    ASSUME TypeOK, [Next]_vars
    PROVE  \/ UNCHANGED cgroup
           \/ \E p \in Pods : /\ cgroup[p] = {} /\ cgroup' = [cgroup EXCEPT ![p] = {PlacedBy(KubeletsOwn, p)}]
                              /\ UNCHANGED toolkit /\ KubeletsOwn \in Configuration
<1>1. ASSUME NEW p \in Pods, MakeCgroup(p)
      PROVE  /\ cgroup[p] = {} /\ cgroup' = [cgroup EXCEPT ![p] = {PlacedBy(KubeletsOwn, p)}]
             /\ UNCHANGED toolkit /\ KubeletsOwn \in Configuration
  BY <1>1, KubeletsOwnType DEF MakeCgroup, workers, TypeOK, KubeletTypeOK
<1>2. ASSUME NEW p \in Pods, Worker(p) PROVE UNCHANGED cgroup
  BY <1>2 DEF Worker, Tick, ReadReserved, WriteReserved, NewCgroupManager, MakeToolkit
<1>. QED  BY <1>1, <1>2 DEF Next, Main, MapRace, vars

\* The names of the cgroups end in the pods that they are for.
LEMMA CgroupsNamedStep == ASSUME TypeOK, CgroupsNamed, [Next]_vars PROVE CgroupsNamed'
<1>1. CASE UNCHANGED cgroup
  BY <1>1 DEF CgroupsNamed
<1>2. ASSUME NEW p \in Pods, KubeletsOwn \in Configuration,
             cgroup' = [cgroup EXCEPT ![p] = {PlacedBy(KubeletsOwn, p)}]
      PROVE  CgroupsNamed'
  <2>. DEFINE x == PlacedBy(KubeletsOwn, p)
  <2>1. x.name # <<>> /\ x.name[Len(x.name)] = p
    BY <1>2, PlacedByFacts
  <2>2. cgroup' = [cgroup EXCEPT ![p] = {x}] /\ cgroup \in [Pods -> SUBSET Paths]
    BY <1>2 DEF TypeOK
  <2>. HIDE DEF x
  <2>3. \A q \in Pods : cgroup'[q] = IF q = p THEN {x} ELSE cgroup[q]
    BY <2>2
  <2>. QED  BY <2>1, <2>3 DEF CgroupsNamed
<1>. QED  BY <1>1, <1>2, CgroupStep

(***************************************************************************)
(* What getKubeletServer has put together comes from the command line of   *)
(* the node's only kubelet, and cgroups can be told from their names.      *)
(***************************************************************************)
THEOREM ReadFromItsKubelet == Spec => []IInv
<1>1. Init => ReadFromKubelet /\ ServerAgrees /\ CgroupsNamed
  BY DEF Init, KubeletInit, ReadFromKubelet, ServerAgrees, CgroupsNamed
<1>2. TypeOK /\ ReadFromKubelet /\ ServerAgrees /\ CgroupsNamed /\ [Next]_vars =>
         ReadFromKubelet' /\ ServerAgrees' /\ CgroupsNamed'
  BY ServerStep, CgroupsNamedStep
<1>. QED  BY <1>1, <1>2, TypeCorrect, PTL DEF Spec, IInv

\* What a step does to the toolkits: MakeToolkit makes one, a crash ends all.
LEMMA ToolkitStep ==
    ASSUME TypeOK, [Next]_vars
    PROVE  \/ UNCHANGED toolkit
           \/ toolkit' = [p \in Pods |-> {}]
           \/ \E p \in Pods :
                 LET path == BuildCgroupPath(GetPodContainerName(p), server["cgroup-driver"])
                 IN  path \in Existing /\ toolkit' = [toolkit EXCEPT ![p] = {path}] /\ UNCHANGED cgroup
<1>1. CASE Crash
  BY <1>1 DEF Crash
<1>2. ASSUME NEW p \in Pods, MakeToolkit(p)
      PROVE  \/ UNCHANGED toolkit
             \/ LET path == BuildCgroupPath(GetPodContainerName(p), server["cgroup-driver"])
                IN  path \in Existing /\ toolkit' = [toolkit EXCEPT ![p] = {path}] /\ UNCHANGED cgroup
  BY <1>2 DEF MakeToolkit
<1>3. ASSUME NEW p \in Pods, Worker(p), ~ Crash, ~ MakeToolkit(p) PROVE UNCHANGED toolkit
  BY <1>3 DEF Worker, Tick, InitCadvisorPanics, ReadReserved, WriteReserved, NewCgroupManager, workers
<1>4. ASSUME NEW p \in Pods, MakeCgroup(p) PROVE UNCHANGED toolkit
  BY <1>4 DEF MakeCgroup, workers
<1>5. CASE UNCHANGED vars
  BY <1>5 DEF vars, workers
<1>. QED  BY <1>1, <1>2, <1>3, <1>4, <1>5 DEF Next, Main, MapRace, workers

\* A path that ends in a pod's part is not a tier, nor another pod's cgroup.
LEMMA PathOfPod ==
    ASSUME TypeOK, CgroupsNamed, NEW p \in Pods,
           NEW x \in Existing, x.name[Len(x.name)] = p
    PROVE  x \in cgroup[p]
<1>1. CASE x \in Tiers(server)
  <2>1. PICK q \in Pods : x = [form |-> server["cgroup-driver"], name |-> Parent(server, Qos[q])]
    BY <1>1 DEF Tiers
  <2>2. x.name = Parent(server, Qos[q])
    BY <2>1
  <2>3. x.name[Len(x.name)] \in Classes \cup {"kubepods"}
    BY <2>2, ParentFacts, CgroupManagerConstants DEF TypeOK, KubeletTypeOK
  <2>. QED  BY <2>3, CgroupManagerConstants
<1>2. ASSUME NEW q \in Pods, x \in cgroup[q] PROVE x \in cgroup[p]
  <2>1. x.name[Len(x.name)] = q
    BY <1>2 DEF CgroupsNamed
  <2>. QED  BY <1>2, <2>1
<1>3. x \in Tiers(server) \/ \E q \in Pods : x \in cgroup[q]
  BY DEF Existing
<1>. QED  BY <1>1, <1>2, <1>3

\* Every step leaves the toolkits on the cgroups of their pods.
LEMMA OnItsCgroupStep ==
    ASSUME TypeOK, CgroupsNamed, ToolkitOnItsCgroup, [Next]_vars PROVE ToolkitOnItsCgroup'
<1>. USE DEF ToolkitOnItsCgroup
<1>1. \A q \in Pods : cgroup[q] \subseteq cgroup'[q]
  <2>1. CASE UNCHANGED cgroup
    BY <2>1
  <2>2. ASSUME NEW p \in Pods, NEW x, cgroup[p] = {}, cgroup' = [cgroup EXCEPT ![p] = {x}]
        PROVE  \A q \in Pods : cgroup[q] \subseteq cgroup'[q]
    BY <2>2 DEF TypeOK
  <2>. QED  BY <2>1, <2>2, CgroupStep
<1>2. CASE UNCHANGED toolkit
  BY <1>1, <1>2
<1>3. CASE toolkit' = [p \in Pods |-> {}]
  BY <1>3
<1>4. ASSUME NEW p \in Pods, NEW x, x = BuildCgroupPath(GetPodContainerName(p), server["cgroup-driver"]),
             x \in Existing, toolkit' = [toolkit EXCEPT ![p] = {x}]
      PROVE  ToolkitOnItsCgroup'
  <2>1. x.name[Len(x.name)] = p
    BY <1>4, PodContainerNameFacts DEF TypeOK, KubeletTypeOK
  <2>2. x \in cgroup[p]
    BY <1>4, <2>1, PathOfPod
  <2>3. \A q \in Pods : toolkit'[q] = IF q = p THEN {x} ELSE toolkit[q]
    BY <1>4 DEF TypeOK
  <2>. QED  BY <1>1, <2>2, <2>3
<1>. QED  BY <1>2, <1>3, <1>4, ToolkitStep

(***************************************************************************)
(* Whatever QoS manager another worker has left in qosCM, and whatever the *)
(* node has become since, a toolkit is only ever on the cgroup that the    *)
(* kubelet made for the worker's own pod.                                  *)
(***************************************************************************)
THEOREM ToolkitOnItsCgroupHolds == Spec => []ToolkitOnItsCgroup
<1>1. Init => ToolkitOnItsCgroup
  BY DEF Init, ToolkitOnItsCgroup
<1>2. TypeOK /\ CgroupsNamed /\ ToolkitOnItsCgroup /\ [Next]_vars => ToolkitOnItsCgroup'
  BY OnItsCgroupStep
<1>3. Spec => []CgroupsNamed
  BY ReadFromItsKubelet, PTL DEF IInv
<1>. QED  BY <1>1, <1>2, <1>3, TypeCorrect, PTL DEF Spec
=============================================================================
