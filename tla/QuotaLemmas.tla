----------------------------- MODULE QuotaLemmas -----------------------------
(***************************************************************************)
(* What the functions of pkg/config/quota.go return, for every table and   *)
(* every value of the constants.                                           *)
(***************************************************************************)
EXTENDS Quota, WellFoundedInduction, TLAPS

-----------------------------------------------------------------------------
(* The best entry of a scan exists.                                        *)

\* A non-empty set of naturals has a least element.
LEMMA LeastNat ==
    ASSUME NEW S, S \subseteq Nat, S # {}
    PROVE  \E m \in S : \A k \in S : m <= k
<1>. DEFINE R == OpToRel(<, Nat)
<1>1. IsWellFoundedOn(R, Nat)
  BY NatLessThanWellFounded
<1>2. \A k, m \in Nat : k < m => <<k, m>> \in R
  BY DEF OpToRel
<1>. HIDE DEF R
<1>3. PICK m \in S : \A k \in S : ~ (<<k, m>> \in R)
  BY <1>1, WFMin
<1>4. ASSUME NEW k \in S PROVE m <= k
  <2>1. m \in Nat /\ k \in Nat
    OBVIOUS
  <2>2. ~ (k < m)
    BY <1>2, <1>3, <2>1
  <2>. QED  BY <2>1, <2>2
<1>. QED  BY <1>4

\* The first index of the least value of f among the indices I: what a scan
\* with a strict comparison keeps.
LEMMA FirstLeast ==
    ASSUME NEW n \in Nat, NEW f \in [1..n -> Nat],
           NEW I \in SUBSET (1..n), I # {}
    PROVE  \E i \in I : \A j \in I : \/ f[i] < f[j]
                                     \/ f[i] = f[j] /\ i <= j
<1>. DEFINE V == {f[i] : i \in I}
<1>1. PICK m \in V : \A k \in V : m <= k
  <2>1. V \subseteq Nat /\ V # {}
    OBVIOUS
  <2>. QED  BY <2>1, LeastNat
<1>. DEFINE J == {i \in I : f[i] = m}
<1>2. PICK i \in J : \A j \in J : i <= j
  <2>1. PICK i0 \in I : f[i0] = m
    BY <1>1
  <2>2. i0 \in J
    BY <2>1
  <2>3. ASSUME NEW j \in J PROVE j \in Nat
    <3>1. j \in 1..n
      OBVIOUS
    <3>. QED  BY <3>1
  <2>. HIDE DEF J
  <2>. QED  BY <2>2, <2>3, LeastNat
<1>3. \A j \in I : m <= f[j]
  BY <1>1
<1>4. \A j \in I : f[i] < f[j] \/ (f[i] = f[j] /\ i <= j)
  BY <1>1, <1>2, <1>3
<1>. QED  BY <1>2, <1>4

\* The values of a function on 1..n have an upper bound.
LEMMA BoundExists ==
    ASSUME NEW n \in Nat, NEW f \in [1..n -> Nat]
    PROVE  \E b \in Nat : \A i \in 1..n : f[i] <= b
<1>. DEFINE Bounded(k) == \E b \in Nat : \A i \in 1..k : f[i] <= b
            Bad == {k \in 0..n : ~ Bounded(k)}
<1>1. SUFFICES Bad = {}
  <2>1. n \in 0..n
    OBVIOUS
  <2>. QED  BY <2>1
<1>2. SUFFICES ASSUME Bad # {} PROVE FALSE
  OBVIOUS
<1>3. PICK m \in Bad : \A k \in Bad : m <= k
  <2>1. Bad \subseteq Nat
    OBVIOUS
  <2>. HIDE DEF Bad
  <2>. QED  BY <1>2, <2>1, LeastNat
<1>4. m # 0
  <2>1. Bounded(0)
    <3>1. 0 \in Nat /\ \A i \in 1..0 : f[i] <= 0
      OBVIOUS
    <3>. QED  BY <3>1
  <2>. QED  BY <1>3, <2>1
<1>5. m - 1 \in 0..n /\ m - 1 < m
  BY <1>3, <1>4
<1>6. Bounded(m - 1)
  <2>1. m \in Nat /\ m - 1 \in Nat /\ ~ (m <= m - 1)
    BY <1>5
  <2>2. m - 1 \notin Bad
    <3>. HIDE DEF Bad
    <3>. QED  BY <1>3, <2>1
  <2>. QED  BY <2>2, <1>5
<1>7. PICK b \in Nat : \A i \in 1..(m - 1) : f[i] <= b
  BY <1>6
<1>8. m \in 1..n /\ f[m] \in Nat
  BY <1>3, <1>4
<1>9. \A i \in 1..m : f[i] <= b + f[m]
  <2>. TAKE i \in 1..m
  <2>1. CASE i = m
    BY <2>1, <1>7, <1>8
  <2>2. CASE i # m
    <3>1. i \in 1..(m - 1) /\ i \in 1..n
      BY <2>2, <1>8
    <3>. QED  BY <3>1, <1>7, <1>8
  <2>. QED  BY <2>1, <2>2
<1>10. b + f[m] \in Nat
  BY <1>8, <1>7
<1>11. Bounded(m)
  BY <1>9, <1>10
<1>. QED  BY <1>11, <1>3

\* The first index of the greatest value.
LEMMA FirstGreatest ==
    ASSUME NEW n \in Nat, NEW f \in [1..n -> Nat],
           NEW I \in SUBSET (1..n), I # {}
    PROVE  \E i \in I : \A j \in I : \/ f[i] > f[j]
                                     \/ f[i] = f[j] /\ i <= j
<1>1. PICK b \in Nat : \A i \in 1..n : f[i] <= b
  BY BoundExists
<1>. DEFINE g == [i \in 1..n |-> b - f[i]]
<1>2. g \in [1..n -> Nat]
  BY <1>1
<1>3. \A i \in 1..n : g[i] = b - f[i] /\ f[i] \in Nat
  OBVIOUS
<1>. HIDE DEF g
<1>4. PICK i \in I : \A j \in I : \/ g[i] < g[j]
                                  \/ g[i] = g[j] /\ i <= j
  BY <1>2, FirstLeast
<1>5. \A j \in I : f[i] > f[j] \/ (f[i] = f[j] /\ i <= j)
  BY <1>1, <1>3, <1>4
<1>. QED  BY <1>5

-----------------------------------------------------------------------------
(* The entry each function returns.                                        *)

\* A table's entries are quotas, their sizes numbers.
LEMMA TableFacts ==
    ASSUME NEW T \in Seq(Quota)
    PROVE  /\ Len(T) \in Nat /\ DOMAIN T = 1..Len(T)
           /\ \A i \in DOMAIN T : T[i] \in Quota /\ T[i].cpu \in Nat /\ T[i].mem \in Nat
           /\ [i \in 1..Len(T) |-> T[i].cpu] \in [1..Len(T) -> Nat]
           /\ [i \in 1..Len(T) |-> T[i].mem] \in [1..Len(T) -> Nat]
<1>1. Len(T) \in Nat /\ DOMAIN T = 1..Len(T)
  OBVIOUS
<1>2. ASSUME NEW i \in DOMAIN T
      PROVE  T[i] \in Quota /\ T[i].cpu \in Nat /\ T[i].mem \in Nat
  <2>1. T[i] \in Quota
    OBVIOUS
  <2>. QED  BY <2>1 DEF Quota
<1>. QED  BY <1>1, <1>2

\* Of some entries, the first with the least memory.
LEMMA LeastMemEntry ==
    ASSUME NEW T \in Seq(Quota), NEW I \in SUBSET DOMAIN T, I # {}
    PROVE  \E i \in I : \A j \in I : \/ T[i].mem < T[j].mem
                                     \/ T[i].mem = T[j].mem /\ i <= j
<1>. DEFINE n == Len(T)
            f == [i \in 1..n |-> T[i].mem]
<1>1. n \in Nat /\ f \in [1..n -> Nat] /\ I \in SUBSET (1..n)
  BY TableFacts
<1>2. \A i \in I : f[i] = T[i].mem
  BY <1>1
<1>. HIDE DEF n, f
<1>3. PICK i \in I : \A j \in I : f[i] < f[j] \/ (f[i] = f[j] /\ i <= j)
  BY <1>1, FirstLeast
<1>. QED  BY <1>2, <1>3

\* Of some entries, the first with the least CPU.
LEMMA LeastCpuEntry ==
    ASSUME NEW T \in Seq(Quota), NEW I \in SUBSET DOMAIN T, I # {}
    PROVE  \E i \in I : \A j \in I : \/ T[i].cpu < T[j].cpu
                                     \/ T[i].cpu = T[j].cpu /\ i <= j
<1>. DEFINE n == Len(T)
            f == [i \in 1..n |-> T[i].cpu]
<1>1. n \in Nat /\ f \in [1..n -> Nat] /\ I \in SUBSET (1..n)
  BY TableFacts
<1>2. \A i \in I : f[i] = T[i].cpu
  BY <1>1
<1>. HIDE DEF n, f
<1>3. PICK i \in I : \A j \in I : f[i] < f[j] \/ (f[i] = f[j] /\ i <= j)
  BY <1>1, FirstLeast
<1>. QED  BY <1>2, <1>3

\* Of some entries, the first with the most memory.
LEMMA GreatestMemEntry ==
    ASSUME NEW T \in Seq(Quota), NEW I \in SUBSET DOMAIN T, I # {}
    PROVE  \E i \in I : \A j \in I : \/ T[i].mem > T[j].mem
                                     \/ T[i].mem = T[j].mem /\ i <= j
<1>. DEFINE n == Len(T)
            f == [i \in 1..n |-> T[i].mem]
<1>1. n \in Nat /\ f \in [1..n -> Nat] /\ I \in SUBSET (1..n)
  BY TableFacts
<1>2. \A i \in I : f[i] = T[i].mem
  BY <1>1
<1>. HIDE DEF n, f
<1>3. PICK i \in I : \A j \in I : f[i] > f[j] \/ (f[i] = f[j] /\ i <= j)
  BY <1>1, FirstGreatest
<1>. QED  BY <1>2, <1>3

\* Of some entries, the first with the most CPU.
LEMMA GreatestCpuEntry ==
    ASSUME NEW T \in Seq(Quota), NEW I \in SUBSET DOMAIN T, I # {}
    PROVE  \E i \in I : \A j \in I : \/ T[i].cpu > T[j].cpu
                                     \/ T[i].cpu = T[j].cpu /\ i <= j
<1>. DEFINE n == Len(T)
            f == [i \in 1..n |-> T[i].cpu]
<1>1. n \in Nat /\ f \in [1..n -> Nat] /\ I \in SUBSET (1..n)
  BY TableFacts
<1>2. \A i \in I : f[i] = T[i].cpu
  BY <1>1
<1>. HIDE DEF n, f
<1>3. PICK i \in I : \A j \in I : f[i] > f[j] \/ (f[i] = f[j] /\ i <= j)
  BY <1>1, FirstGreatest
<1>. QED  BY <1>2, <1>3

\* GetScaleUpCpuQuota: the quota itself, or the eligible entry with least memory.
LEMMA UpCpuChoice ==
    ASSUME NEW T \in Seq(Quota), NEW q
    PROVE  \/ MoreCpu(T, q) = {} /\ GetScaleUpCpuQuota(T, q) = q
           \/ \E i \in MoreCpu(T, q) :
                 /\ GetScaleUpCpuQuota(T, q) = T[i]
                 /\ \A j \in MoreCpu(T, q) : \/ T[i].mem < T[j].mem
                                             \/ T[i].mem = T[j].mem /\ i <= j
<1>. DEFINE I == MoreCpu(T, q)
<1>1. I \in SUBSET DOMAIN T
  BY DEF MoreCpu
<1>2. CASE I = {}
  BY <1>2 DEF GetScaleUpCpuQuota
<1>3. CASE I # {}
  <2>1. \E i \in I : \A j \in I : T[i].mem < T[j].mem \/ (T[i].mem = T[j].mem /\ i <= j)
    BY <1>1, <1>3, LeastMemEntry
  <2>. QED  BY <1>3, <2>1 DEF GetScaleUpCpuQuota
<1>. QED  BY <1>2, <1>3

\* Scaling memory up takes the entry with the least CPU of those with more
\* memory.
LEMMA UpMemoryChoice ==
    ASSUME NEW T \in Seq(Quota), NEW q
    PROVE  \/ MoreMemory(T, q) = {} /\ GetScaleUpMemoryQuota(T, q) = q
           \/ \E i \in MoreMemory(T, q) :
                 /\ GetScaleUpMemoryQuota(T, q) = T[i]
                 /\ \A j \in MoreMemory(T, q) : \/ T[i].cpu < T[j].cpu
                                                \/ T[i].cpu = T[j].cpu /\ i <= j
<1>. DEFINE I == MoreMemory(T, q)
<1>1. I \in SUBSET DOMAIN T
  BY DEF MoreMemory
<1>2. CASE I = {}
  BY <1>2 DEF GetScaleUpMemoryQuota
<1>3. CASE I # {}
  <2>1. \E i \in I : \A j \in I : T[i].cpu < T[j].cpu \/ (T[i].cpu = T[j].cpu /\ i <= j)
    BY <1>1, <1>3, LeastCpuEntry
  <2>. QED  BY <1>3, <2>1 DEF GetScaleUpMemoryQuota
<1>. QED  BY <1>2, <1>3

\* Scaling CPU down takes the entry with the most memory of those with less
\* CPU.
LEMMA DownCpuChoice ==
    ASSUME NEW T \in Seq(Quota), NEW q
    PROVE  \/ LessCpu(T, q) = {} /\ GetScaleDownCpuQuota(T, q) = q
           \/ \E i \in LessCpu(T, q) :
                 /\ GetScaleDownCpuQuota(T, q) = T[i]
                 /\ \A j \in LessCpu(T, q) : \/ T[i].mem > T[j].mem
                                             \/ T[i].mem = T[j].mem /\ i <= j
<1>. DEFINE I == LessCpu(T, q)
<1>1. I \in SUBSET DOMAIN T
  BY DEF LessCpu
<1>2. CASE I = {}
  BY <1>2 DEF GetScaleDownCpuQuota
<1>3. CASE I # {}
  <2>1. \E i \in I : \A j \in I : T[i].mem > T[j].mem \/ (T[i].mem = T[j].mem /\ i <= j)
    BY <1>1, <1>3, GreatestMemEntry
  <2>. QED  BY <1>3, <2>1 DEF GetScaleDownCpuQuota
<1>. QED  BY <1>2, <1>3

\* Scaling memory down takes the entry with the most CPU of those with less
\* memory and more CPU than maxQuota.
LEMMA DownMemoryChoice ==
    ASSUME NEW T \in Seq(Quota), NEW q
    PROVE  \/ LessMemory(T, q) = {} /\ GetScaleDownMemoryQuota(T, q) = q
           \/ \E i \in LessMemory(T, q) :
                 /\ GetScaleDownMemoryQuota(T, q) = T[i]
                 /\ \A j \in LessMemory(T, q) : \/ T[i].cpu > T[j].cpu
                                                \/ T[i].cpu = T[j].cpu /\ i <= j
<1>. DEFINE I == LessMemory(T, q)
<1>1. I \in SUBSET DOMAIN T
  BY DEF LessMemory
<1>2. CASE I = {}
  BY <1>2 DEF GetScaleDownMemoryQuota
<1>3. CASE I # {}
  <2>1. \E i \in I : \A j \in I : T[i].cpu > T[j].cpu \/ (T[i].cpu = T[j].cpu /\ i <= j)
    BY <1>1, <1>3, GreatestCpuEntry
  <2>. QED  BY <1>3, <2>1 DEF GetScaleDownMemoryQuota
<1>. QED  BY <1>2, <1>3

\* The floor is the entry with the most memory of those with at most as much.
LEMMA FloorChoice ==
    ASSUME NEW T \in Seq(Quota), NEW q
    PROVE  \/ AtMostMemory(T, q) = {} /\ GetFloorMemoryQuota(T, q) = q
           \/ \E i \in AtMostMemory(T, q) :
                 /\ GetFloorMemoryQuota(T, q) = T[i]
                 /\ \A j \in AtMostMemory(T, q) : \/ T[i].mem > T[j].mem
                                                  \/ T[i].mem = T[j].mem /\ i <= j
<1>. DEFINE I == AtMostMemory(T, q)
<1>1. I \in SUBSET DOMAIN T
  BY DEF AtMostMemory
<1>2. CASE I = {}
  BY <1>2 DEF GetFloorMemoryQuota
<1>3. CASE I # {}
  <2>1. \E i \in I : \A j \in I : T[i].mem > T[j].mem \/ (T[i].mem = T[j].mem /\ i <= j)
    BY <1>1, <1>3, GreatestMemEntry
  <2>. QED  BY <1>3, <2>1 DEF GetFloorMemoryQuota
<1>. QED  BY <1>2, <1>3
-----------------------------------------------------------------------------
(* What a caller may rely on, for every table.                             *)

\* Every function returns a quota: the one it was given or a table entry.
LEMMA ResultsAreQuotas ==
    ASSUME NEW T \in Seq(Quota), NEW q \in Quota
    PROVE  /\ GetScaleUpCpuQuota(T, q) \in {q} \cup Rungs(T)
           /\ GetScaleUpMemoryQuota(T, q) \in {q} \cup Rungs(T)
           /\ GetScaleDownCpuQuota(T, q) \in {q} \cup Rungs(T)
           /\ GetScaleDownMemoryQuota(T, q) \in {q} \cup Rungs(T)
           /\ GetFloorMemoryQuota(T, q) \in {q} \cup Rungs(T)
           /\ Rungs(T) \subseteq Quota
<1>1. GetScaleUpCpuQuota(T, q) \in {q} \cup Rungs(T)
  BY UpCpuChoice DEF MoreCpu, Rungs
<1>2. GetScaleUpMemoryQuota(T, q) \in {q} \cup Rungs(T)
  BY UpMemoryChoice DEF MoreMemory, Rungs
<1>3. GetScaleDownCpuQuota(T, q) \in {q} \cup Rungs(T)
  BY DownCpuChoice DEF LessCpu, Rungs
<1>4. GetScaleDownMemoryQuota(T, q) \in {q} \cup Rungs(T)
  BY DownMemoryChoice DEF LessMemory, Rungs
<1>5. GetFloorMemoryQuota(T, q) \in {q} \cup Rungs(T)
  BY FloorChoice DEF AtMostMemory, Rungs
<1>6. Rungs(T) \subseteq Quota
  BY TableFacts DEF Rungs
<1>. QED  BY <1>1, <1>2, <1>3, <1>4, <1>5, <1>6

(***************************************************************************)
(* GetFloorMemoryQuota never raises a pod above its limits: the CPU stays, *)
(* the memory is at most the limit, so memory.high never exceeds it.       *)
(***************************************************************************)
THEOREM FloorNotAbove ==
    ASSUME NEW T \in Seq(Quota), NEW q \in Quota
    PROVE  /\ GetFloorMemoryQuota(T, q) \in Quota
           /\ GetFloorMemoryQuota(T, q).cpu = q.cpu
           /\ GetFloorMemoryQuota(T, q).mem <= q.mem
<1>1. GetFloorMemoryQuota(T, q) \in Quota
  BY ResultsAreQuotas
<1>2. q.mem \in Nat
  BY DEF Quota
<1>3. CASE GetFloorMemoryQuota(T, q) = q
  BY <1>1, <1>2, <1>3
<1>4. CASE \E i \in AtMostMemory(T, q) : GetFloorMemoryQuota(T, q) = T[i]
  BY <1>1, <1>4 DEF AtMostMemory
<1>. QED  BY <1>3, <1>4, FloorChoice

(***************************************************************************)
(* GetScaleUpCpuQuota either keeps the quota or asks for more CPU, and     *)
(* GetScaleDownCpuQuota either keeps it or asks for less.                  *)
(***************************************************************************)
THEOREM ScaleCpuDirection ==
    ASSUME NEW T \in Seq(Quota), NEW q \in Quota
    PROVE  /\ \/ GetScaleUpCpuQuota(T, q) = q
              \/ GetScaleUpCpuQuota(T, q).cpu > q.cpu
           /\ \/ GetScaleDownCpuQuota(T, q) = q
              \/ GetScaleDownCpuQuota(T, q).cpu < q.cpu
<1>1. \/ GetScaleUpCpuQuota(T, q) = q
      \/ GetScaleUpCpuQuota(T, q).cpu > q.cpu
  BY UpCpuChoice DEF MoreCpu
<1>2. \/ GetScaleDownCpuQuota(T, q) = q
      \/ GetScaleDownCpuQuota(T, q).cpu < q.cpu
  BY DownCpuChoice DEF LessCpu
<1>. QED  BY <1>1, <1>2

(***************************************************************************)
(* GetScaleDownMemoryQuota never scales anything down: it only accepts     *)
(* entries with more CPU than maxQuota, and a table has none.              *)
(***************************************************************************)
THEOREM ScaleDownMemoryIdle ==
    ASSUME NEW T \in Seq(Quota), NEW q \in Quota,
           \A i \in DOMAIN T : T[i].cpu <= maxQuota.cpu
    PROVE  GetScaleDownMemoryQuota(T, q) = q
<1>1. maxQuota.cpu \in Nat
  BY QuotaConstants DEF Quota
<1>2. LessMemory(T, q) = {}
  BY <1>1, TableFacts DEF LessMemory
<1>. QED  BY <1>2 DEF GetScaleDownMemoryQuota

\* The round trip through a pod's limits, for one entry of a spaced table.
LEMMA SpacedRoundTrip ==
    ASSUME NEW T \in Seq(Quota), Spaced(T), NEW k \in DOMAIN T
    PROVE  GetFloorMemoryQuota(T, WithDelta(T[k])) = T[k]
<1>. DEFINE q == WithDelta(T[k])
            I == AtMostMemory(T, q)
<1>1. T[k] \in Quota /\ T[k].mem \in Nat /\ T[k].cpu \in Nat
  BY TableFacts
<1>2. q.cpu = T[k].cpu /\ q.mem = T[k].mem + DeltaMemory /\ q.mem \in Nat
  BY <1>1, QuotaConstants DEF WithDelta, Quota
<1>3. k \in I
  BY <1>1, <1>2, QuotaConstants DEF AtMostMemory, Spaced
<1>4. PICK i \in I :
        /\ GetFloorMemoryQuota(T, q) = T[i]
        /\ \A j \in I : T[i].mem > T[j].mem \/ (T[i].mem = T[j].mem /\ i <= j)
  <2>. HIDE DEF q
  <2>. QED  BY <1>3, FloorChoice
<1>5. /\ i \in DOMAIN T /\ T[i].cpu = T[k].cpu
      /\ T[i].mem <= T[k].mem + DeltaMemory /\ T[i].mem >= T[k].mem
      /\ T[i] \in Quota /\ T[i].mem \in Nat
  <2>1. i \in DOMAIN T /\ T[i].cpu = T[k].cpu /\ T[i].mem <= T[k].mem + DeltaMemory
    BY <1>2, <1>4 DEF AtMostMemory
  <2>2. T[i] \in Quota /\ T[i].mem \in Nat
    BY <2>1, TableFacts
  <2>3. T[i].mem >= T[k].mem
    BY <1>1, <1>3, <1>4, <2>2
  <2>. QED  BY <2>1, <2>2, <2>3
<1>6. T[i].mem = T[k].mem
  BY <1>1, <1>5, QuotaConstants DEF Spaced
<1>7. T[i] = T[k]
  BY <1>1, <1>5, <1>6 DEF Quota
<1>. QED  BY <1>4, <1>7
\* The choices of the three scans on a ladder.
LEMMA LadderSteps ==
    ASSUME NEW T \in Seq(Quota), IsLadder(T), NEW k \in 1..(Len(T) - 1)
    PROVE  /\ GetScaleUpCpuQuota(T, T[k])       = T[k + 1]
           /\ GetScaleUpMemoryQuota(T, T[k])    = T[k + 1]
           /\ GetScaleDownCpuQuota(T, T[k + 1]) = T[k]
<1>. DEFINE n == Len(T)
<1>1. n \in Nat /\ DOMAIN T = 1..n /\ k \in 1..n /\ k + 1 \in 1..n
  BY TableFacts
<1>2. \A i \in 1..n : T[i].cpu \in Nat /\ T[i].mem \in Nat
  BY TableFacts
<1>3. \A i, j \in 1..n : i < j => T[i].cpu < T[j].cpu /\ T[i].mem < T[j].mem
  BY <1>1 DEF IsLadder
<1>4. \A i \in 1..n : T[i].mem > 0 /\ T[i].mem < maxQuota.mem /\ T[i].cpu < maxQuota.cpu
  BY <1>1 DEF IsLadder, minQuota
<1>. HIDE DEF n
<1>5. \A i \in 1..n : /\ i < k + 1 => i = k \/ (T[i].cpu < T[k].cpu /\ T[i].mem < T[k].mem)
                      /\ i > k => i = k + 1 \/ (T[k+1].cpu < T[i].cpu /\ T[k+1].mem < T[i].mem)
  BY <1>1, <1>3
<1>6. \A i \in 1..n : /\ T[i].cpu > T[k].cpu <=> i > k
                      /\ T[i].mem > T[k].mem <=> i > k
                      /\ T[i].cpu < T[k+1].cpu <=> i < k + 1
  BY <1>1, <1>2, <1>3
<1>7. GetScaleUpCpuQuota(T, T[k]) = T[k + 1]
  <2>1. MoreCpu(T, T[k]) = {i \in 1..n : i > k}
    BY <1>1, <1>4, <1>6 DEF MoreCpu
  <2>2. PICK i \in MoreCpu(T, T[k]) :
           /\ GetScaleUpCpuQuota(T, T[k]) = T[i]
           /\ \A j \in MoreCpu(T, T[k]) : T[i].mem < T[j].mem \/ (T[i].mem = T[j].mem /\ i <= j)
    <3>1. k + 1 \in MoreCpu(T, T[k])
      BY <1>1, <2>1
    <3>. QED  BY <3>1, UpCpuChoice
  <2>3. i = k + 1
    <3>1. i \in 1..n /\ i > k /\ k + 1 \in MoreCpu(T, T[k])
      BY <1>1, <2>1
    <3>2. T[i].mem <= T[k + 1].mem
      BY <1>1, <1>2, <2>2, <3>1
    <3>. QED  BY <1>1, <1>2, <1>5, <3>1, <3>2
  <2>. QED  BY <2>2, <2>3
<1>8. GetScaleUpMemoryQuota(T, T[k]) = T[k + 1]
  <2>1. MoreMemory(T, T[k]) = {i \in 1..n : i > k}
    BY <1>1, <1>4, <1>6 DEF MoreMemory
  <2>2. PICK i \in MoreMemory(T, T[k]) :
           /\ GetScaleUpMemoryQuota(T, T[k]) = T[i]
           /\ \A j \in MoreMemory(T, T[k]) : T[i].cpu < T[j].cpu \/ (T[i].cpu = T[j].cpu /\ i <= j)
    <3>1. k + 1 \in MoreMemory(T, T[k])
      BY <1>1, <2>1
    <3>. QED  BY <3>1, UpMemoryChoice
  <2>3. i = k + 1
    <3>1. i \in 1..n /\ i > k /\ k + 1 \in MoreMemory(T, T[k])
      BY <1>1, <2>1
    <3>2. T[i].cpu <= T[k + 1].cpu
      BY <1>1, <1>2, <2>2, <3>1
    <3>. QED  BY <1>1, <1>2, <1>5, <3>1, <3>2
  <2>. QED  BY <2>2, <2>3
<1>9. GetScaleDownCpuQuota(T, T[k + 1]) = T[k]
  <2>1. LessCpu(T, T[k + 1]) = {i \in 1..n : i < k + 1}
    BY <1>1, <1>4, <1>6 DEF LessCpu, minQuota
  <2>2. PICK i \in LessCpu(T, T[k + 1]) :
           /\ GetScaleDownCpuQuota(T, T[k + 1]) = T[i]
           /\ \A j \in LessCpu(T, T[k + 1]) : T[i].mem > T[j].mem \/ (T[i].mem = T[j].mem /\ i <= j)
    <3>1. k \in LessCpu(T, T[k + 1])
      BY <1>1, <2>1
    <3>. QED  BY <3>1, DownCpuChoice
  <2>3. i = k
    <3>1. i \in 1..n /\ i < k + 1 /\ k \in LessCpu(T, T[k + 1])
      BY <1>1, <2>1
    <3>2. T[i].mem >= T[k].mem
      BY <1>1, <1>2, <2>2, <3>1
    <3>. QED  BY <1>1, <1>2, <1>5, <3>1, <3>2
  <2>. QED  BY <2>2, <2>3
<1>. QED  BY <1>7, <1>8, <1>9

\* Multiples of a positive number are in order.
LEMMA ProductGrows ==
    ASSUME NEW i \in Nat, NEW j \in Nat, NEW c \in Nat \ {0}, i < j
    PROVE  i * c \in Nat /\ j * c \in Nat /\ i * c < j * c
<1>1. PICK d \in Nat : d > 0 /\ j = i + d
  <2>1. j - i \in Nat /\ j - i > 0 /\ j = i + (j - i)
    OBVIOUS
  <2>. QED  BY <2>1
<1>2. j * c = i * c + d * c
  BY <1>1
<1>3. d * c \in Nat /\ d * c > 0 /\ i * c \in Nat
  BY <1>1
<1>. QED  BY <1>2, <1>3

(***************************************************************************)
(* The table of init() is a ladder and is spaced, whatever its length, as  *)
(* long as its last entry stays below maxQuota and one CPU counts an even, *)
(* positive number of millicores.                                          *)
(***************************************************************************)
THEOREM InitTableIsLadder ==
    ASSUME NEW n \in Nat, NEW h \in Nat \ {0}, MilliPerCpu = 2 * h,
           n * BasicGiBValue < maxQuota.mem, n * h < maxQuota.cpu
    PROVE  /\ InitTable(n) \in Seq(Quota)
           /\ IsLadder(InitTable(n))
           /\ Spaced(InitTable(n))
<1>. DEFINE T == InitTable(n)
            C(i) == i * h
            M(i) == i * BasicGiBValue
<1>1. \A i \in 1..n : (i * MilliPerCpu) \div 2 = C(i)
  <2>. TAKE i \in 1..n
  <2>1. i * MilliPerCpu = 2 * (i * h)
    OBVIOUS
  <2>2. i * h \in Nat
    OBVIOUS
  <2>. QED  BY <2>1, <2>2
<1>2. /\ T = [i \in 1..n |-> [cpu |-> C(i), mem |-> M(i)]]
      /\ DOMAIN T = 1..n
      /\ \A i \in 1..n : T[i].cpu = C(i) /\ T[i].mem = M(i)
  BY <1>1 DEF InitTable
<1>3. \A i, j \in 1..n : i < j => C(i) < C(j) /\ M(i) < M(j)
  <2>. SUFFICES ASSUME NEW i \in 1..n, NEW j \in 1..n, i < j
                PROVE  C(i) < C(j) /\ M(i) < M(j)
    OBVIOUS
  <2>1. i \in Nat /\ j \in Nat
    OBVIOUS
  <2>. QED  BY <2>1, ProductGrows, QuotaConstants
<1>4. \A i \in 1..n : /\ C(i) \in Nat /\ M(i) \in Nat /\ M(i) > 0
                      /\ C(i) <= C(n) /\ M(i) <= M(n)
  <2>. TAKE i \in 1..n
  <2>1. C(i) \in Nat /\ M(i) \in Nat /\ M(i) > 0 /\ n \in 1..n
    BY QuotaConstants
  <2>2. C(n) \in Nat /\ M(n) \in Nat /\ n \in Nat /\ i \in Nat /\ (i = n \/ i < n)
    BY QuotaConstants
  <2>. HIDE DEF C, M
  <2>. QED  BY <1>3, <2>1, <2>2
<1>5. /\ maxQuota.mem \in Nat /\ maxQuota.cpu \in Nat
      /\ C(n) < maxQuota.cpu /\ M(n) < maxQuota.mem
      /\ C(n) \in Nat /\ M(n) \in Nat
  BY QuotaConstants DEF Quota
<1>. HIDE DEF C, M, T
<1>6. T \in Seq(Quota)
  <2>1. T \in [1..n -> Quota]
    BY <1>2, <1>4 DEF Quota
  <2>. QED  BY <2>1
<1>7. IsLadder(T)
  <2>1. \A i \in 1..n : /\ T[i].mem > minQuota.mem /\ T[i].mem < maxQuota.mem
                        /\ T[i].cpu < maxQuota.cpu
    BY <1>2, <1>4, <1>5 DEF minQuota
  <2>2. \A i, j \in 1..n : i < j => T[i].cpu < T[j].cpu /\ T[i].mem < T[j].mem
    BY <1>2, <1>3
  <2>. QED  BY <1>2, <2>1, <2>2 DEF IsLadder
<1>8. Spaced(T)
  <2>1. \A i, j \in 1..n : C(i) = C(j) => i = j
    BY <1>3, <1>4
  <2>2. \A i \in 1..n : ~(M(i) < M(i))
    BY <1>4
  <2>. QED  BY <1>2, <1>4, <2>1, <2>2 DEF Spaced
<1>. QED  BY <1>6, <1>7, <1>8 DEF T

\* The limits that are written for a quota are a quota.
LEMMA WithDeltaType ==
    ASSUME NEW q \in Quota
    PROVE  WithDelta(q) \in Quota
<1>1. q.mem \in Nat /\ q.mem + DeltaMemory \in Nat
  BY QuotaConstants DEF Quota
<1>. QED  BY <1>1 DEF WithDelta, Quota
=============================================================================
