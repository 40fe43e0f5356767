---------------------------- MODULE ManagerProofs ----------------------------
(***************************************************************************)
(* Type correctness of Manager, the invariant on the way of a pod to its   *)
(* worker, and from it that Manager implements Mailboxes: for any number   *)
(* of names and calls, any capacity of the channels and every build.      *)
(***************************************************************************)
EXTENDS Manager, TLAPS

-----------------------------------------------------------------------------
(* Channels.                                                               *)

\* What Append does to a channel of pods or events.
LEMMA AppendFacts ==
    ASSUME NEW S, NEW s \in Seq(S), NEW e \in S
    PROVE  /\ Append(s, e) \in Seq(S)
           /\ Len(Append(s, e)) = Len(s) + 1 /\ Len(s) \in Nat
           /\ DOMAIN s = 1..Len(s) /\ DOMAIN Append(s, e) = 1..(Len(s) + 1)
           /\ \A i \in 1..Len(s) : Append(s, e)[i] = s[i]
           /\ Append(s, e)[Len(s) + 1] = e
OBVIOUS

\* What taking the first element does to it.
LEMMA TailFacts ==
    ASSUME NEW S, NEW s \in Seq(S), s # <<>>
    PROVE  /\ Tail(s) \in Seq(S) /\ Head(s) \in S /\ Head(s) = s[1]
           /\ Len(Tail(s)) = Len(s) - 1 /\ Len(s) \in Nat \ {0}
           /\ DOMAIN s = 1..Len(s) /\ DOMAIN Tail(s) = 1..(Len(s) - 1)
           /\ \A i \in 1..(Len(s) - 1) : Tail(s)[i] = s[i + 1]
OBVIOUS

\* An index of a channel with one element more is an old one or the last.
LEMMA IndexOfAppend ==
    ASSUME NEW n \in Nat, NEW i \in 1..(n + 1)  PROVE i \in 1..n \/ i = n + 1
OBVIOUS

\* The calls for name n in a channel of pods, and whether those for each
\* name increase; the same for a channel of events.
PodCalls(s, n)   == {s[i].call : i \in {j \in DOMAIN s : s[j].name = n}}
PodsInOrder(s)  == \A i, j \in DOMAIN s : i < j /\ s[i].name = s[j].name => s[i].call < s[j].call
EventCalls(s)    == {s[i].call : i \in DOMAIN s}
EventsInOrder(s) == \A i, j \in DOMAIN s : i < j => s[i].call < s[j].call

\* A pod that is appended adds its call to those for its name, and keeps
\* them in order if it is greater.
LEMMA AppendPod ==
    ASSUME NEW s \in Seq(Pod), NEW p \in Pod
    PROVE  /\ \A n : PodCalls(Append(s, p), n) = PodCalls(s, n) \cup IF n = p.name THEN {p.call} ELSE {}
           /\ PodsInOrder(s) /\ (\A v \in PodCalls(s, p.name) : v < p.call) => PodsInOrder(Append(s, p))
<1>. DEFINE t == Append(s, p)
<1>1. /\ Len(s) \in Nat /\ DOMAIN s = 1..Len(s) /\ DOMAIN t = 1..(Len(s) + 1)
      /\ \A i \in 1..Len(s) : t[i] = s[i]
      /\ t[Len(s) + 1] = p
  BY AppendFacts
<1>. HIDE DEF t
<1>2. ASSUME NEW n, NEW v \in PodCalls(t, n)
      PROVE  v \in PodCalls(s, n) \cup IF n = p.name THEN {p.call} ELSE {}
  <2>1. PICK i \in 1..(Len(s) + 1) : t[i].name = n /\ v = t[i].call
    BY <1>1, <1>2 DEF PodCalls
  <2>2. CASE i \in 1..Len(s)
    BY <1>1, <2>1, <2>2 DEF PodCalls
  <2>3. CASE i = Len(s) + 1
    BY <1>1, <2>1, <2>3
  <2>. QED  BY <1>1, <2>2, <2>3, IndexOfAppend
<1>3. ASSUME NEW n, NEW v \in PodCalls(s, n) \cup IF n = p.name THEN {p.call} ELSE {}
      PROVE  v \in PodCalls(t, n)
  <2>1. CASE v \in PodCalls(s, n)
    <3>1. PICK i \in 1..Len(s) : s[i].name = n /\ v = s[i].call
      BY <1>1, <2>1 DEF PodCalls
    <3>. QED  BY <1>1, <3>1 DEF PodCalls
  <2>2. CASE n = p.name /\ v = p.call
    BY <1>1, <2>2 DEF PodCalls
  <2>. QED  BY <1>3, <2>1, <2>2
<1>4. ASSUME PodsInOrder(s), \A v \in PodCalls(s, p.name) : v < p.call,
             NEW i \in DOMAIN t, NEW j \in DOMAIN t, i < j, t[i].name = t[j].name
      PROVE  t[i].call < t[j].call
  <2>1. i \in 1..Len(s)
    BY <1>1, <1>4
  <2>2. CASE j \in 1..Len(s)
    BY <1>1, <1>4, <2>1, <2>2 DEF PodsInOrder
  <2>3. CASE j = Len(s) + 1
    <3>1. s[i].call \in PodCalls(s, p.name)
      BY <1>1, <1>4, <2>1, <2>3 DEF PodCalls
    <3>. QED  BY <1>1, <1>4, <2>1, <2>3, <3>1
  <2>. QED  BY <1>1, <2>2, <2>3, IndexOfAppend
<1>5. \A n : PodCalls(t, n) = PodCalls(s, n) \cup IF n = p.name THEN {p.call} ELSE {}
  BY <1>2, <1>3
<1>6. PodsInOrder(s) /\ (\A v \in PodCalls(s, p.name) : v < p.call) => PodsInOrder(t)
  BY <1>4 DEF PodsInOrder
<1>. QED  BY <1>5, <1>6 DEF t

\* A pod that is taken was the least of its name.
LEMMA TailPod ==
    ASSUME NEW s \in Seq(Pod), s # <<>>
    PROVE  /\ \A n : PodCalls(s, n) =
                     PodCalls(Tail(s), n) \cup IF n = Head(s).name THEN {Head(s).call} ELSE {}
           /\ PodsInOrder(s) => /\ PodsInOrder(Tail(s))
                                /\ \A v \in PodCalls(Tail(s), Head(s).name) : Head(s).call < v
<1>. DEFINE t == Tail(s)
            p == Head(s)
<1>1. /\ p \in Pod /\ p = s[1]
      /\ Len(s) \in Nat \ {0} /\ DOMAIN s = 1..Len(s) /\ DOMAIN t = 1..(Len(s) - 1)
      /\ \A i \in 1..(Len(s) - 1) : t[i] = s[i + 1]
  BY TailFacts
<1>. HIDE DEF t, p
<1>0. \A i \in 1..(Len(s) - 1) : i + 1 \in 1..Len(s) /\ 1 < i + 1
  BY <1>1
<1>2. ASSUME NEW n, NEW v \in PodCalls(s, n)
      PROVE  v \in PodCalls(t, n) \cup IF n = p.name THEN {p.call} ELSE {}
  <2>1. PICK i \in 1..Len(s) : s[i].name = n /\ v = s[i].call
    BY <1>1, <1>2 DEF PodCalls
  <2>2. CASE i = 1
    BY <1>1, <2>1, <2>2
  <2>3. CASE i # 1
    <3>1. i - 1 \in 1..(Len(s) - 1) /\ t[i - 1] = s[i]
      BY <1>1, <2>1, <2>3
    <3>. QED  BY <1>1, <2>1, <3>1 DEF PodCalls
  <2>. QED  BY <2>2, <2>3
<1>3. ASSUME NEW n, NEW v \in PodCalls(t, n) \cup IF n = p.name THEN {p.call} ELSE {}
      PROVE  v \in PodCalls(s, n)
  <2>1. CASE v \in PodCalls(t, n)
    <3>1. PICK i \in 1..(Len(s) - 1) : t[i].name = n /\ v = t[i].call
      BY <1>1, <2>1 DEF PodCalls
    <3>. QED  BY <1>0, <1>1, <3>1 DEF PodCalls
  <2>2. CASE n = p.name /\ v = p.call
    <3>1. 1 \in DOMAIN s
      BY <1>1
    <3>. QED  BY <1>1, <2>2, <3>1 DEF PodCalls
  <2>. QED  BY <1>3, <2>1, <2>2
<1>4. ASSUME PodsInOrder(s), NEW i \in DOMAIN t, NEW j \in DOMAIN t, i < j, t[i].name = t[j].name
      PROVE  t[i].call < t[j].call
  <2>1. i + 1 \in DOMAIN s /\ j + 1 \in DOMAIN s /\ i + 1 < j + 1 /\ t[i] = s[i + 1] /\ t[j] = s[j + 1]
    BY <1>0, <1>1, <1>4
  <2>. QED  BY <1>4, <2>1 DEF PodsInOrder
<1>5. ASSUME PodsInOrder(s), NEW v \in PodCalls(t, p.name)  PROVE p.call < v
  <2>1. PICK i \in 1..(Len(s) - 1) : t[i].name = p.name /\ v = t[i].call
    BY <1>1, <1>5 DEF PodCalls
  <2>2. 1 \in DOMAIN s /\ i + 1 \in DOMAIN s /\ 1 < i + 1 /\ t[i] = s[i + 1]
    BY <1>0, <1>1, <2>1
  <2>. QED  BY <1>1, <1>5, <2>1, <2>2 DEF PodsInOrder
<1>6. \A n : PodCalls(s, n) = PodCalls(t, n) \cup IF n = p.name THEN {p.call} ELSE {}
  BY <1>2, <1>3
<1>7. PodsInOrder(s) => PodsInOrder(t) /\ \A v \in PodCalls(t, p.name) : p.call < v
  BY <1>4, <1>5 DEF PodsInOrder
<1>. QED  BY <1>6, <1>7 DEF t, p

\* The same for the channel of a worker.
LEMMA AppendEvent ==
    ASSUME NEW s \in Seq(Event), NEW e \in Event
    PROVE  /\ EventCalls(Append(s, e)) = EventCalls(s) \cup {e.call}
           /\ EventsInOrder(s) /\ (\A v \in EventCalls(s) : v < e.call) => EventsInOrder(Append(s, e))
<1>. DEFINE t == Append(s, e)
<1>1. /\ Len(s) \in Nat /\ DOMAIN s = 1..Len(s) /\ DOMAIN t = 1..(Len(s) + 1)
      /\ \A i \in 1..Len(s) : t[i] = s[i]
      /\ t[Len(s) + 1] = e
  BY AppendFacts
<1>. HIDE DEF t
<1>2. ASSUME NEW v \in EventCalls(t)  PROVE v \in EventCalls(s) \cup {e.call}
  <2>1. PICK i \in 1..(Len(s) + 1) : v = t[i].call
    BY <1>1, <1>2 DEF EventCalls
  <2>2. CASE i \in 1..Len(s)
    BY <1>1, <2>1, <2>2 DEF EventCalls
  <2>3. CASE i = Len(s) + 1
    BY <1>1, <2>1, <2>3
  <2>. QED  BY <1>1, <2>2, <2>3, IndexOfAppend
<1>3. ASSUME NEW v \in EventCalls(s) \cup {e.call}  PROVE v \in EventCalls(t)
  <2>1. CASE v \in EventCalls(s)
    <3>1. PICK i \in 1..Len(s) : v = s[i].call
      BY <1>1, <2>1 DEF EventCalls
    <3>. QED  BY <1>1, <3>1 DEF EventCalls
  <2>2. CASE v = e.call
    BY <1>1, <2>2 DEF EventCalls
  <2>. QED  BY <1>3, <2>1, <2>2
<1>4. ASSUME EventsInOrder(s), \A v \in EventCalls(s) : v < e.call,
             NEW i \in DOMAIN t, NEW j \in DOMAIN t, i < j
      PROVE  t[i].call < t[j].call
  <2>1. i \in 1..Len(s)
    BY <1>1, <1>4
  <2>2. CASE j \in 1..Len(s)
    BY <1>1, <1>4, <2>1, <2>2 DEF EventsInOrder
  <2>3. CASE j = Len(s) + 1
    BY <1>1, <1>4, <2>1, <2>3 DEF EventCalls
  <2>. QED  BY <1>1, <2>2, <2>3, IndexOfAppend
<1>5. EventCalls(t) = EventCalls(s) \cup {e.call}
  BY <1>2, <1>3
<1>6. EventsInOrder(s) /\ (\A v \in EventCalls(s) : v < e.call) => EventsInOrder(t)
  BY <1>4 DEF EventsInOrder
<1>. QED  BY <1>5, <1>6 DEF t

\* Taking the first event of a channel takes the oldest call.
LEMMA TailEvent ==
    ASSUME NEW s \in Seq(Event), s # <<>>
    PROVE  /\ EventCalls(s) = EventCalls(Tail(s)) \cup {Head(s).call}
           /\ EventsInOrder(s) => /\ EventsInOrder(Tail(s))
                                  /\ \A v \in EventCalls(Tail(s)) : Head(s).call < v
<1>. DEFINE t == Tail(s)
            e == Head(s)
<1>1. /\ e \in Event /\ e = s[1]
      /\ Len(s) \in Nat \ {0} /\ DOMAIN s = 1..Len(s) /\ DOMAIN t = 1..(Len(s) - 1)
      /\ \A i \in 1..(Len(s) - 1) : t[i] = s[i + 1]
  BY TailFacts
<1>. HIDE DEF t, e
<1>0. 1 \in DOMAIN s /\ \A i \in 1..(Len(s) - 1) : i + 1 \in 1..Len(s) /\ 1 < i + 1
  BY <1>1
<1>2. ASSUME NEW v \in EventCalls(s)  PROVE v \in EventCalls(t) \cup {e.call}
  <2>1. PICK i \in 1..Len(s) : v = s[i].call
    BY <1>1, <1>2 DEF EventCalls
  <2>2. CASE i = 1
    BY <1>1, <2>1, <2>2
  <2>3. CASE i # 1
    <3>1. i - 1 \in 1..(Len(s) - 1) /\ t[i - 1] = s[i]
      BY <1>1, <2>1, <2>3
    <3>. QED  BY <1>1, <2>1, <3>1 DEF EventCalls
  <2>. QED  BY <2>2, <2>3
<1>3. ASSUME NEW v \in EventCalls(t) \cup {e.call}  PROVE v \in EventCalls(s)
  <2>1. CASE v \in EventCalls(t)
    <3>1. PICK i \in 1..(Len(s) - 1) : v = t[i].call
      BY <1>1, <2>1 DEF EventCalls
    <3>. QED  BY <1>0, <1>1, <3>1 DEF EventCalls
  <2>2. CASE v = e.call
    BY <1>0, <1>1, <2>2 DEF EventCalls
  <2>. QED  BY <1>3, <2>1, <2>2
<1>4. ASSUME EventsInOrder(s), NEW i \in DOMAIN t, NEW j \in DOMAIN t, i < j
      PROVE  t[i].call < t[j].call
  <2>1. i + 1 \in DOMAIN s /\ j + 1 \in DOMAIN s /\ i + 1 < j + 1 /\ t[i] = s[i + 1] /\ t[j] = s[j + 1]
    BY <1>0, <1>1, <1>4
  <2>. QED  BY <1>4, <2>1 DEF EventsInOrder
<1>5. ASSUME EventsInOrder(s), NEW v \in EventCalls(t)  PROVE e.call < v
  <2>1. PICK i \in 1..(Len(s) - 1) : v = t[i].call
    BY <1>1, <1>5 DEF EventCalls
  <2>. QED  BY <1>0, <1>1, <1>5, <2>1 DEF EventsInOrder
<1>6. EventCalls(s) = EventCalls(t) \cup {e.call}
  BY <1>2, <1>3
<1>7. EventsInOrder(s) => EventsInOrder(t) /\ \A v \in EventCalls(t) : e.call < v
  BY <1>4, <1>5 DEF EventsInOrder
<1>. QED  BY <1>6, <1>7 DEF t, e

-----------------------------------------------------------------------------
(* Type correctness.                                                       *)

\* The initial states are well typed.
LEMMA TypeOKInit == Init => TypeOK
<1>. SUFFICES ASSUME Init PROVE TypeOK
  OBVIOUS
<1>1. 0 \in 0..MaxCalls /\ <<>> \in Seq(Pod) /\ <<>> \in Seq(Event) /\ Len(<<>>) = 0
  BY ManagerConstants
<1>2. Len(eventC) <= Cap /\ \A n \in Names : Len(chan[n]) <= WorkerCap
  BY <1>1, ManagerConstants DEF Init
<1>. QED  BY <1>1, <1>2 DEF Init, TypeOK

\* NewPod numbers its calls within the bound.
LEMMA NextCall ==
    ASSUME TypeOK, NEW n \in Names, told[n] < MaxCalls
    PROVE  told[n] \in Nat /\ told[n] + 1 \in Calls
BY ManagerConstants DEF TypeOK, Calls

\* Every step keeps the variables in their types.
LEMMA TypeOKStep == TypeOK /\ [Next]_vars => TypeOK'
<1>. SUFFICES ASSUME TypeOK, [Next]_vars PROVE TypeOK'
  OBVIOUS
<1>1. CASE UNCHANGED vars
  BY <1>1 DEF vars, workers, TypeOK
<1>2. CASE Stop \/ Lock \/ Known \/ Leave
  <2>1. {ctxDone', panicked', mux'} \subseteq BOOLEAN
    BY <1>2 DEF Stop, Lock, Known, Leave, TypeOK
  <2>. QED  BY <1>2, <2>1 DEF Stop, Lock, Known, Leave, workers, TypeOK
<1>3. CASE TakePod
  <2>1. /\ Head(eventC) \in Pod /\ Tail(eventC) \in Seq(Pod)
        /\ Len(Tail(eventC)) = Len(eventC) - 1 /\ Len(eventC) \in Nat
    BY <1>3, TailFacts DEF TakePod, TypeOK
  <2>2. eventC' \in Seq(Pod) /\ Len(eventC') <= Cap
    BY <1>3, <2>1, ManagerConstants DEF TakePod, TypeOK
  <2>. QED  BY <1>3, <2>1, <2>2 DEF TakePod, workers, TypeOK
<1>4. CASE Unknown
  <2>1. PICK p \in hand : \/ cache' = cache \cup {p.name} /\ loop' = [loop EXCEPT ![p.name] = "starting"]
                          \/ UNCHANGED <<cache, loop>>
    BY <1>4 DEF Unknown
  <2>2. p.name \in Names
    BY DEF TypeOK, Pod
  <2>3. cache' \in SUBSET Names /\ loop' \in [Names -> {"none", "starting", "running", "returned"}]
    BY <2>1, <2>2 DEF TypeOK
  <2>4. {ctxDone', panicked', mux'} \subseteq BOOLEAN
    BY <1>4 DEF Unknown, TypeOK
  <2>. QED  BY <1>4, <2>3, <2>4 DEF Unknown, TypeOK
<1>5. CASE SendEvent
  <2>1. PICK p \in hand :
           /\ Len(chan[p.name]) < WorkerCap
           /\ chan' = [chan EXCEPT ![p.name] =
                         Append(@, [typ |-> IF pc = "new" THEN "New" ELSE "Update", call |-> p.call])]
    BY <1>5 DEF SendEvent
  <2>. DEFINE e == [typ |-> IF pc = "new" THEN "New" ELSE "Update", call |-> p.call]
  <2>2. p.name \in Names /\ p.call \in Calls /\ e \in Event
    BY DEF TypeOK, Pod, Event
  <2>. HIDE DEF e
  <2>3. /\ chan[p.name] \in Seq(Event)
        /\ Append(chan[p.name], e) \in Seq(Event)
        /\ Len(Append(chan[p.name], e)) = Len(chan[p.name]) + 1
        /\ Len(chan[p.name]) \in Nat
    BY <2>2, AppendFacts DEF TypeOK
  <2>4. chan' = [chan EXCEPT ![p.name] = Append(chan[p.name], e)]
    BY <2>1 DEF e
  <2>5. chan' \in [Names -> Seq(Event)]
    BY <2>2, <2>3, <2>4 DEF TypeOK
  <2>6. \A n \in Names : Len(chan'[n]) <= WorkerCap
    BY <2>1, <2>2, <2>3, <2>4, ManagerConstants DEF TypeOK
  <2>. QED  BY <1>5, <2>5, <2>6 DEF SendEvent, TypeOK
<1>6. ASSUME NEW n \in Names, NewPod(n)  PROVE TypeOK'
  <2>1. /\ told' = [told EXCEPT ![n] = told[n] + 1]
        /\ eventC' = Append(eventC, [name |-> n, call |-> told[n] + 1])
        /\ told[n] + 1 \in Calls
    BY <1>6, NextCall DEF NewPod
  <2>2. told[n] + 1 \in 0..MaxCalls /\ [name |-> n, call |-> told[n] + 1] \in Pod
    BY <2>1, ManagerConstants DEF Calls, Pod
  <2>3. eventC' \in Seq(Pod) /\ Len(eventC') = Len(eventC) + 1 /\ Len(eventC) \in Nat
    BY <2>1, <2>2, AppendFacts DEF TypeOK
  <2>4. Len(eventC') <= Cap
    BY <1>6, <2>3, ManagerConstants DEF NewPod
  <2>5. told' \in [Names -> 0..MaxCalls]
    BY <2>1, <2>2 DEF TypeOK
  <2>. QED  BY <1>6, <2>3, <2>4, <2>5 DEF NewPod, workers, TypeOK
<1>7. ASSUME NEW n \in Names, WorkerStart(n) \/ WorkerTick(n) \/ WorkerStop(n)  PROVE TypeOK'
  <2>1. loop' \in [Names -> {"none", "starting", "running", "returned"}]
    BY <1>7 DEF WorkerStart, WorkerTick, WorkerStop, TypeOK
  <2>2. toolkit' \in [Names -> BOOLEAN]
    BY <1>7 DEF WorkerStart, WorkerTick, WorkerStop, TypeOK
  <2>3. {ctxDone', panicked', mux'} \subseteq BOOLEAN
    BY <1>7 DEF WorkerStart, WorkerTick, WorkerStop, TypeOK
  <2>. QED  BY <1>7, <2>1, <2>2, <2>3 DEF WorkerStart, WorkerTick, WorkerStop, TypeOK
<1>8. ASSUME NEW n \in Names, WorkerHandle(n)  PROVE TypeOK'
  <2>1. /\ Head(chan[n]) \in Event /\ Tail(chan[n]) \in Seq(Event)
        /\ Len(Tail(chan[n])) = Len(chan[n]) - 1 /\ Len(chan[n]) \in Nat
    BY <1>8, TailFacts DEF WorkerHandle, TypeOK
  <2>2. chan' = [chan EXCEPT ![n] = Tail(chan[n])] /\ handled' = [handled EXCEPT ![n] = Head(chan[n])]
    BY <1>8 DEF WorkerHandle
  <2>3. chan' \in [Names -> Seq(Event)] /\ handled' \in [Names -> Event \cup {NoEvent}]
    BY <2>1, <2>2 DEF TypeOK
  <2>4. \A m \in Names : Len(chan'[m]) <= WorkerCap
    BY <2>1, <2>2, ManagerConstants DEF TypeOK
  <2>5. {ctxDone', panicked', mux'} \subseteq BOOLEAN
    BY <1>8 DEF WorkerHandle, TypeOK
  <2>. QED  BY <1>8, <2>3, <2>4, <2>5 DEF WorkerHandle, TypeOK
<1>. QED  BY <1>1, <1>2, <1>3, <1>4, <1>5, <1>6, <1>7, <1>8 DEF Next, Loop

(***************************************************************************)
(* Every variable of the manager and its workers keeps its type, the       *)
(* channels keep within their capacity.                                    *)
(***************************************************************************)
THEOREM TypeCorrect == Spec => []TypeOK
BY TypeOKInit, TypeOKStep, PTL DEF Spec

-----------------------------------------------------------------------------
(* The way of the calls for one name, by the places where they are: h is   *)
(* the last one taken, A those in the worker's channel, H in the loop's    *)
(* hand, C in the manager's channel, t the last one the manager was told.  *)

Placed(h, A, H, C, t) ==
    /\ Before(A, H) /\ Before(A, C) /\ Before(H, C)
    /\ Before({h}, A \cup H \cup C)
    /\ \A v \in A \cup H \cup C \cup {h} : v <= t

Way == /\ PodsInOrder(eventC)
       /\ \A n \in Names : /\ EventsInOrder(chan[n])
                            /\ Placed(handled[n].call, EventCalls(chan[n]), InHand(n),
                                      PodCalls(eventC, n), told[n])

\* InOrder says just that, now and after a step.
LEMMA InOrderIsWay == InOrder <=> Way
BY DEF InOrder, Way, Placed, PodsInOrder, EventsInOrder, PodCalls, EventCalls,
       InChannel, AtWorker, OnTheWay, Before

\* The same after the step.
LEMMA InOrderIsWayNext == InOrder' <=> Way'
BY DEF InOrder, Way, Placed, PodsInOrder, EventsInOrder, PodCalls, EventCalls,
       InChannel, AtWorker, OnTheWay, Before

\* A step that moves no pod.
LEMMA NothingMoves ==
    ASSUME UNCHANGED <<told, eventC, hand, chan, handled>>
    PROVE  (InOrder => InOrder') /\ OnTheWay' = OnTheWay
<1>1. OnTheWay' = OnTheWay
  BY DEF OnTheWay, InChannel, InHand, AtWorker
<1>2. InOrder => InOrder'
  BY InOrderIsWay, InOrderIsWayNext DEF Way, InHand
<1>. QED  BY <1>1, <1>2

\* The calls that are on their way are numbers.
LEMMA WayTypes ==
    ASSUME TypeOK, NEW n \in Names
    PROVE  /\ PodCalls(eventC, n) \in SUBSET Nat /\ InHand(n) \in SUBSET Nat
           /\ EventCalls(chan[n]) \in SUBSET Nat
           /\ handled[n].call \in Nat /\ told[n] \in Nat
<1>1. \A v \in Calls : v \in Nat
  BY ManagerConstants DEF Calls
<1>2. PodCalls(eventC, n) \in SUBSET Nat
  <2>1. \A i \in DOMAIN eventC : eventC[i] \in Pod
    BY DEF TypeOK
  <2>. QED  BY <1>1, <2>1 DEF PodCalls, Pod
<1>3. InHand(n) \in SUBSET Nat
  <2>1. \A p \in hand : p.call \in Calls
    BY DEF TypeOK, Pod
  <2>. QED  BY <1>1, <2>1 DEF InHand
<1>4. EventCalls(chan[n]) \in SUBSET Nat
  <2>1. chan[n] \in Seq(Event)
    BY DEF TypeOK
  <2>2. \A i \in DOMAIN chan[n] : chan[n][i] \in Event
    BY <2>1
  <2>. QED  BY <1>1, <2>2 DEF EventCalls, Event
<1>5. handled[n].call \in Nat
  <2>1. handled[n] \in Event \/ handled[n] = NoEvent
    BY DEF TypeOK
  <2>. QED  BY <1>1, <2>1 DEF Event, NoEvent
<1>6. told[n] \in Nat
  BY ManagerConstants DEF TypeOK
<1>. QED  BY <1>2, <1>3, <1>4, <1>5, <1>6

\* The four moves of a call: it is told, taken by the loop, sent to the
\* worker and handled.
LEMMA PlacedTell ==
    ASSUME NEW h \in Nat, NEW A \in SUBSET Nat, NEW H \in SUBSET Nat, NEW C \in SUBSET Nat,
           NEW t \in Nat, NEW v \in Nat, v > t, Placed(h, A, H, C, t)
    PROVE  Placed(h, A, H, C \cup {v}, v) /\ \A w \in C : w < v
BY DEF Placed, Before

\* Taking the oldest call out of eventC puts it in hand.
LEMMA PlacedTake ==
    ASSUME NEW h \in Nat, NEW A \in SUBSET Nat, NEW C \in SUBSET Nat, NEW t \in Nat,
           NEW v \in Nat, \A w \in C : v < w, Placed(h, A, {}, C \cup {v}, t)
    PROVE  Placed(h, A, {v}, C, t)
BY DEF Placed, Before

\* Sending the call in hand makes it the newest of the channel.
LEMMA PlacedSend ==
    ASSUME NEW h \in Nat, NEW A \in SUBSET Nat, NEW C \in SUBSET Nat, NEW t \in Nat,
           NEW v \in Nat, Placed(h, A, {v}, C, t)
    PROVE  Placed(h, A \cup {v}, {}, C, t) /\ \A w \in A : w < v
BY DEF Placed, Before

\* Handling the oldest call of the channel puts it behind all others.
LEMMA PlacedHandle ==
    ASSUME NEW h \in Nat, NEW A \in SUBSET Nat, NEW H \in SUBSET Nat, NEW C \in SUBSET Nat,
           NEW t \in Nat, NEW v \in Nat, \A w \in A : v < w, Placed(h, A \cup {v}, H, C, t)
    PROVE  Placed(v, A, H, C, t) /\ v \notin A \cup H \cup C
BY DEF Placed, Before

\* NewPod adds the new call at the end of the way of its name.
LEMMA NewPodMoves ==
    ASSUME TypeOK, InOrder, NEW n \in Names, NEW v \in Calls, v > told[n],
           told' = [told EXCEPT ![n] = v],
           eventC' = Append(eventC, [name |-> n, call |-> v]),
           UNCHANGED <<hand, chan, handled>>
    PROVE  InOrder' /\ OnTheWay' = [OnTheWay EXCEPT ![n] = @ \cup {v}]
<1>. DEFINE p == [name |-> n, call |-> v]
<1>1. p \in Pod /\ p.name = n /\ p.call = v /\ eventC \in Seq(Pod) /\ eventC' = Append(eventC, p)
  BY DEF Pod, TypeOK
<1>2. v \in Nat
  BY ManagerConstants DEF Calls
<1>. HIDE DEF p
<1>3. \A m : PodCalls(eventC', m) = PodCalls(eventC, m) \cup IF m = n THEN {v} ELSE {}
  BY <1>1, AppendPod
<1>4. Way
  BY InOrderIsWay
<1>5. Placed(handled[n].call, EventCalls(chan[n]), InHand(n), PodCalls(eventC, n) \cup {v}, v)
      /\ \A w \in PodCalls(eventC, n) : w < v
  <2>. HIDE DEF p
  <2>1. Placed(handled[n].call, EventCalls(chan[n]), InHand(n), PodCalls(eventC, n), told[n])
    BY <1>4 DEF Way
  <2>. QED  BY <1>2, <2>1, WayTypes, PlacedTell
<1>6. PodsInOrder(eventC')
  BY <1>1, <1>4, <1>5, AppendPod DEF Way
<1>7. ASSUME NEW m \in Names
      PROVE  /\ EventsInOrder(chan'[m])
             /\ Placed(handled'[m].call, EventCalls(chan'[m]), InHand(m)', PodCalls(eventC', m), told'[m])
  <2>1. InHand(m)' = InHand(m)
    BY DEF InHand
  <2>2. CASE m = n
    <3>1. told'[m] = v
      BY <2>2 DEF TypeOK
    <3>. QED  BY <1>3, <1>4, <1>5, <2>1, <2>2, <3>1 DEF Way
  <2>3. CASE m # n
    <3>1. told'[m] = told[m] /\ PodCalls(eventC', m) = PodCalls(eventC, m)
      BY <1>3, <2>3 DEF TypeOK
    <3>. QED  BY <1>4, <2>1, <3>1 DEF Way
  <2>. QED  BY <2>2, <2>3
<1>8. InOrder'
  BY <1>6, <1>7, InOrderIsWayNext DEF Way
<1>9. OnTheWay' = [OnTheWay EXCEPT ![n] = @ \cup {v}]
  <2>1. \A m \in Names : InChannel(m)' = InChannel(m) \cup IF m = n THEN {v} ELSE {}
    BY <1>3 DEF InChannel, PodCalls
  <2>2. \A m \in Names : InHand(m)' = InHand(m) /\ AtWorker(m)' = AtWorker(m)
    BY DEF InHand, AtWorker
  <2>. QED  BY <2>1, <2>2 DEF OnTheWay
<1>. QED  BY <1>8, <1>9

\* The loop takes the least call for its name from the manager's channel.
LEMMA TakePodMoves ==
    ASSUME TypeOK, InOrder, hand = {}, eventC # <<>>,
           hand' = {Head(eventC)}, eventC' = Tail(eventC), UNCHANGED <<told, chan, handled>>
    PROVE  InOrder' /\ OnTheWay' = OnTheWay
<1>. DEFINE p == Head(eventC)
<1>1. p \in Pod /\ eventC \in Seq(Pod)
  BY TailFacts DEF TypeOK
<1>2. p.call \in Nat /\ p.name \in Names
  BY <1>1, ManagerConstants DEF Calls, Pod
<1>3. /\ \A m : PodCalls(eventC, m) = PodCalls(eventC', m) \cup IF m = p.name THEN {p.call} ELSE {}
      /\ PodsInOrder(eventC) => /\ PodsInOrder(eventC')
                                /\ \A v \in PodCalls(eventC', p.name) : p.call < v
  BY <1>1, TailPod
<1>4. Way
  BY InOrderIsWay
<1>. HIDE DEF p
<1>5. \A m \in Names : /\ InHand(m) = {}
                       /\ InHand(m)' = IF m = p.name THEN {p.call} ELSE {}
  BY DEF InHand, p
<1>6. PodsInOrder(eventC')
  BY <1>3, <1>4 DEF Way
<1>7. ASSUME NEW m \in Names
      PROVE  /\ EventsInOrder(chan'[m])
             /\ Placed(handled'[m].call, EventCalls(chan'[m]), InHand(m)', PodCalls(eventC', m), told'[m])
  <2>1. Placed(handled[m].call, EventCalls(chan[m]), {}, PodCalls(eventC, m), told[m])
    BY <1>4, <1>5 DEF Way
  <2>2. CASE m = p.name
    <3>1. PodCalls(eventC, m) = PodCalls(eventC', m) \cup {p.call}
      BY <1>3, <2>2
    <3>2. PodCalls(eventC', m) \in SUBSET Nat
      BY <3>1, WayTypes
    <3>3. \A w \in PodCalls(eventC', m) : p.call < w
      BY <1>3, <1>4, <2>2 DEF Way
    <3>4. Placed(handled[m].call, EventCalls(chan[m]), {p.call}, PodCalls(eventC', m), told[m])
      BY <1>2, <2>1, <3>1, <3>2, <3>3, WayTypes, PlacedTake
    <3>. QED  BY <1>4, <1>5, <2>2, <3>4 DEF Way
  <2>3. CASE m # p.name
    <3>1. PodCalls(eventC, m) = PodCalls(eventC', m)
      BY <1>3, <2>3
    <3>. QED  BY <1>4, <1>5, <2>1, <2>3, <3>1 DEF Way
  <2>. QED  BY <2>2, <2>3
<1>8. InOrder'
  BY <1>6, <1>7, InOrderIsWayNext DEF Way
<1>9. OnTheWay' = OnTheWay
  <2>1. \A m \in Names : InChannel(m) = InChannel(m)' \cup IF m = p.name THEN {p.call} ELSE {}
    BY <1>3 DEF InChannel, PodCalls
  <2>2. \A m \in Names : AtWorker(m)' = AtWorker(m)
    BY DEF AtWorker
  <2>. QED  BY <1>5, <2>1, <2>2 DEF OnTheWay
<1>. QED  BY <1>8, <1>9

\* SendEvent puts the loop's pod at the end of its worker's channel.
LEMMA SendEventMoves ==
    ASSUME TypeOK, InOrder, NEW p \in Pod, hand = {p}, NEW e \in Event, e.call = p.call,
           hand' = {}, chan' = [chan EXCEPT ![p.name] = Append(@, e)],
           UNCHANGED <<told, eventC, handled>>
    PROVE  InOrder' /\ OnTheWay' = OnTheWay
<1>1. p.call \in Nat /\ p.name \in Names
  BY ManagerConstants DEF Calls, Pod
<1>2. chan[p.name] \in Seq(Event) /\ chan'[p.name] = Append(chan[p.name], e)
      /\ \A m \in Names \ {p.name} : chan'[m] = chan[m]
  BY <1>1 DEF TypeOK
<1>3. EventCalls(chan'[p.name]) = EventCalls(chan[p.name]) \cup {p.call}
  BY <1>2, AppendEvent
<1>4. Way
  BY InOrderIsWay
<1>5. \A m \in Names : InHand(m)' = {} /\ InHand(m) = IF m = p.name THEN {p.call} ELSE {}
  BY DEF InHand
<1>6. /\ Placed(handled[p.name].call, EventCalls(chan[p.name]) \cup {p.call}, {},
                PodCalls(eventC, p.name), told[p.name])
      /\ \A w \in EventCalls(chan[p.name]) : w < p.call
  <2>1. Placed(handled[p.name].call, EventCalls(chan[p.name]), {p.call},
               PodCalls(eventC, p.name), told[p.name])
    BY <1>1, <1>4, <1>5 DEF Way
  <2>. QED  BY <1>1, <2>1, WayTypes, PlacedSend
<1>7. EventsInOrder(chan'[p.name])
  BY <1>1, <1>2, <1>4, <1>6, AppendEvent DEF Way
<1>8. ASSUME NEW m \in Names
      PROVE  /\ EventsInOrder(chan'[m])
             /\ Placed(handled'[m].call, EventCalls(chan'[m]), InHand(m)', PodCalls(eventC', m), told'[m])
  <2>1. CASE m = p.name
    BY <1>3, <1>5, <1>6, <1>7, <2>1
  <2>2. CASE m # p.name
    BY <1>2, <1>4, <1>5, <2>2 DEF Way
  <2>. QED  BY <2>1, <2>2
<1>9. InOrder'
  BY <1>4, <1>8, InOrderIsWayNext DEF Way
<1>10. OnTheWay' = OnTheWay
  <2>1. \A m \in Names : InChannel(m)' = InChannel(m)
    BY DEF InChannel
  <2>2. AtWorker(p.name)' = AtWorker(p.name) \cup {p.call}
    BY <1>3 DEF AtWorker, EventCalls
  <2>3. \A m \in Names \ {p.name} : AtWorker(m)' = AtWorker(m)
    BY <1>2 DEF AtWorker
  <2>. QED  BY <1>5, <2>1, <2>2, <2>3 DEF OnTheWay
<1>. QED  BY <1>9, <1>10

\* The worker takes the least call on the way of its name.
LEMMA HandleMoves ==
    ASSUME TypeOK, InOrder, NEW n \in Names, chan[n] # <<>>,
           handled' = [handled EXCEPT ![n] = Head(chan[n])],
           chan' = [chan EXCEPT ![n] = Tail(@)],
           UNCHANGED <<told, eventC, hand>>
    PROVE  /\ InOrder'
           /\ Head(chan[n]).call \in OnTheWay[n]
           /\ \A w \in OnTheWay[n] : Head(chan[n]).call <= w
           /\ OnTheWay' = [OnTheWay EXCEPT ![n] = @ \ {Head(chan[n]).call}]
<1>. DEFINE e == Head(chan[n])
<1>1. chan[n] \in Seq(Event) /\ e \in Event /\ chan'[n] = Tail(chan[n]) /\ handled'[n] = e
  BY TailFacts DEF TypeOK
<1>2. e.call \in Nat
  BY <1>1, ManagerConstants DEF Calls, Event
<1>3. /\ EventCalls(chan[n]) = EventCalls(chan'[n]) \cup {e.call}
      /\ EventsInOrder(chan[n]) => /\ EventsInOrder(chan'[n])
                                   /\ \A v \in EventCalls(chan'[n]) : e.call < v
  BY <1>1, TailEvent
<1>. HIDE DEF e
<1>4. Way
  BY InOrderIsWay
<1>5. EventsInOrder(chan'[n]) /\ \A v \in EventCalls(chan'[n]) : e.call < v
  BY <1>3, <1>4 DEF Way
<1>6. /\ Placed(e.call, EventCalls(chan'[n]), InHand(n), PodCalls(eventC, n), told[n])
      /\ e.call \notin EventCalls(chan'[n]) \cup InHand(n) \cup PodCalls(eventC, n)
  <2>1. Placed(handled[n].call, EventCalls(chan'[n]) \cup {e.call}, InHand(n), PodCalls(eventC, n), told[n])
    BY <1>3, <1>4 DEF Way
  <2>2. EventCalls(chan'[n]) \in SUBSET Nat
    BY <1>3, WayTypes
  <2>3. PodCalls(eventC, n) \in SUBSET Nat /\ InHand(n) \in SUBSET Nat /\ handled[n].call \in Nat
        /\ told[n] \in Nat
    BY WayTypes
  <2>. DEFINE v == e.call
              A == EventCalls(chan'[n])
              H == InHand(n)
              C == PodCalls(eventC, n)
  <2>4. /\ v \in Nat /\ A \in SUBSET Nat /\ H \in SUBSET Nat /\ C \in SUBSET Nat
        /\ \A w \in A : v < w
    BY <1>2, <1>5, <2>2, <2>3
  <2>5. Placed(handled[n].call, A \cup {v}, H, C, told[n])
    BY <2>1
  <2>. HIDE DEF v, A, H, C
  <2>6. Placed(v, A, H, C, told[n]) /\ v \notin A \cup H \cup C
    BY <2>3, <2>4, <2>5, PlacedHandle
  <2>. QED  BY <2>6 DEF v, A, H, C
<1>7. ASSUME NEW m \in Names
      PROVE  /\ EventsInOrder(chan'[m])
             /\ Placed(handled'[m].call, EventCalls(chan'[m]), InHand(m)', PodCalls(eventC', m), told'[m])
  <2>1. InHand(m)' = InHand(m)
    BY DEF InHand
  <2>2. CASE m = n
    BY <1>1, <1>5, <1>6, <2>1, <2>2
  <2>3. CASE m # n
    <3>1. chan'[m] = chan[m] /\ handled'[m] = handled[m]
      BY <2>3 DEF TypeOK
    <3>. QED  BY <1>4, <2>1, <3>1 DEF Way
  <2>. QED  BY <2>2, <2>3
<1>8. InOrder'
  BY <1>4, <1>7, InOrderIsWayNext DEF Way
<1>9. OnTheWay[n] = PodCalls(eventC, n) \cup InHand(n) \cup EventCalls(chan[n])
  BY DEF OnTheWay, InChannel, AtWorker, PodCalls, EventCalls
<1>10. e.call \in OnTheWay[n]
  BY <1>3, <1>9
<1>11. \A w \in OnTheWay[n] : e.call <= w
  <2>1. ASSUME NEW w \in EventCalls(chan'[n]) \cup InHand(n) \cup PodCalls(eventC, n)  PROVE e.call < w
    BY <1>6, <2>1 DEF Placed, Before
  <2>2. EventCalls(chan'[n]) \cup InHand(n) \cup PodCalls(eventC, n) \in SUBSET Nat
    BY <1>3, WayTypes
  <2>. QED  BY <1>2, <1>3, <1>9, <2>1, <2>2
<1>12. OnTheWay' = [OnTheWay EXCEPT ![n] = @ \ {e.call}]
  <2>1. \A m \in Names : InChannel(m)' = InChannel(m) /\ InHand(m)' = InHand(m)
    BY DEF InChannel, InHand
  <2>2. \A m \in Names \ {n} : AtWorker(m)' = AtWorker(m)
    BY DEF AtWorker, TypeOK
  <2>3. AtWorker(n)' = EventCalls(chan'[n])
    BY DEF AtWorker, EventCalls
  <2>4. OnTheWay[n] \ {e.call} = InChannel(n) \cup InHand(n) \cup AtWorker(n)'
    BY <1>3, <1>6, <1>9, <2>3 DEF InChannel, PodCalls
  <2>5. OnTheWay[n] = InChannel(n) \cup InHand(n) \cup AtWorker(n)
    BY DEF OnTheWay
  <2>. QED  BY <2>1, <2>2, <2>4, <2>5 DEF OnTheWay
<1>. QED  BY <1>8, <1>10, <1>11, <1>12 DEF e

-----------------------------------------------------------------------------
(* The invariant.                                                          *)

\* At first no pod is on its way.
LEMMA NothingOnTheWay ==
    ASSUME Init
    PROVE  /\ DOMAIN eventC = {} /\ \A n \in Names : DOMAIN chan[n] = {}
           /\ \A n \in Names : InChannel(n) = {} /\ InHand(n) = {} /\ AtWorker(n) = {}
           /\ OnTheWay = [n \in Names |-> {}]
<1>0. DOMAIN eventC = {} /\ \A n \in Names : DOMAIN chan[n] = {}
  <2>1. DOMAIN <<>> = {}
    OBVIOUS
  <2>2. eventC = <<>> /\ \A n \in Names : chan[n] = <<>>
    BY DEF Init
  <2>. QED  BY <2>1, <2>2
<1>1. ASSUME NEW n \in Names  PROVE InChannel(n) = {} /\ InHand(n) = {} /\ AtWorker(n) = {}
  <2>1. InChannel(n) = {}
    BY <1>0 DEF InChannel
  <2>2. InHand(n) = {}
    BY DEF Init, InHand
  <2>3. AtWorker(n) = {}
    BY <1>0 DEF AtWorker
  <2>. QED  BY <2>1, <2>2, <2>3
<1>2. OnTheWay = [n \in Names |-> {}]
  BY <1>1 DEF OnTheWay
<1>. QED  BY <1>0, <1>1, <1>2

\* So the initial states are in order.
LEMMA RoutingInit == Init => Routing
<1>. SUFFICES ASSUME Init PROVE Routing
  OBVIOUS
<1>1. OneInHand
  BY DEF Init, OneInHand
<1>2. InOrder
  <2>1. \A n \in Names : InChannel(n) = {} /\ InHand(n) = {} /\ AtWorker(n) = {} /\ OnTheWay[n] = {}
    BY NothingOnTheWay
  <2>2. DOMAIN eventC = {} /\ \A n \in Names : DOMAIN chan[n] = {}
    BY NothingOnTheWay
  <2>3. \A n \in Names : handled[n].call = 0 /\ told[n] = 0
    BY DEF Init, NoEvent
  <2>. QED  BY <2>1, <2>2, <2>3 DEF InOrder, Before
<1>3. NewFirst
  BY DEF Init, NewFirst
<1>. QED  BY <1>1, <1>2, <1>3 DEF Routing

\* A step that leaves the loop, the workers that are kept and their events.
LEMMA RoutingKept ==
    ASSUME Routing, InOrder', UNCHANGED <<pc, hand, cache, chan, handled>>
    PROVE  Routing'
BY DEF Routing, OneInHand, NewFirst

\* The steps of the loop.
LEMMA RoutingTakePod == ASSUME TypeOK, Routing, TakePod PROVE Routing'
<1>1. hand = {} /\ Head(eventC) \in Pod
  BY TailFacts DEF TakePod, Routing, OneInHand, TypeOK
<1>2. InOrder'
  BY <1>1, TakePodMoves DEF TakePod, workers, Routing
<1>3. OneInHand'
  BY <1>1 DEF TakePod, OneInHand
<1>4. NewFirst'
  BY DEF TakePod, workers, Routing, NewFirst
<1>. QED  BY <1>2, <1>3, <1>4 DEF Routing

\* Looking up the worker moves no pod.
LEMMA RoutingPass == ASSUME TypeOK, Routing, Lock \/ Known \/ Unknown \/ Leave PROVE Routing'
<1>0. UNCHANGED <<told, eventC, hand, chan, handled>>
  BY DEF Lock, Known, Unknown, Leave, workers
<1>1. InOrder'
  BY <1>0, NothingMoves DEF Routing
<1>2. OneInHand'
  <2>1. CASE Leave
    BY <2>1 DEF Leave, Routing, OneInHand
  <2>2. CASE Lock \/ Known \/ Unknown
    <3>1. pc \in {"lock", "route"} /\ pc' \in {"route", "update", "new"}
      BY <2>2 DEF Lock, Known, Unknown
    <3>. QED  BY <1>0, <3>1 DEF Routing, OneInHand
  <2>. QED  BY <2>1, <2>2
<1>3. CASE Lock \/ Leave
  BY <1>1, <1>2, <1>3 DEF Lock, Leave, workers, Routing, NewFirst
<1>4. CASE Known
  <2>1. PICK p \in Pod : hand = {p}
    BY <1>4 DEF Known, Routing, OneInHand
  <2>2. p.name \in cache /\ pc = "route" /\ pc' = "update" /\ UNCHANGED <<hand, cache, chan, handled>>
    BY <1>4, <2>1 DEF Known, workers
  <2>3. NewFirst'
    <3>1. pc' # "new" /\ \A q \in hand' : q.name \in cache'
      BY <2>1, <2>2
    <3>2. \A n \in Names : ~ (n \in cache /\ chan[n] = <<>> /\ handled[n] = NoEvent)
      BY <2>2 DEF Routing, NewFirst
    <3>. QED  BY <2>2, <3>1, <3>2 DEF Routing, NewFirst
  <2>. QED  BY <1>1, <1>2, <2>3 DEF Routing
<1>5. CASE Unknown
  <2>1. PICK p \in Pod : hand = {p}
    BY <1>5 DEF Unknown, Routing, OneInHand
  <2>2. /\ p.name \notin cache /\ pc = "route" /\ UNCHANGED <<hand, chan, handled>>
        /\ \/ pc' = "new" /\ cache' = cache \cup {p.name}
           \/ UNCHANGED <<pc, cache>>
    BY <1>5, <2>1 DEF Unknown
  <2>3. p.name \in Names
    BY DEF Pod
  <2>4. chan[p.name] = <<>> /\ handled[p.name] = NoEvent
    BY <2>2, <2>3 DEF Routing, NewFirst
  <2>5. NewFirst'
    BY <2>1, <2>2, <2>4 DEF Routing, NewFirst
  <2>. QED  BY <1>1, <1>2, <2>5 DEF Routing
<1>. QED  BY <1>3, <1>4, <1>5

\* An event sent to a worker carries on the call in hand.
LEMMA RoutingSendEvent == ASSUME TypeOK, Routing, SendEvent PROVE Routing' /\ OnTheWay' = OnTheWay
<1>1. PICK p \in Pod : hand = {p}
  BY DEF SendEvent, Routing, OneInHand
<1>. DEFINE e == [typ |-> IF pc = "new" THEN "New" ELSE "Update", call |-> p.call]
<1>2. /\ p.name \in Names /\ e \in Event /\ e.call = p.call
      /\ e.typ = IF pc = "new" THEN "New" ELSE "Update"
  BY DEF Pod, Event
<1>3. /\ chan' = [chan EXCEPT ![p.name] = Append(@, e)]
      /\ hand' = {} /\ pc' = "select" /\ pc \in {"new", "update"}
      /\ UNCHANGED <<told, eventC, cache, handled>>
  BY <1>1 DEF SendEvent
<1>. HIDE DEF e
<1>4. InOrder' /\ OnTheWay' = OnTheWay
  BY <1>1, <1>2, <1>3, SendEventMoves DEF Routing
<1>5. OneInHand'
  BY <1>3 DEF OneInHand
<1>6. /\ chan[p.name] \in Seq(Event) /\ chan'[p.name] = Append(chan[p.name], e)
      /\ \A n \in Names \ {p.name} : chan'[n] = chan[n]
  BY <1>2, <1>3 DEF TypeOK
<1>7. /\ Len(chan[p.name]) \in Nat /\ DOMAIN chan[p.name] = 1..Len(chan[p.name])
      /\ DOMAIN chan'[p.name] = 1..(Len(chan[p.name]) + 1)
      /\ \A i \in 1..Len(chan[p.name]) : chan'[p.name][i] = chan[p.name][i]
      /\ chan'[p.name][Len(chan[p.name]) + 1] = e
      /\ chan[p.name] = <<>> <=> Len(chan[p.name]) = 0
  BY <1>2, <1>6, AppendFacts
<1>8. /\ p.name \in cache
      /\ pc = "new" => chan[p.name] = <<>> /\ handled[p.name] = NoEvent
      /\ pc = "update" => ~ (chan[p.name] = <<>> /\ handled[p.name] = NoEvent)
  BY <1>1, <1>2, <1>3 DEF Routing, NewFirst
<1>9. ASSUME NEW i \in DOMAIN chan'[p.name]
      PROVE  chan'[p.name][i].typ = IF i = 1 /\ handled[p.name] = NoEvent THEN "New" ELSE "Update"
  <2>1. CASE i \in 1..Len(chan[p.name])
    BY <1>2, <1>7, <2>1 DEF Routing, NewFirst
  <2>2. CASE i = Len(chan[p.name]) + 1
    <3>1. i = 1 <=> chan[p.name] = <<>>
      BY <1>7, <2>2
    <3>2. chan'[p.name][i].typ = IF pc = "new" THEN "New" ELSE "Update"
      BY <1>2, <1>7, <2>2
    <3>. QED  BY <1>3, <1>8, <3>1, <3>2
  <2>. QED  BY <1>7, <2>1, <2>2, IndexOfAppend
<1>10. chan'[p.name] # <<>>
  BY <1>7
<1>11. NewFirst'
  <2>1. ASSUME NEW n \in Names
        PROVE  /\ n \notin cache => chan'[n] = <<>> /\ handled[n] = NoEvent
               /\ \A i \in DOMAIN chan'[n] :
                     chan'[n][i].typ = IF i = 1 /\ handled[n] = NoEvent THEN "New" ELSE "Update"
               /\ ~ (n \in cache /\ chan'[n] = <<>> /\ handled[n] = NoEvent)
    <3>1. CASE n = p.name
      BY <1>8, <1>9, <1>10, <3>1
    <3>2. CASE n # p.name
      <4>1. chan'[n] = chan[n]
        BY <1>6, <3>2
      <4>. QED  BY <1>1, <3>2, <4>1 DEF Routing, NewFirst
    <3>. QED  BY <3>1, <3>2
  <2>. QED  BY <1>3, <2>1 DEF NewFirst
<1>. QED  BY <1>4, <1>5, <1>11 DEF Routing

\* A worker takes an event: New if and only if it is its first.
LEMMA RoutingHandle ==
    ASSUME TypeOK, Routing, NEW n \in Names, WorkerHandle(n)
    PROVE  /\ Routing'
           /\ Head(chan[n]).typ = IF handled[n] = NoEvent THEN "New" ELSE "Update"
<1>1. /\ chan[n] # <<>> /\ chan[n] \in Seq(Event) /\ handled'[n] = Head(chan[n])
      /\ chan'[n] = Tail(chan[n])
      /\ \A m \in Names \ {n} : chan'[m] = chan[m] /\ handled'[m] = handled[m]
      /\ UNCHANGED <<pc, hand, cache>>
  BY DEF WorkerHandle, TypeOK
<1>2. /\ Head(chan[n]) \in Event /\ Head(chan[n]) = chan[n][1]
      /\ Len(chan[n]) \in Nat \ {0}
      /\ DOMAIN chan[n] = 1..Len(chan[n]) /\ DOMAIN chan'[n] = 1..(Len(chan[n]) - 1)
      /\ \A i \in 1..(Len(chan[n]) - 1) : chan'[n][i] = chan[n][i + 1]
  BY <1>1, TailFacts
<1>3. Head(chan[n]).typ = IF handled[n] = NoEvent THEN "New" ELSE "Update"
  <2>1. 1 \in DOMAIN chan[n]
    BY <1>2
  <2>. QED  BY <1>2, <2>1 DEF Routing, NewFirst
<1>4. handled'[n] # NoEvent
  BY <1>1, <1>2 DEF Event, NoEvent
<1>5. ASSUME NEW i \in DOMAIN chan'[n]  PROVE chan'[n][i].typ = "Update"
  <2>1. i + 1 \in DOMAIN chan[n] /\ i + 1 # 1 /\ chan'[n][i] = chan[n][i + 1]
    BY <1>2, <1>5
  <2>. QED  BY <2>1 DEF Routing, NewFirst
<1>6. n \in cache
  BY <1>1 DEF Routing, NewFirst
<1>7. ~ (pc = "new" /\ \E p \in hand : p.name = n)
  BY <1>1 DEF Routing, NewFirst
<1>8. NewFirst'
  <2>1. ASSUME NEW m \in Names
        PROVE  /\ m \notin cache => chan'[m] = <<>> /\ handled'[m] = NoEvent
               /\ \A i \in DOMAIN chan'[m] :
                     chan'[m][i].typ = IF i = 1 /\ handled'[m] = NoEvent THEN "New" ELSE "Update"
               /\ m \in cache /\ chan'[m] = <<>> /\ handled'[m] = NoEvent =>
                     pc = "new" /\ \E p \in hand : p.name = m
    <3>1. CASE m = n
      BY <1>4, <1>5, <1>6, <3>1
    <3>2. CASE m # n
      <4>1. chan'[m] = chan[m] /\ handled'[m] = handled[m]
        BY <1>1, <3>2
      <4>. QED  BY <4>1 DEF Routing, NewFirst
    <3>. QED  BY <3>1, <3>2
  <2>2. ASSUME pc = "new", NEW p \in hand
        PROVE  chan'[p.name] = <<>> /\ handled'[p.name] = NoEvent
    <3>1. p.name \in Names /\ p.name # n
      BY <1>7, <2>2 DEF TypeOK, Pod
    <3>. QED  BY <1>1, <2>2, <3>1 DEF Routing, NewFirst
  <2>3. pc \in {"new", "update"} => \A p \in hand : p.name \in cache
    BY DEF Routing, NewFirst
  <2>. QED  BY <1>1, <2>1, <2>2, <2>3 DEF NewFirst
<1>9. InOrder'
  BY <1>1, HandleMoves DEF WorkerHandle, Routing
<1>10. OneInHand'
  BY <1>1 DEF Routing, OneInHand
<1>. QED  BY <1>3, <1>8, <1>9, <1>10 DEF Routing

\* Every step keeps the pods on their way.
LEMMA RoutingStep == TypeOK /\ Routing /\ [Next]_vars => Routing'
<1>. SUFFICES ASSUME TypeOK, Routing, [Next]_vars PROVE Routing'
  OBVIOUS
<1>1. CASE UNCHANGED vars \/ Stop \/ \E n \in Names : WorkerStart(n) \/ WorkerTick(n) \/ WorkerStop(n)
  <2>1. UNCHANGED <<told, eventC, pc, hand, cache, chan, handled>>
    BY <1>1 DEF vars, workers, Stop, WorkerStart, WorkerTick, WorkerStop
  <2>. QED  BY <2>1, NothingMoves, RoutingKept DEF Routing
<1>2. ASSUME NEW n \in Names, NewPod(n)  PROVE Routing'
  <2>. DEFINE v == told[n] + 1
  <2>1. /\ v \in Calls /\ v > told[n] /\ told' = [told EXCEPT ![n] = v]
        /\ eventC' = Append(eventC, [name |-> n, call |-> v])
    BY <1>2, NextCall DEF NewPod
  <2>2. UNCHANGED <<pc, hand, cache, chan, handled>>
    BY <1>2 DEF NewPod, workers
  <2>3. InOrder'
    BY <2>1, <2>2, NewPodMoves DEF Routing
  <2>. QED  BY <2>2, <2>3, RoutingKept
<1>3. CASE TakePod
  BY <1>3, RoutingTakePod
<1>4. CASE Lock \/ Known \/ Unknown \/ Leave
  BY <1>4, RoutingPass
<1>5. CASE SendEvent
  BY <1>5, RoutingSendEvent
<1>6. ASSUME NEW n \in Names, WorkerHandle(n)  PROVE Routing'
  BY <1>6, RoutingHandle
<1>. QED  BY <1>1, <1>2, <1>3, <1>4, <1>5, <1>6 DEF Next, Loop

(***************************************************************************)
(* In every reachable state the calls for a name are in order from the     *)
(* manager's channel to the worker, each in one place, and a worker's New  *)
(* event is its first: the loop holds no pod twice and drops none.         *)
(***************************************************************************)
THEOREM RoutingCorrect == Spec => []Routing
BY TypeOKInit, TypeOKStep, RoutingInit, RoutingStep, PTL DEF Spec

-----------------------------------------------------------------------------
(* The refinement.                                                         *)

\* A mailbox is empty at first.
LEMMA MailboxInit == Init => Mailbox!Init
BY NothingOnTheWay DEF Init, NoEvent, Mailbox!Init, Mailbox!None

\* Every step is a step of the mailboxes or changes nothing that they see.
LEMMA MailboxStep == TypeOK /\ Routing /\ [Next]_vars => [Mailbox!Next]_(Mailbox!vars)
<1>. SUFFICES ASSUME TypeOK, Routing, [Next]_vars PROVE [Mailbox!Next]_(Mailbox!vars)
  OBVIOUS
<1>1. CASE UNCHANGED vars \/ Stop \/ Lock \/ Known \/ Unknown \/ Leave
           \/ \E n \in Names : WorkerStart(n) \/ WorkerTick(n) \/ WorkerStop(n)
  <2>1. UNCHANGED <<told, eventC, hand, chan, handled>>
    BY <1>1 DEF vars, workers, Stop, Lock, Known, Unknown, Leave, WorkerStart, WorkerTick, WorkerStop
  <2>. QED  BY <2>1, NothingMoves DEF Mailbox!vars
<1>2. CASE TakePod
  <2>1. hand = {}
    BY <1>2 DEF TakePod, Routing, OneInHand
  <2>2. OnTheWay' = OnTheWay
    BY <1>2, <2>1, TakePodMoves DEF TakePod, workers, Routing
  <2>. QED  BY <1>2, <2>2 DEF TakePod, workers, Mailbox!vars
<1>3. CASE SendEvent
  BY <1>3, RoutingSendEvent DEF SendEvent, Mailbox!vars
<1>4. ASSUME NEW n \in Names, NewPod(n)  PROVE Mailbox!Next
  <2>. DEFINE v == told[n] + 1
  <2>1. /\ v \in Calls /\ v > told[n] /\ told' = [told EXCEPT ![n] = v]
        /\ eventC' = Append(eventC, [name |-> n, call |-> v])
    BY <1>4, NextCall DEF NewPod
  <2>2. UNCHANGED <<hand, chan, handled>>
    BY <1>4 DEF NewPod, workers
  <2>3. OnTheWay' = [OnTheWay EXCEPT ![n] = @ \cup {v}]
    BY <2>1, <2>2, NewPodMoves DEF Routing
  <2>4. Mailbox!Tell(n)
    BY <2>1, <2>2, <2>3 DEF Mailbox!Tell
  <2>. QED  BY <2>4 DEF Mailbox!Next
<1>5. ASSUME NEW n \in Names, WorkerHandle(n)  PROVE Mailbox!Next
  <2>. DEFINE e == Head(chan[n])
  <2>1. /\ e.call \in OnTheWay[n] /\ \A w \in OnTheWay[n] : e.call <= w
        /\ OnTheWay' = [OnTheWay EXCEPT ![n] = @ \ {e.call}]
    BY <1>5, HandleMoves DEF WorkerHandle, Routing
  <2>2. /\ chan[n] \in Seq(Event) /\ chan[n] # <<>>
        /\ handled' = [handled EXCEPT ![n] = e] /\ UNCHANGED told
    BY <1>5 DEF WorkerHandle, TypeOK
  <2>3. e \in Event
    BY <2>2, TailFacts
  <2>4. e.typ = IF handled[n] = NoEvent THEN "New" ELSE "Update"
    BY <1>5, RoutingHandle
  <2>. HIDE DEF e
  <2>5. e = [typ |-> IF handled[n] = Mailbox!None THEN "New" ELSE "Update", call |-> e.call]
    BY <2>3, <2>4 DEF Event, NoEvent, Mailbox!None
  <2>6. handled' = [handled EXCEPT ![n] =
                      [typ |-> IF @ = Mailbox!None THEN "New" ELSE "Update", call |-> e.call]]
    BY <2>2, <2>5
  <2>7. Mailbox!Handle(n)
    BY <2>1, <2>2, <2>6 DEF Mailbox!Handle
  <2>. QED  BY <2>7 DEF Mailbox!Next
<1>. QED  BY <1>1, <1>2, <1>3, <1>4, <1>5 DEF Next, Loop

(***************************************************************************)
(* The manager implements the mailboxes: whatever the loop, the workers    *)
(* and Stop do in between, the worker of a name takes the pods of the      *)
(* calls of NewPod in their order, none twice and none left out, the first *)
(* as New and the others as Update.                                        *)
(***************************************************************************)
THEOREM ImplementsMailboxes == Spec => MailboxSpec
<1>1. TypeOK /\ Routing /\ [Next]_vars => [Mailbox!Next]_(Mailbox!vars)
  BY MailboxStep
<1>. QED  BY <1>1, MailboxInit, TypeCorrect, RoutingCorrect, PTL DEF Spec, MailboxSpec, Mailbox!Spec

-----------------------------------------------------------------------------
(* What follows from the refinement.                                       *)

Promise == INSTANCE MailboxesProofs WITH due <- OnTheWay

\* MailboxesProofs is about the specification that MailboxSpec names.
LEMMA SpecOfPromise == MailboxSpec => Promise!Spec
<1>1. Mailbox!Init => Promise!Init
  BY DEF Mailbox!Init, Promise!Init, Mailbox!None, Promise!None
<1>2. [Mailbox!Next]_(Mailbox!vars) => [Promise!Next]_(Promise!vars)
  <2>1. ASSUME NEW n \in Names, Mailbox!Tell(n) PROVE Promise!Tell(n)
    BY <2>1 DEF Mailbox!Tell, Promise!Tell
  <2>2. ASSUME NEW n \in Names, Mailbox!Handle(n) PROVE Promise!Handle(n)
    BY <2>2 DEF Mailbox!Handle, Promise!Handle, Mailbox!None, Promise!None
  <2>. QED  BY <2>1, <2>2 DEF Mailbox!Next, Promise!Next, Mailbox!vars, Promise!vars
<1>. QED  BY <1>1, <1>2, PTL DEF MailboxSpec, Mailbox!Spec, Promise!Spec

(***************************************************************************)
(* No call is lost between NewPod and the worker: when no pod of a name is *)
(* in the manager's channel, in the loop's hand or in the worker's         *)
(* channel, the worker has taken the one of the last call.                 *)
(***************************************************************************)
THEOREM NoneLost ==
    Spec => [](\A n \in Names : OnTheWay[n] = {} => handled[n].call = told[n])
<1>1. Promise!Ledger => \A n \in Names : OnTheWay[n] = {} => handled[n].call = told[n]
  <2>. SUFFICES ASSUME Promise!Ledger, NEW n \in Names, OnTheWay[n] = {}
                PROVE  handled[n].call = told[n]
    OBVIOUS
  <2>. DEFINE h == handled[n].call
              t == told[n]
  <2>1. h \in Nat /\ t \in Nat /\ h <= t /\ OnTheWay[n] = (h + 1)..t
    BY DEF Promise!Ledger, Promise!Between
  <2>. HIDE DEF h, t
  <2>2. h + 1 \notin (h + 1)..t
    BY <2>1
  <2>. QED  BY <2>1, <2>2 DEF h, t
<1>2. Promise!Spec => []Promise!Ledger
  BY Promise!LedgerHolds
<1>3. MailboxSpec => Promise!Spec
  BY SpecOfPromise
<1>. QED  BY <1>1, <1>2, <1>3, ImplementsMailboxes, PTL

(***************************************************************************)
(* No call is repeated, overtaken or left out: each event that a worker    *)
(* takes is for the call after that of its last one, and is New exactly if *)
(* it is for the first.                                                    *)
(***************************************************************************)
THEOREM NoneTwice ==
    Spec => [][\A n \in Names :
                 handled'[n] # handled[n] =>
                     /\ handled'[n].call = handled[n].call + 1
                     /\ handled'[n].typ = IF handled'[n].call = 1 THEN "New" ELSE "Update"]_vars
<1>1. [Promise!TakenOnceInOrder]_(Promise!vars)
        => \A n \in Names :
              handled'[n] # handled[n] =>
                  /\ handled'[n].call = handled[n].call + 1
                  /\ handled'[n].typ = IF handled'[n].call = 1 THEN "New" ELSE "Update"
  BY DEF Promise!TakenOnceInOrder, Promise!vars
<1>2. Promise!Spec => [][Promise!TakenOnceInOrder]_(Promise!vars)
  BY Promise!TakenOnceInOrderHolds
<1>. QED  BY <1>1, <1>2, SpecOfPromise, ImplementsMailboxes, PTL
=============================================================================
