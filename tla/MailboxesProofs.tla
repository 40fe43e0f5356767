--------------------------- MODULE MailboxesProofs ---------------------------
(***************************************************************************)
(* What the abstract specification of the pod manager says, made explicit: *)
(* whatever implements Mailboxes (ImplementsMailboxes of ManagerProofs,    *)
(* MailboxStepsHold of WorkerProofs) has these properties too.             *)
(***************************************************************************)
EXTENDS Mailboxes, TLAPS

\* The calls after the one that was taken last are due, and no others.
Between(n) == /\ handled[n].call <= told[n]
              /\ due[n] = (handled[n].call + 1)..told[n]
              /\ handled[n] = None <=> handled[n].call = 0

Ledger == /\ told \in [Names -> Nat]
          /\ due \in [Names -> SUBSET Nat]
          /\ handled \in [Names -> [typ : {"none", "New", "Update"}, call : Nat]]
          /\ \A n \in Names : Between(n)

\* A worker's events are for one call after the other, and only that for the
\* first call is New.
TakenOnceInOrder ==
    \A n \in Names :
        handled'[n] # handled[n] =>
            /\ handled'[n].call = handled[n].call + 1
            /\ handled'[n].typ = IF handled'[n].call = 1 THEN "New" ELSE "Update"

-----------------------------------------------------------------------------
\* At the beginning nothing is told, due or handled.
LEMMA LedgerInit == Init => Ledger
BY DEF Init, Ledger, Between, None

\* The least call that is due is the one after the last that was taken.
LEMMA LeastIsNext ==
    ASSUME NEW h \in Nat, NEW t \in Nat, NEW c \in (h + 1)..t,
           \A d \in (h + 1)..t : c <= d
    PROVE  c = h + 1 /\ ((h + 1)..t) \ {c} = (c + 1)..t /\ c <= t
<1>1. h + 1 \in (h + 1)..t
  OBVIOUS
<1>. QED  BY <1>1

\* A call is told of, or a worker takes the least that is due.
LEMMA LedgerStep == Ledger /\ [Next]_vars => Ledger'
<1>. SUFFICES ASSUME Ledger, [Next]_vars PROVE Ledger'
  OBVIOUS
<1>. USE DEF Ledger
<1>1. ASSUME NEW n \in Names, Tell(n) PROVE Ledger'
  <2>1. told' \in [Names -> Nat] /\ due' \in [Names -> SUBSET Nat] /\ handled' = handled
    BY <1>1 DEF Tell
  <2>2. ASSUME NEW m \in Names PROVE Between(m)'
    <3>1. CASE m = n
      <4>1. told'[m] = told[m] + 1 /\ due'[m] = due[m] \cup {told[m] + 1}
        BY <1>1, <3>1 DEF Tell
      <4>2. told[m] \in Nat /\ handled[m].call \in Nat
        OBVIOUS
      <4>. QED  BY <2>1, <4>1, <4>2 DEF Between
    <3>2. CASE m # n
      <4>1. told'[m] = told[m] /\ due'[m] = due[m]
        BY <1>1, <3>2 DEF Tell
      <4>. QED  BY <2>1, <4>1 DEF Between
    <3>. QED  BY <3>1, <3>2
  <2>. QED  BY <2>1, <2>2
<1>2. ASSUME NEW n \in Names, Handle(n) PROVE Ledger'
  <2>. DEFINE event(c) == [typ |-> IF handled[n] = None THEN "New" ELSE "Update", call |-> c]
  <2>1. PICK c \in due[n] : /\ \A d \in due[n] : c <= d
                            /\ handled' = [handled EXCEPT ![n] = event(c)]
                            /\ due' = [due EXCEPT ![n] = @ \ {c}]
                            /\ told' = told
    BY <1>2 DEF Handle
  <2>2. /\ c \in Nat /\ c = handled[n].call + 1 /\ handled[n].call \in Nat
        /\ due[n] \ {c} = (c + 1)..told[n] /\ c <= told[n]
    <3>1. handled[n].call \in Nat /\ told[n] \in Nat /\ due[n] = (handled[n].call + 1)..told[n]
      BY DEF Between
    <3>. QED  BY <2>1, <3>1, LeastIsNext
  <2>3. due' \in [Names -> SUBSET Nat]
    BY <2>1
  <2>4. handled' \in [Names -> [typ : {"none", "New", "Update"}, call : Nat]]
    BY <2>1, <2>2
  <2>5. ASSUME NEW m \in Names PROVE Between(m)'
    <3>1. CASE m = n
      <4>1. told'[m] = told[m] /\ due'[m] = due[m] \ {c} /\ handled'[m].call = c
        BY <2>1, <3>1
      <4>2. handled'[m] # None
        BY <2>2, <4>1 DEF None
      <4>. QED  BY <2>2, <3>1, <4>1, <4>2 DEF Between
    <3>2. CASE m # n
      <4>1. told'[m] = told[m] /\ due'[m] = due[m] /\ handled'[m] = handled[m]
        BY <2>1, <3>2
      <4>. QED  BY <4>1 DEF Between
    <3>. QED  BY <3>1, <3>2
  <2>. QED  BY <2>1, <2>3, <2>4, <2>5
<1>3. CASE UNCHANGED vars
  BY <1>3 DEF vars, Between
<1>. QED  BY <1>1, <1>2, <1>3 DEF Next

(***************************************************************************)
(* None is left out: the calls whose pods are still to be taken are those  *)
(* after the last one that a worker has taken, up to the last one there    *)
(* was.                                                                    *)
(***************************************************************************)
THEOREM LedgerHolds == Spec => []Ledger
BY LedgerInit, LedgerStep, PTL DEF Spec

(***************************************************************************)
(* None is taken twice and none out of order: each event of a worker is    *)
(* for the call after that of the event before, the first New, the others  *)
(* Update.                                                                 *)
(***************************************************************************)
THEOREM TakenOnceInOrderHolds == Spec => [][TakenOnceInOrder]_vars
<1>1. Ledger /\ [Next]_vars => [TakenOnceInOrder]_vars
  <2>. SUFFICES ASSUME Ledger, Next, NEW m \in Names, handled'[m] # handled[m]
                PROVE  /\ handled'[m].call = handled[m].call + 1
                       /\ handled'[m].typ = IF handled'[m].call = 1 THEN "New" ELSE "Update"
    BY DEF TakenOnceInOrder
  <2>1. PICK n \in Names : Handle(n)
    BY DEF Next, Tell
  <2>. DEFINE event(c) == [typ |-> IF handled[n] = None THEN "New" ELSE "Update", call |-> c]
  <2>2. PICK c \in due[n] : /\ \A d \in due[n] : c <= d
                            /\ handled' = [handled EXCEPT ![n] = event(c)]
    BY <2>1 DEF Handle
  <2>3. m = n /\ handled'[n] = event(c)
    BY <2>2 DEF Ledger
  <2>4. /\ handled[n].call \in Nat /\ told[n] \in Nat
        /\ due[n] = (handled[n].call + 1)..told[n]
        /\ handled[n] = None <=> handled[n].call = 0
    BY DEF Ledger, Between
  <2>5. c = handled[n].call + 1
    BY <2>2, <2>4, LeastIsNext
  <2>6. c = 1 <=> handled[n] = None
    BY <2>4, <2>5
  <2>. QED  BY <2>3, <2>5, <2>6
<1>. QED  BY <1>1, LedgerHolds, PTL DEF Spec
=============================================================================
