------------------------------ MODULE Mailboxes ------------------------------
(***************************************************************************)
(* What the pod manager promises, as one mailbox for each pod name: the    *)
(* pod of every call of NewPod is taken by the worker of its name, in the  *)
(* order of the calls, none twice and none left out; the first as a New    *)
(* event and all later ones as Update events.                              *)
(*                                                                         *)
(* The calls for a name are numbered.  Which version of the pod a call     *)
(* brings is not looked at: Reconcile hands the same version over again    *)
(* after a requeue or a resync, and each call is passed on all the same.   *)
(***************************************************************************)
EXTENDS Naturals

CONSTANT Names    \* names of pods

VARIABLES told,     \* how many calls there were for each name
          due,      \* the calls whose pods are still to be taken
          handled   \* the last event that the worker took

vars == <<told, due, handled>>

None == [typ |-> "none", call |-> 0]

Init == /\ told = [n \in Names |-> 0]
        /\ due = [n \in Names |-> {}]
        /\ handled = [n \in Names |-> None]

Tell(n) == /\ told' = [told EXCEPT ![n] = @ + 1]
           /\ due' = [due EXCEPT ![n] = @ \cup {told[n] + 1}]
           /\ UNCHANGED handled

Handle(n) == \E c \in due[n] :
                /\ \A d \in due[n] : c <= d
                /\ handled' = [handled EXCEPT ![n] =
                                 [typ |-> IF @ = None THEN "New" ELSE "Update", call |-> c]]
                /\ due' = [due EXCEPT ![n] = @ \ {c}]
                /\ UNCHANGED told

Next == \E n \in Names : Tell(n) \/ Handle(n)

Spec == Init /\ [][Next]_vars
=============================================================================
