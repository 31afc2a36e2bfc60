--------------------------- MODULE OrderedChannel ---------------------------
(***************************************************************************)
(* What one direction of the management channel promises, whatever happens *)
(* to the connections under it: messages are numbered in the order they    *)
(* are sent, any of them may be lost, and those that are handled are       *)
(* handled once and in that order.                                         *)
(***************************************************************************)
EXTENDS Naturals

VARIABLES
    sent,     \* the number of messages sent so far
    pending,  \* those sent, and neither handled nor lost
    handled   \* the number of the message handled last, 0 before the first

vars == <<sent, pending, handled>>

Init ==
    /\ sent = 0
    /\ pending = {}
    /\ handled = 0

Send ==
    /\ sent' = sent + 1
    /\ pending' \in {pending, pending \cup {sent + 1}}
    /\ UNCHANGED handled

Handle(m) ==
    /\ m \in pending
    /\ m > handled
    /\ handled' = m
    /\ pending' \subseteq {n \in pending : n > m}
    /\ UNCHANGED sent

Lose ==
    /\ pending' \subseteq pending
    /\ UNCHANGED <<sent, handled>>

Next == Send \/ Lose \/ \E m \in pending : Handle(m)

Spec == Init /\ [][Next]_vars
=============================================================================
