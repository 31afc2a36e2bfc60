--------------------------- MODULE SenderService ----------------------------
(***************************************************************************)
(* What the DTN sender promises, whatever uD3TN, the link manager and the  *)
(* operator do to it:                                                      *)
(*                                                                         *)
(*  - messages are handed to uD3TN in the order in which they were         *)
(*    produced: only the oldest that is neither done nor cleared is        *)
(*    handed over, any number of times;                                    *)
(*  - a message is done only when it has been handed over, and is cleared  *)
(*    only when it has not;                                                *)
(*  - the sessions in the bundles never go back, and none is ahead of the  *)
(*    current one.                                                         *)
(*                                                                         *)
(* DTNSender implements this module.                                       *)
(***************************************************************************)
EXTENDS Naturals

CONSTANT Tagged  \* the messages whose bundles carry a session

VARIABLES
    session,   \* the current one
    produced,  \* messages 1..produced have been put on the queue
    given,     \* what uD3TN has accepted: message and session
    done,      \* the messages that the agent has finished with
    cleared    \* the messages that the operator has thrown away

vars == <<session, produced, given, done, cleared>>

Init ==
    /\ session = 0
    /\ produced = 0
    /\ given = {}
    /\ done = {}
    /\ cleared = {}

Outstanding(m) == m \in (1..produced) \ (done \cup cleared)
Given(m) == \E g \in given : g.id = m

NewSession ==
    /\ session' = session + 1
    /\ UNCHANGED <<produced, given, done, cleared>>

Produce ==
    /\ produced' = produced + 1
    /\ UNCHANGED <<session, given, done, cleared>>

Clear(S) ==
    /\ \A m \in S : Outstanding(m) /\ ~Given(m)
    /\ cleared' = cleared \cup S
    /\ UNCHANGED <<session, produced, given, done>>

InSessionOrder(m, s) ==
    m \in Tagged => /\ s <= session
                    /\ \A g \in given : g.id \in Tagged => g.session <= s

Give(m, s) ==
    /\ InSessionOrder(m, s)
    /\ given' = given \cup {[id |-> m, session |-> s]}

(* One attempt for the oldest message. *)
Attempt(m) ==
    /\ Outstanding(m)
    /\ \A n \in 1..(m - 1) : ~Outstanding(n)
    /\ UNCHANGED given \/ \E s \in 0..session : Give(m, s)
    /\ UNCHANGED done \/ (Given(m)' /\ done' = done \cup {m})
    /\ UNCHANGED <<session, produced, cleared>>

Next ==
    \/ NewSession
    \/ Produce
    \/ \E S \in SUBSET (1..produced) : Clear(S)
    \/ \E m \in 1..produced : Attempt(m)

Spec == Init /\ [][Next]_vars
=============================================================================
