---------------------------- MODULE LinkService -----------------------------
(***************************************************************************)
(* What the link manager promises the rest of the agent: the four          *)
(* attributes that the DTN sender and the status builder read through      *)
(* callbacks, and the event that wakes the sender.                         *)
(*                                                                         *)
(*  - mode and session change together, except at a restart, which keeps   *)
(*    neither;                                                             *)
(*  - the active link only ever becomes one that the mode in force at that *)
(*    moment allows;                                                       *)
(*  - every change of mode or active link sets the event; only the sender  *)
(*    clears it, in the same loop step in which it saw no usable link.     *)
(*                                                                         *)
(* LinkManager implements this module, and DTNSender is checked against it *)
(* instead of against the probes, scores and routes.                       *)
(***************************************************************************)
EXTENDS Naturals

CONSTANTS
    Modes,        \* the experiment modes in use
    InitialMode,  \* INITIAL_MODE of the agent's configuration
    MaxSession    \* bound on the sessions started in one behaviour

AllModes == {"single_link_wifi", "single_link_lte", "adaptive", "redundant"}
Links    == {"wifi", "lte"}
None     == "none"

VARIABLES
    mode,        \* _mode
    session,     \* _experiment_session_id, numbered in order of creation
    activeLink,  \* _active_link
    linkEvent    \* is _link_change_event set?

vars == <<mode, session, activeLink, linkEvent>>

(* The links a mode may make active. *)
Allowed(m) ==
    CASE m = "single_link_wifi" -> {"wifi"}
      [] m = "single_link_lte"  -> {"lte"}
      [] OTHER                  -> Links

(* The sender may not send while there is no active link, unless redundant. *)
NoUsableLink == mode # "redundant" /\ activeLink = None

Init ==
    /\ mode = InitialMode
    /\ session = 0
    /\ activeLink = None
    /\ linkEvent = FALSE

ChangeMode(m) ==
    /\ m # mode
    /\ session < MaxSession
    /\ mode' = m
    /\ session' = session + 1
    /\ linkEvent' = TRUE
    /\ UNCHANGED activeLink

(* Mutant: a new active link does not set the event. *)
ChangeLinkSilently(l) ==
    /\ l # activeLink
    /\ activeLink' = l
    /\ UNCHANGED <<mode, session, linkEvent>>

ChangeLink(l) ==
    /\ l # activeLink
    /\ activeLink' = l
    /\ linkEvent' = TRUE
    /\ UNCHANGED <<mode, session>>

ClearEvent ==
    /\ NoUsableLink
    /\ linkEvent' = FALSE
    /\ UNCHANGED <<mode, session, activeLink>>

Restart ==
    /\ session < MaxSession
    /\ mode' = InitialMode
    /\ session' = session + 1
    /\ activeLink' = None
    /\ linkEvent' = FALSE

Next ==
    \/ \E m \in Modes : ChangeMode(m)
    \/ \E l \in Allowed(mode) \cup {None} : ChangeLink(l)
    \/ ClearEvent
    \/ Restart

Spec == Init /\ [][Next]_vars
=============================================================================
