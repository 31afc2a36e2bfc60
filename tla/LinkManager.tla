---------------------------- MODULE LinkManager -----------------------------
(***************************************************************************)
(* The link manager of the Pi agent, pi-agent/link_manager: it probes WiFi *)
(* and LTE, scores them, picks the active link for the experiment mode in  *)
(* force, and installs the kernel host route towards the Mac.              *)
(*                                                                         *)
(* _check_cycle awaits one probe per interface that is up.  The operator's *)
(* set_mode and set_runtime_config commands, and the sender, run at those  *)
(* awaits and between cycles; everything between two awaits is one action. *)
(*                                                                         *)
(* Abstractions: a successful probe yields any RTT score of RttScores      *)
(* (percent), which covers every value the EWMA could have; scores are in  *)
(* hundredths of a percent; the time since the last switch is counted in   *)
(* ticks up to HoldTime; a host route is the set of links it uses.         *)
(***************************************************************************)
EXTENDS Integers, Sequences, FiniteSets

CONSTANTS
    Modes, InitialMode, MaxSession,  \* as in LinkService
    Window,            \* PROBE_WINDOW
    RttScores,         \* the RTT scores, in percent, a probe may lead to
    WRtt, WAvail,      \* W_RTT and W_AVAIL, in percent
    Hysteresis,        \* SCORE_HYSTERESIS, in hundredths of a percent
    WinStreak,         \* ADAPTIVE_WIN_STREAK
    HoldTime,          \* HOLD_TIME_S, in ticks
    FailoverFailures   \* IMMEDIATE_FAILOVER_FAILURES

AllModes == {"single_link_wifi", "single_link_lte", "adaptive", "redundant"}
Links    == {"wifi", "lte"}
None     == "none"
Down     == -1  \* outcome of a probe that failed, or of an interface not up

ASSUME ModesAssumption == Modes \subseteq AllModes /\ InitialMode \in Modes
ASSUME MaxSessionAssumption == MaxSession \in Nat
ASSUME ScoringAssumption ==
    /\ Window \in Nat \ {0}
    /\ RttScores \subseteq 0..100
    /\ WRtt \in Nat /\ WAvail \in Nat /\ Hysteresis \in Nat
ASSUME SwitchingAssumption ==
    /\ WinStreak \in Nat \ {0}
    /\ HoldTime \in Nat
    /\ FailoverFailures \in Nat \ {0}

VARIABLES
    mode,          \* _mode
    session,       \* _experiment_session_id, numbered in order of creation
    activeLink,    \* _active_link
    linkEvent,     \* is _link_change_event set?
    reason,        \* _decision_reason
    reachable,     \* _wifi_reachable, _lte_reachable
    history,       \* _probe_history, oldest outcome first
    score,         \* _scores
    candidate,     \* _candidate_link
    streak,        \* _candidate_streak, saturating at WinStreak
    sinceSwitch,   \* now - _last_switch_ts, saturating at HoldTime
    lastFailover,  \* _last_failover_direction, << >> before the first
    detected,      \* the links whose interface has been found
    routes,        \* the links recorded in _active_routes
    kernel,        \* the links of the host route really installed
    pc             \* where the check cycle is: "sleep" or the probe awaited

serviceVars == <<mode, session, activeLink, linkEvent>>
scoreVars   == <<reachable, history, score>>
routeVars   == <<routes, kernel>>
choiceVars  == <<candidate, streak, sinceSwitch, lastFailover>>
vars == <<serviceVars, reason, scoreVars, choiceVars, detected, routeVars, pc>>

Other(l) == IF l = "wifi" THEN "lte" ELSE "wifi"

(* Mutant: set_mode keeps the reason of the mode before. *)
ReasonKept(m) == reason
BaselineReason(m) == IF m = "redundant" THEN "redundant" ELSE "baseline"

Init ==
    /\ mode = InitialMode
    /\ session = 0
    /\ activeLink = None
    /\ linkEvent = FALSE
    /\ reason = "baseline"
    /\ reachable = [l \in Links |-> FALSE]
    /\ history = [l \in Links |-> << >>]
    /\ score = [l \in Links |-> 0]
    /\ candidate = None
    /\ streak = 0
    /\ sinceSwitch = HoldTime
    /\ lastFailover = << >>
    /\ detected \in SUBSET Links
    /\ routes = {}
    /\ kernel = {}
    /\ pc = "sleep"

-----------------------------------------------------------------------------
(* _update_ewma_and_score, for the links of DOMAIN outcome *)

(* Mutant: the deque is built without maxlen. *)
PushedWithoutLimit(h, ok) == Append(h, ok)

Pushed(h, ok) ==
    LET longer == Append(h, ok)
    IN  IF Len(longer) > Window THEN Tail(longer) ELSE longer

Successes(h) == Cardinality({i \in 1..Len(h) : h[i]})
Score(rtt, h) == WRtt * rtt + WAvail * ((100 * Successes(h)) \div Len(h))

Observe(outcome) ==
    LET Seen(l) == l \in DOMAIN outcome
    IN  /\ reachable' = [l \in Links |->
               IF Seen(l) THEN outcome[l] # Down ELSE reachable[l]]
        /\ history' = [l \in Links |->
               IF Seen(l) THEN Pushed(history[l], outcome[l] # Down)
               ELSE history[l]]
        /\ score' = [l \in Links |->
               IF ~Seen(l) THEN score[l]
               ELSE IF outcome[l] = Down THEN 0
               ELSE Score(outcome[l], Pushed(history[l], TRUE))]

(* _has_recent_failures *)
RecentFailures(h) ==
    /\ Len(h) >= FailoverFailures
    /\ \A i \in (Len(h) - FailoverFailures + 1)..Len(h) : ~h[i]

-----------------------------------------------------------------------------
(* Route management.  A route is added with `ip route replace', which may
   fail, as may the resolution of the Mac's address. *)

RemoveRoutes == routes' = {} /\ kernel' = IF routes = {} THEN kernel ELSE {}

(* Mutant: the exit status of `ip route' is not looked at. *)
InstallRoutesUnchecked(links) == routes' = links /\ kernel' \in {links, kernel}
InstallRoutes(links) == routes' = links /\ kernel' = links

(* _set_single_route and _add_route *)
SetSingleRoute(link) ==
    \/ RemoveRoutes
    \/ link \in detected' /\ InstallRoutes({link})

(* _set_redundant_routes; a reachable link always has a known interface.  If
   the multipath route cannot be installed the previous route stays. *)
SetRedundantRoutes(up) ==
    IF up = Links THEN UNCHANGED routeVars \/ InstallRoutes(Links)
    ELSE SetSingleRoute(IF up = {} THEN None ELSE CHOOSE l \in up : TRUE)

-----------------------------------------------------------------------------
(* The decision that ends a check cycle.  It reads reachable' and score',
   which the same step has just refreshed. *)

(* Mutant: the decision uses the result of the previous cycle. *)
UpBefore == {l \in Links : reachable[l]}
Up == {l \in Links : reachable'[l]}
Best == IF score'["wifi"] >= score'["lte"] THEN "wifi" ELSE "lte"

(* Mutant: the sender is not notified. *)
WakeNobody == UNCHANGED linkEvent
WakeSender == linkEvent' = TRUE

(* _apply; staying on the same link leaves routes and candidate alone *)
Apply(link, why) ==
    /\ reason' = why
    /\ UNCHANGED <<mode, session>>
    /\ IF link = activeLink
       THEN UNCHANGED <<activeLink, linkEvent, choiceVars, routeVars>>
       ELSE /\ activeLink' = link
            /\ WakeSender
            /\ sinceSwitch' = 0
            /\ candidate' = None
            /\ streak' = 0
            /\ lastFailover' = IF None \in {activeLink, link} THEN lastFailover
                               ELSE <<activeLink, link>>
            /\ SetSingleRoute(link)

(* The scores do not move the active link in this cycle. *)
Stay(why, cand, n) ==
    /\ reason' = why
    /\ candidate' = cand
    /\ streak' = n
    /\ UNCHANGED <<serviceVars, sinceSwitch, lastFailover, routeVars>>

SingleLink(link) == Apply(IF link \in Up THEN link ELSE None, mode)

Unhealthy(l) == l \notin Up \/ RecentFailures(history'[l])

BothDown == Up = {} /\ Apply(None, "adaptive_link_down")

CurrentUnhealthy ==
    /\ Up # {}
    /\ activeLink # None /\ Unhealthy(activeLink)
    /\ Apply(IF Other(activeLink) \in Up THEN Other(activeLink) ELSE None,
             "adaptive_link_down")

OtherDown ==
    /\ activeLink # None => ~Unhealthy(activeLink)
    /\ \E l \in Links : Up = {l} /\ Apply(l, "adaptive_link_down")

FirstChoice ==
    /\ Up = Links
    /\ activeLink = None
    /\ Apply(Best, "adaptive_score")

(* Mutant: the better link wins without a margin. *)
LeadsAtAll == Best # activeLink
Leads == Best # activeLink /\ score'[Best] >= score'[activeLink] + Hysteresis

(* Mutant: every win starts a new streak. *)
NextStreakAlwaysOne == 1
NextStreak == IF candidate # Best THEN 1
              ELSE IF streak < WinStreak THEN streak + 1 ELSE streak

Challenge ==
    /\ Up = Links
    /\ activeLink # None /\ ~Unhealthy(activeLink)
    /\ \/ ~Leads /\ Stay("adaptive_score", None, 0)
       \/ /\ Leads
          /\ NextStreak < WinStreak \/ sinceSwitch < HoldTime
          /\ Stay("adaptive_hold", Best, NextStreak)
       \/ /\ Leads
          /\ NextStreak >= WinStreak /\ sinceSwitch >= HoldTime
          /\ Apply(Best, "adaptive_score")

Adaptive == BothDown \/ CurrentUnhealthy \/ OtherDown \/ FirstChoice \/ Challenge

(* _redundant_logic: the active link is informational, both routes are kept *)
Redundant ==
    LET info == IF Up = Links THEN Best
                ELSE IF Up = {} THEN None ELSE CHOOSE l \in Up : TRUE
    IN  /\ activeLink' = info
        /\ linkEvent' = (linkEvent \/ info # activeLink)
        /\ reason' = "redundant"
        /\ SetRedundantRoutes(Up)
        /\ UNCHANGED <<mode, session, choiceVars>>

Decide ==
    \/ mode = "single_link_wifi" /\ SingleLink("wifi")
    \/ mode = "single_link_lte" /\ SingleLink("lte")
    \/ mode = "adaptive" /\ Adaptive
    \/ mode = "redundant" /\ Redundant

NoDecision == UNCHANGED <<serviceVars, reason, choiceVars, routeVars>>

-----------------------------------------------------------------------------
(* _check_cycle, from one await to the next *)

(* The wait between cycles is over.  While an interface is missing the
   interfaces are looked up again, which may also lose the other one.  An
   interface that is not up fails without a probe. *)
StartCycle ==
    /\ pc = "sleep"
    /\ detected' \in IF detected = Links THEN {Links} ELSE SUBSET Links
    /\ \/ /\ "wifi" \in detected'
          /\ pc' = "wifi"
          /\ UNCHANGED scoreVars /\ NoDecision
       \/ /\ "lte" \in detected'
          /\ pc' = "lte"
          /\ Observe([l \in {"wifi"} |-> Down]) /\ NoDecision
       \/ /\ pc' = "sleep"
          /\ Observe([l \in Links |-> Down]) /\ Decide

WifiProbed ==
    /\ pc = "wifi"
    /\ UNCHANGED detected
    /\ \E r \in RttScores \cup {Down} :
          \/ /\ "lte" \in detected
             /\ pc' = "lte"
             /\ Observe([l \in {"wifi"} |-> r]) /\ NoDecision
          \/ /\ pc' = "sleep"
             /\ Observe([l \in Links |-> IF l = "wifi" THEN r ELSE Down])
             /\ Decide

LteProbed ==
    /\ pc = "lte"
    /\ pc' = "sleep"
    /\ UNCHANGED detected
    /\ \E r \in RttScores \cup {Down} : Observe([l \in {"lte"} |-> r]) /\ Decide

CheckCycle == StartCycle \/ WifiProbed \/ LteProbed

-----------------------------------------------------------------------------
(* set_mode; a command naming the current mode returns early *)
SetMode(m) ==
    /\ m # mode
    /\ session < MaxSession
    /\ mode' = m
    /\ session' = session + 1
    /\ reason' = BaselineReason(m)
    /\ sinceSwitch' = HoldTime
    /\ candidate' = None
    /\ streak' = 0
    /\ WakeSender
    /\ UNCHANGED <<activeLink, scoreVars, lastFailover, detected, routeVars, pc>>

(* set_runtime_config: forget what was measured under the old tunables *)
SetRuntimeConfig ==
    /\ history' = [l \in Links |-> << >>]
    /\ score' = [l \in Links |-> 0]
    /\ candidate' = None
    /\ streak' = 0
    /\ UNCHANGED <<serviceVars, reason, reachable, sinceSwitch, lastFailover,
                   detected, routeVars, pc>>

(* Time passes towards the end of the hold time. *)
Tick ==
    /\ sinceSwitch < HoldTime
    /\ sinceSwitch' = sinceSwitch + 1
    /\ UNCHANGED <<serviceVars, reason, scoreVars, candidate, streak,
                   lastFailover, detected, routeVars, pc>>

(* The interface of a link goes away, and with it the kernel's routes over it;
   the agent is not told. *)
InterfaceLost(l) ==
    /\ l \in kernel
    /\ kernel' = kernel \ {l}
    /\ UNCHANGED <<serviceVars, reason, scoreVars, choiceVars, detected, routes, pc>>

(* The DTN sender found no usable link and clears the event to wait on it. *)
SenderWaits ==
    /\ mode # "redundant" /\ activeLink = None
    /\ linkEvent' = FALSE
    /\ UNCHANGED <<mode, session, activeLink, reason, scoreVars, choiceVars,
                   detected, routeVars, pc>>

(* The agent is restarted (restart_agent, or systemd): the process state is
   built anew, the route in the kernel is still there. *)
Restart ==
    /\ session < MaxSession
    /\ mode' = InitialMode
    /\ session' = session + 1
    /\ activeLink' = None
    /\ linkEvent' = FALSE
    /\ reason' = "baseline"
    /\ reachable' = [l \in Links |-> FALSE]
    /\ history' = [l \in Links |-> << >>]
    /\ score' = [l \in Links |-> 0]
    /\ candidate' = None
    /\ streak' = 0
    /\ sinceSwitch' = HoldTime
    /\ lastFailover' = << >>
    /\ detected' \in SUBSET Links
    /\ routes' = {}
    /\ pc' = "sleep"
    /\ UNCHANGED kernel

Next ==
    \/ CheckCycle
    \/ \E m \in Modes : SetMode(m)
    \/ SetRuntimeConfig
    \/ Tick
    \/ \E l \in Links : InterfaceLost(l)
    \/ SenderWaits
    \/ Restart

Spec == Init /\ [][Next]_vars

(* The cycle runs for ever: each probe ends, by its own timeout if need be,
   and so does each sleep; and time passes. *)
FairSpec == Spec /\ WF_vars(CheckCycle) /\ WF_vars(Tick)

-----------------------------------------------------------------------------
TypeOK ==
    /\ mode \in Modes
    /\ session \in 0..MaxSession
    /\ activeLink \in Links \cup {None}
    /\ linkEvent \in BOOLEAN
    /\ reason \in AllModes \cup {"baseline", "adaptive_score",
                               "adaptive_hold", "adaptive_link_down"}
    /\ reachable \in [Links -> BOOLEAN]
    /\ history \in [Links -> Seq(BOOLEAN)]
    /\ \A l \in Links : Len(history[l]) <= Window
    /\ score \in [Links -> Nat]
    /\ candidate \in Links \cup {None}
    /\ streak \in 0..WinStreak
    /\ sinceSwitch \in 0..HoldTime
    /\ lastFailover \in {<< >>} \cup (Links \X Links)
    /\ detected \in SUBSET Links
    /\ routes \in SUBSET Links
    /\ kernel \in SUBSET Links
    /\ pc \in {"sleep"} \cup Links

(* While the agent has a route on record, no DTN traffic can leave by a link
   that is not: across mode changes, failed route commands, lost interfaces
   and restarts.  (The converse does not hold: a route that went away with its
   interface stays on record.) *)
KernelWithinRecord == routes # {} => kernel \subseteq routes

(* Once the last link is lost, no DTN route the agent installed is left. *)
NoLinkNoRoute == activeLink = None => routes = {}

(* The decision reason reported for a mode is one that mode produces, although
   the mode may change while a cycle is half way through its probes. *)
ReasonsOf(m) ==
    IF m = "adaptive"
    THEN {"adaptive_score", "adaptive_hold", "adaptive_link_down"} ELSE {m}
ReasonFitsMode == reason \in {"baseline"} \cup ReasonsOf(mode)

Decided == CheckCycle /\ pc' = "sleep"

Permitted(m) ==
    CASE m = "single_link_wifi" -> {"wifi"}
      [] m = "single_link_lte"  -> {"lte"}
      [] OTHER                  -> Links

(* Whatever commands arrive during its probes, a cycle leaves the agent without
   a link exactly when no link that the mode in force permits answered, and
   otherwise on a permitted link that answered the latest probe. *)
LinkChosenWhenAnyUp ==
    [][Decided =>
         LET answered == {l \in Permitted(mode) : reachable'[l]}
         IN  IF answered = {} THEN activeLink' = None
             ELSE activeLink' \in answered]_vars

(* Adaptive mode moves between two working links only for a lead of at least
   the hysteresis, and never before the hold time of the previous move. *)
NoFlapping ==
    [][Decided /\ mode = "adaptive" /\ (\A l \in Links : reachable'[l])
         /\ activeLink # None /\ activeLink' # activeLink
       => /\ score'[activeLink'] >= score'[activeLink] + Hysteresis
          /\ sinceSwitch >= HoldTime]_vars

(* In adaptive mode, when one link stays up and the other down, or one keeps a
   sufficient lead, the agent ends up on that link and stays there. *)
Prefers(l) ==
    /\ mode = "adaptive"
    /\ reachable[l]
    /\ reachable[Other(l)] => score[l] >= score[Other(l)] + Hysteresis
AdaptiveConverges ==
    \A l \in Links : <>[]Prefers(l) => <>[](activeLink = l)

(* Refinement: the rest of the agent may rely on LinkService alone. *)
Service == INSTANCE LinkService
ImplementsService == Service!Spec

-----------------------------------------------------------------------------
(* docs/architecture.md: "single_link_wifi - force all DTN traffic over WiFi".
   A decision in that mode leaves no DTN route over LTE. *)
SingleModeUsesOneLink ==
    [][Decided /\ mode = "single_link_wifi" => kernel' \subseteq {"wifi"}]_vars
=============================================================================
