------------------------- MODULE LinkManagerProofs --------------------------
(***************************************************************************)
(* Proofs about LinkManager: its types, its routes, the reasons it gives,  *)
(* the links it chooses, and that it implements LinkService.               *)
(*                                                                         *)
(* The argument of all of them: a step of the check cycle is an Observe    *)
(* followed by a Decide or by NoDecision; and a Decide is an Apply, a Stay *)
(* or Redundant.  What each of these does to each group of variables is a  *)
(* lemma.  Which link is chosen rests on one more invariant, LastIsUp.     *)
(***************************************************************************)
EXTENDS LinkManager, FiniteSetTheorems, SequenceTheorems, TLAPS

ServiceType ==
    /\ mode \in Modes
    /\ session \in 0..MaxSession
    /\ activeLink \in Links \cup {None}
    /\ linkEvent \in BOOLEAN
Reasons == AllModes \cup {"baseline", "adaptive_score",
                          "adaptive_hold", "adaptive_link_down"}
ScoreType ==
    /\ reachable \in [Links -> BOOLEAN]
    /\ history \in [Links -> Seq(BOOLEAN)]
    /\ \A l \in Links : Len(history[l]) <= Window
    /\ score \in [Links -> Nat]
ChoiceType ==
    /\ candidate \in Links \cup {None}
    /\ streak \in 0..WinStreak
    /\ sinceSwitch \in 0..HoldTime
    /\ lastFailover \in {<< >>} \cup (Links \X Links)
RouteType ==
    /\ routes \in SUBSET Links
    /\ kernel \in SUBSET Links
CycleType ==
    /\ detected \in SUBSET Links
    /\ pc \in {"sleep"} \cup Links

LEMMA TypeParts ==
    TypeOK <=> /\ ServiceType /\ reason \in Reasons /\ ScoreType
               /\ ChoiceType /\ RouteType /\ CycleType
BY DEF TypeOK, ServiceType, Reasons, ScoreType, ChoiceType, RouteType, CycleType

-----------------------------------------------------------------------------
(* Observe keeps the types of what is measured. *)

LEMMA PushedBounded ==
    ASSUME NEW h \in Seq(BOOLEAN), Len(h) <= Window, NEW ok \in BOOLEAN
    PROVE  /\ Pushed(h, ok) \in Seq(BOOLEAN)
           /\ Len(Pushed(h, ok)) <= Window
           /\ Len(Pushed(h, ok)) # 0
<1> DEFINE longer == Append(h, ok)
<1>1. longer \in Seq(BOOLEAN) /\ Len(longer) = Len(h) + 1 /\ Len(h) \in Nat
  OBVIOUS
<1>2. CASE Len(longer) > Window
  <2>1. Tail(longer) \in Seq(BOOLEAN) /\ Len(Tail(longer)) = Len(longer) - 1
    BY <1>1
  <2> QED BY <1>1, <1>2, <2>1, ScoringAssumption DEF Pushed
<1>3. CASE ~(Len(longer) > Window)
  BY <1>1, <1>3, ScoringAssumption DEF Pushed
<1> QED BY <1>2, <1>3

LEMMA ProductNat == ASSUME NEW a \in Nat, NEW b \in Nat PROVE a * b \in Nat
OBVIOUS

LEMMA QuotientNat ==
    ASSUME NEW a \in Nat, NEW b \in Nat \ {0} PROVE a \div b \in Nat
OBVIOUS

LEMMA ScoreNat ==
    ASSUME NEW h \in Seq(BOOLEAN), Len(h) # 0, NEW rtt \in RttScores
    PROVE  Score(rtt, h) \in Nat
<1>1. IsFiniteSet(1..Len(h))
  BY FS_Interval
<1>2. Successes(h) \in Nat
  BY <1>1, FS_Subset, FS_CardinalityType DEF Successes
<1>3. Len(h) \in Nat \ {0} /\ 100 * Successes(h) \in Nat
  BY <1>2
<1>4. (100 * Successes(h)) \div Len(h) \in Nat
  BY <1>3, QuotientNat
<1>5. WAvail * ((100 * Successes(h)) \div Len(h)) \in Nat
  BY <1>4, ProductNat, ScoringAssumption
<1>6. WRtt * rtt \in Nat
  BY ProductNat, ScoringAssumption
<1> QED BY <1>5, <1>6 DEF Score

Outcomes == UNION {[D -> RttScores \cup {Down}] : D \in SUBSET Links}

LEMMA OutcomeOn ==
    ASSUME NEW D \in SUBSET Links, NEW outcome \in [D -> RttScores \cup {Down}]
    PROVE  outcome \in Outcomes
BY DEF Outcomes

LEMMA ObserveTypes ==
    ASSUME ScoreType, NEW outcome \in Outcomes, Observe(outcome)
    PROVE  ScoreType'
<1> DEFINE Seen(l) == l \in DOMAIN outcome
<1>1. \A l \in Links : Seen(l) => outcome[l] \in RttScores \cup {Down}
  BY DEF Outcomes
<1>2. reachable' \in [Links -> BOOLEAN]
  BY DEF Observe, ScoreType
<1>3. ASSUME NEW l \in Links
      PROVE  /\ Pushed(history[l], TRUE) \in Seq(BOOLEAN)
             /\ Len(Pushed(history[l], TRUE)) <= Window
             /\ Len(Pushed(history[l], TRUE)) # 0
             /\ Pushed(history[l], FALSE) \in Seq(BOOLEAN)
             /\ Len(Pushed(history[l], FALSE)) <= Window
             /\ Len(Pushed(history[l], FALSE)) # 0
  <2>1. history[l] \in Seq(BOOLEAN) /\ Len(history[l]) <= Window
    BY DEF ScoreType
  <2> QED BY <2>1, PushedBounded, Zenon
<1>4. /\ history' \in [Links -> Seq(BOOLEAN)]
      /\ \A l \in Links : Len(history'[l]) <= Window
  <2>1. ASSUME NEW l \in Links
        PROVE  /\ history'[l] \in Seq(BOOLEAN)
               /\ Len(history'[l]) <= Window
    <3>1. CASE Seen(l)
      <4>1. history'[l] = Pushed(history[l], outcome[l] # Down)
        BY <3>1 DEF Observe
      <4>2. CASE outcome[l] = Down
        <5>1. history'[l] = Pushed(history[l], FALSE)
          BY <4>1, <4>2, Zenon
        <5> QED BY <5>1, <1>3, Zenon
      <4>3. CASE outcome[l] # Down
        <5>1. history'[l] = Pushed(history[l], TRUE)
          BY <4>1, <4>3, Zenon
        <5> QED BY <5>1, <1>3, Zenon
      <4> QED BY <4>2, <4>3
    <3>2. CASE ~Seen(l)
      BY <3>2 DEF Observe, ScoreType
    <3> QED BY <3>1, <3>2
  <2>2. history' = [l \in Links |-> history'[l]]
    BY DEF Observe
  <2> QED BY <2>1, <2>2
<1>5. ASSUME NEW l \in Links, Seen(l), outcome[l] # Down
      PROVE  Score(outcome[l], Pushed(history[l], TRUE)) \in Nat
  <2>1. outcome[l] \in RttScores
    BY <1>1, <1>5
  <2>2. Pushed(history[l], TRUE) \in Seq(BOOLEAN) /\ Len(Pushed(history[l], TRUE)) # 0
    BY <1>3, Zenon
  <2> QED BY <2>1, <2>2, ScoreNat, Zenon
<1>6. score' \in [Links -> Nat]
  BY <1>5 DEF Observe, ScoreType
<1> QED BY <1>2, <1>4, <1>6 DEF ScoreType
-----------------------------------------------------------------------------
(* Routes.  Every way of setting them keeps the kernel within the record. *)

RouteInv == RouteType /\ KernelWithinRecord

LEMMA SingleRoute ==
    ASSUME RouteInv, detected' \in SUBSET Links,
           NEW link \in Links \cup {None}, SetSingleRoute(link)
    PROVE  RouteInv' /\ (link = None => routes' = {})
<1>1. None \notin Links
  BY DEF None, Links
<1>2. CASE RemoveRoutes
  BY <1>2 DEF RemoveRoutes, RouteInv, RouteType, KernelWithinRecord
<1>3. CASE link \in detected' /\ InstallRoutes({link})
  BY <1>1, <1>3 DEF InstallRoutes, RouteInv, RouteType, KernelWithinRecord
<1> QED BY <1>2, <1>3 DEF SetSingleRoute

LEMMA RedundantRoutes ==
    ASSUME RouteInv, detected' \in SUBSET Links,
           NEW up \in SUBSET Links, SetRedundantRoutes(up)
    PROVE  RouteInv' /\ (up = {} => routes' = {})
<1>1. Links # {}
  BY DEF Links
<1>2. CASE up = Links
  BY <1>1, <1>2 DEF SetRedundantRoutes, InstallRoutes, RouteInv, RouteType,
                    KernelWithinRecord, routeVars
<1>3. CASE up # Links
  <2> DEFINE link == IF up = {} THEN None ELSE CHOOSE l \in up : TRUE
  <2>1. up # {} => (CHOOSE l \in up : TRUE) \in up
    BY Zenon
  <2>2. link \in Links \cup {None} /\ (up = {} => link = None)
    BY <2>1
  <2>3. SetSingleRoute(link)
    BY <1>3 DEF SetRedundantRoutes
  <2> HIDE DEF link
  <2> QED BY <2>2, <2>3, SingleRoute
<1> QED BY <1>2, <1>3

-----------------------------------------------------------------------------
(* What one decision does to the variables that it may change. *)

DecisionOutcome ==
    /\ UNCHANGED <<mode, session>>
    /\ activeLink' \in Permitted(mode) \cup {None}
    /\ linkEvent' \in BOOLEAN
    /\ activeLink' # activeLink => linkEvent' = TRUE
    /\ activeLink' = activeLink => linkEvent' = linkEvent
    /\ reason' \in ReasonsOf(mode)
    /\ ChoiceType'
    /\ RouteInv'
    /\ NoLinkNoRoute'

DecisionContext ==
    /\ ServiceType /\ ChoiceType /\ RouteInv /\ NoLinkNoRoute
    /\ detected' \in SUBSET Links

LEMMA ApplyOutcome ==
    ASSUME DecisionContext,
           NEW link \in Permitted(mode) \cup {None},
           NEW why \in ReasonsOf(mode), Apply(link, why)
    PROVE  DecisionOutcome
<1>1. link \in Links \cup {None}
  BY DEF Permitted, Links
<1>2. CASE link = activeLink
  <2>1. UNCHANGED <<activeLink, linkEvent, choiceVars, routeVars>>
    BY <1>2 DEF Apply
  <2>2. ChoiceType' /\ RouteInv' /\ NoLinkNoRoute'
    BY <2>1 DEF DecisionContext, choiceVars, routeVars, ChoiceType, RouteInv,
                RouteType, KernelWithinRecord, NoLinkNoRoute
  <2> QED BY <1>2, <2>1, <2>2 DEF Apply, DecisionContext, DecisionOutcome, ServiceType
<1>3. CASE link # activeLink
  <2>1. /\ activeLink' = link
        /\ linkEvent' = TRUE
        /\ sinceSwitch' = 0 /\ candidate' = None /\ streak' = 0
        /\ lastFailover' = IF None \in {activeLink, link} THEN lastFailover
                           ELSE <<activeLink, link>>
        /\ SetSingleRoute(link)
    BY <1>3 DEF Apply, WakeSender
  <2>2. ChoiceType'
    BY <1>1, <2>1, SwitchingAssumption DEF DecisionContext, ChoiceType, ServiceType
  <2>3. RouteInv' /\ NoLinkNoRoute'
    BY <1>1, <2>1, SingleRoute DEF DecisionContext, NoLinkNoRoute
  <2> QED BY <1>3, <2>1, <2>2, <2>3 DEF Apply, DecisionOutcome
<1> QED BY <1>2, <1>3

LEMMA StayOutcome ==
    ASSUME DecisionContext, activeLink \in Permitted(mode) \cup {None},
           NEW why \in ReasonsOf(mode), NEW cand \in Links \cup {None},
           NEW n \in 0..WinStreak, Stay(why, cand, n)
    PROVE  DecisionOutcome
<1>1. ChoiceType' /\ RouteInv' /\ NoLinkNoRoute'
  BY DEF Stay, DecisionContext, serviceVars, routeVars, ChoiceType, RouteInv,
         RouteType, KernelWithinRecord, NoLinkNoRoute
<1> QED BY <1>1 DEF Stay, DecisionContext, DecisionOutcome, serviceVars, ServiceType

LEMMA AdaptiveOutcome ==
    ASSUME DecisionContext, mode = "adaptive", Adaptive
    PROVE  DecisionOutcome
<1> DEFINE why == {"adaptive_score", "adaptive_hold", "adaptive_link_down"}
<1>1. Permitted(mode) = Links /\ ReasonsOf(mode) = why
  BY DEF Permitted, ReasonsOf
<1>2. Best \in Links
  BY DEF Best, Links
<1>3. activeLink \in Links \cup {None}
  BY DEF DecisionContext, ServiceType
<1>4. CASE BothDown
  BY <1>1, <1>4, ApplyOutcome DEF BothDown
<1>5. CASE CurrentUnhealthy
  <2>1. Other(activeLink) \in Links
    BY DEF Other, Links
  <2>2. PICK link \in Links \cup {None} : Apply(link, "adaptive_link_down")
    BY <1>5, <2>1 DEF CurrentUnhealthy
  <2> QED BY <1>1, <2>2, ApplyOutcome
<1>6. CASE OtherDown
  <2>1. PICK link \in Links : Apply(link, "adaptive_link_down")
    BY <1>6 DEF OtherDown
  <2> QED BY <1>1, <2>1, ApplyOutcome
<1>7. CASE FirstChoice
  BY <1>1, <1>2, <1>7, ApplyOutcome DEF FirstChoice
<1>8. CASE Challenge
  <2>1. NextStreak \in 0..WinStreak
    BY SwitchingAssumption DEF NextStreak, DecisionContext, ChoiceType
  <2>2. CASE Stay("adaptive_score", None, 0)
    BY <1>1, <1>3, <2>2, StayOutcome, SwitchingAssumption
  <2>3. CASE Stay("adaptive_hold", Best, NextStreak)
    BY <1>1, <1>2, <1>3, <2>1, <2>3, StayOutcome
  <2>4. CASE Apply(Best, "adaptive_score")
    BY <1>1, <1>2, <2>4, ApplyOutcome
  <2> QED BY <1>8, <2>2, <2>3, <2>4 DEF Challenge
<1> QED BY <1>4, <1>5, <1>6, <1>7, <1>8 DEF Adaptive

LEMMA RedundantOutcome ==
    ASSUME DecisionContext, mode = "redundant", Redundant
    PROVE  DecisionOutcome
<1>1. Permitted(mode) = Links /\ ReasonsOf(mode) = {"redundant"}
  BY DEF Permitted, ReasonsOf
<1>2. Up \in SUBSET Links
  BY DEF Up
<1>3. Up # {} => (CHOOSE l \in Up : TRUE) \in Up
  BY Zenon
<1>4. activeLink' \in Links \cup {None} /\ (activeLink' = None => Up = {})
  <2>1. Best \in Links /\ None \notin Links /\ Links # {}
    BY DEF Best, Links, None
  <2> QED BY <1>2, <1>3, <2>1 DEF Redundant
<1>5. RouteInv' /\ (Up = {} => routes' = {})
  BY <1>2, RedundantRoutes DEF Redundant, DecisionContext
<1>6. ChoiceType'
  BY DEF Redundant, choiceVars, DecisionContext, ChoiceType
<1>7. linkEvent' \in BOOLEAN
      /\ (activeLink' # activeLink => linkEvent' = TRUE)
      /\ (activeLink' = activeLink => linkEvent' = linkEvent)
  BY DEF Redundant, DecisionContext, ServiceType
<1>8. UNCHANGED <<mode, session>> /\ reason' = "redundant"
  BY DEF Redundant
<1> QED BY <1>1, <1>4, <1>5, <1>6, <1>7, <1>8 DEF DecisionOutcome, NoLinkNoRoute

LEMMA DecideOutcome ==
    ASSUME DecisionContext, Decide
    PROVE  DecisionOutcome
<1>1. CASE mode = "single_link_wifi" /\ SingleLink("wifi")
  <2>1. Permitted(mode) = {"wifi"} /\ mode \in ReasonsOf(mode)
    BY <1>1 DEF Permitted, ReasonsOf
  <2> QED BY <1>1, <2>1, ApplyOutcome DEF SingleLink
<1>2. CASE mode = "single_link_lte" /\ SingleLink("lte")
  <2>1. Permitted(mode) = {"lte"} /\ mode \in ReasonsOf(mode)
    BY <1>2 DEF Permitted, ReasonsOf
  <2> QED BY <1>2, <2>1, ApplyOutcome DEF SingleLink
<1>3. CASE mode = "adaptive" /\ Adaptive
  BY <1>3, AdaptiveOutcome
<1>4. CASE mode = "redundant" /\ Redundant
  BY <1>4, RedundantOutcome
<1> QED BY <1>1, <1>2, <1>3, <1>4 DEF Decide
-----------------------------------------------------------------------------
(* The invariant, which is inductive as it stands: what the routes and the
   reasons need to know of each other is the mode and the active link. *)

IInv == TypeOK /\ KernelWithinRecord /\ NoLinkNoRoute /\ ReasonFitsMode

(* The same, part by part. *)
Parts ==
    /\ ServiceType /\ reason \in Reasons /\ ReasonFitsMode
    /\ ScoreType /\ ChoiceType /\ CycleType
    /\ RouteType /\ KernelWithinRecord /\ NoLinkNoRoute

LEMMA CycleOutcome ==
    ASSUME IInv, CheckCycle
    PROVE  /\ ScoreType' /\ CycleType'
           /\ DecisionOutcome \/ NoDecision
<1>1. ScoreType /\ CycleType
  BY TypeParts DEF IInv
<1>2. ASSUME detected' \in SUBSET Links PROVE DecisionContext
  BY <1>2, TypeParts DEF IInv, DecisionContext, RouteInv
<1>3. ASSUME detected' \in SUBSET Links, Decide PROVE DecisionOutcome
  BY <1>2, <1>3, DecideOutcome
<1>4. CASE StartCycle
  <2>1. detected' \in SUBSET Links
    BY <1>4 DEF StartCycle
  <2>2. [l \in {"wifi"} |-> Down] \in Outcomes /\ [l \in Links |-> Down] \in Outcomes
    <3>1. {"wifi"} \in SUBSET Links /\ Links \in SUBSET Links
      BY DEF Links
    <3> QED BY <3>1, OutcomeOn
  <2>3. ScoreType'
    <3>1. CASE UNCHANGED scoreVars
      BY <1>1, <3>1 DEF ScoreType, scoreVars
    <3> QED BY <1>1, <1>4, <2>2, <3>1, ObserveTypes DEF StartCycle
  <2>4. CycleType'
    BY <1>4, <2>1 DEF StartCycle, CycleType, Links
  <2> QED BY <1>3, <1>4, <2>1, <2>3, <2>4 DEF StartCycle
<1>5. CASE WifiProbed
  <2>1. detected' \in SUBSET Links
    BY <1>1, <1>5 DEF WifiProbed, CycleType
  <2>2. \A r \in RttScores \cup {Down} :
          /\ [l \in {"wifi"} |-> r] \in Outcomes
          /\ [l \in Links |-> IF l = "wifi" THEN r ELSE Down] \in Outcomes
    <3>1. {"wifi"} \in SUBSET Links /\ Links \in SUBSET Links
      BY DEF Links
    <3> QED BY <3>1, OutcomeOn
  <2>3. ScoreType'
    BY <1>1, <1>5, <2>2, ObserveTypes DEF WifiProbed
  <2>4. CycleType'
    BY <1>1, <1>5 DEF WifiProbed, CycleType, Links
  <2> QED BY <1>3, <1>5, <2>1, <2>3, <2>4 DEF WifiProbed
<1>6. CASE LteProbed
  <2>1. detected' \in SUBSET Links
    BY <1>1, <1>6 DEF LteProbed, CycleType
  <2>2. \A r \in RttScores \cup {Down} : [l \in {"lte"} |-> r] \in Outcomes
    <3>1. {"lte"} \in SUBSET Links
      BY DEF Links
    <3> QED BY <3>1, OutcomeOn
  <2>3. ScoreType'
    BY <1>1, <1>6, <2>2, ObserveTypes DEF LteProbed
  <2>4. CycleType'
    BY <1>1, <1>6 DEF LteProbed, CycleType, Links
  <2> QED BY <1>3, <1>6, <2>1, <2>3, <2>4 DEF LteProbed
<1> QED BY <1>4, <1>5, <1>6 DEF CheckCycle

LEMMA InvariantInit == Init => IInv
<1> SUFFICES ASSUME Init PROVE IInv
  OBVIOUS
<1>1. ServiceType
  <2>1. linkEvent \in BOOLEAN
    BY Zenon DEF Init
  <2>2. mode \in Modes /\ session \in 0..MaxSession /\ activeLink = None
    BY ModesAssumption, MaxSessionAssumption DEF Init
  <2> QED BY <2>1, <2>2 DEF ServiceType
<1>2. ScoreType
  BY ScoringAssumption DEF Init, ScoreType
<1>3. ChoiceType /\ RouteType /\ CycleType
  BY SwitchingAssumption DEF Init, ChoiceType, RouteType, CycleType
<1>4. KernelWithinRecord /\ NoLinkNoRoute /\ ReasonFitsMode
  BY DEF Init, KernelWithinRecord, NoLinkNoRoute, ReasonFitsMode
<1>5. reason \in Reasons
  BY DEF Init, Reasons
<1> QED BY <1>1, <1>2, <1>3, <1>4, <1>5, TypeParts DEF IInv

LEMMA EmptyHistory ==
    history' = [l \in Links |-> << >>] /\ score' = [l \in Links |-> 0]
    /\ reachable' \in [Links -> BOOLEAN] => ScoreType'
BY ScoringAssumption DEF ScoreType

(* A step that leaves the measurements, the cycle and so on alone keeps what
   is known of them; so each action is left with the part it changes. *)
LEMMA InvariantStep == IInv /\ [Next]_vars => IInv'
<1> SUFFICES ASSUME IInv, [Next]_vars PROVE IInv'
  OBVIOUS
<1> USE DEF serviceVars, scoreVars, routeVars, choiceVars
<1> DEFINE Routing == KernelWithinRecord /\ NoLinkNoRoute
<1>1. Parts
  BY TypeParts DEF IInv, Parts
<1>2. SUFFICES Parts'
  BY DEF Parts, IInv, TypeOK, ServiceType, Reasons, ScoreType, ChoiceType,
         RouteType, CycleType
<1> USE DEF Parts
<1>3. UNCHANGED serviceVars => ServiceType'
  BY <1>1 DEF ServiceType
<1>4. UNCHANGED scoreVars => ScoreType'
  BY <1>1 DEF ScoreType
<1>5. UNCHANGED choiceVars => ChoiceType'
  BY <1>1 DEF ChoiceType
<1>6. UNCHANGED <<routeVars, activeLink>> => RouteType' /\ Routing'
  BY <1>1 DEF RouteType, KernelWithinRecord, NoLinkNoRoute
<1>7. UNCHANGED <<detected, pc>> => CycleType'
  BY <1>1 DEF CycleType
<1>8. UNCHANGED <<reason, mode>> => reason' \in Reasons /\ ReasonFitsMode'
  BY <1>1 DEF ReasonFitsMode, ReasonsOf
<1>9. CASE CheckCycle
  <2>1. ScoreType' /\ CycleType' /\ (DecisionOutcome \/ NoDecision)
    BY <1>9, CycleOutcome
  <2>2. CASE NoDecision
    BY <1>3, <1>5, <1>6, <1>8, <2>1, <2>2 DEF NoDecision
  <2>3. CASE DecisionOutcome
    <3>1. ServiceType' /\ ReasonFitsMode'
      BY <1>1, <2>3 DEF DecisionOutcome, ServiceType, ReasonFitsMode, ReasonsOf,
                        Permitted, Links
    <3>2. reason' \in Reasons
      BY <1>1, <2>3, ModesAssumption
         DEF DecisionOutcome, ServiceType, ReasonsOf, Reasons, AllModes
    <3> QED BY <2>1, <2>3, <3>1, <3>2 DEF DecisionOutcome, RouteInv
  <2> QED BY <2>1, <2>2, <2>3
<1>10. ASSUME NEW m \in Modes, SetMode(m) PROVE Parts'
  <2>1. ServiceType' /\ ChoiceType'
    BY <1>1, <1>10, MaxSessionAssumption, SwitchingAssumption
       DEF SetMode, WakeSender, ServiceType, ChoiceType
  <2>2. reason' \in Reasons /\ ReasonFitsMode'
    BY <1>10 DEF SetMode, BaselineReason, Reasons, AllModes, ReasonFitsMode, ReasonsOf
  <2> QED BY <1>4, <1>6, <1>7, <1>10, <2>1, <2>2 DEF SetMode
<1>11. CASE SetRuntimeConfig
  <2>1. ScoreType'
    BY <1>1, <1>11, EmptyHistory DEF SetRuntimeConfig, ScoreType
  <2>2. ChoiceType'
    BY <1>1, <1>11, SwitchingAssumption DEF SetRuntimeConfig, ChoiceType
  <2> QED BY <1>3, <1>6, <1>7, <1>8, <1>11, <2>1, <2>2 DEF SetRuntimeConfig
<1>12. CASE Tick
  <2>1. ChoiceType'
    BY <1>1, <1>12, SwitchingAssumption DEF Tick, ChoiceType
  <2> QED BY <1>3, <1>4, <1>6, <1>7, <1>8, <1>12, <2>1 DEF Tick
<1>13. ASSUME NEW l \in Links, InterfaceLost(l) PROVE Parts'
  <2>1. RouteType' /\ Routing'
    BY <1>1, <1>13 DEF InterfaceLost, RouteType, KernelWithinRecord, NoLinkNoRoute
  <2> QED BY <1>3, <1>4, <1>5, <1>7, <1>8, <1>13, <2>1 DEF InterfaceLost
<1>14. CASE SenderWaits
  <2>1. ServiceType'
    BY <1>1, <1>14 DEF SenderWaits, ServiceType
  <2> QED BY <1>4, <1>5, <1>6, <1>7, <1>8, <1>14, <2>1 DEF SenderWaits
<1>15. CASE Restart
  <2>1. ServiceType'
    <3>1. linkEvent' \in BOOLEAN
      BY <1>15, Zenon DEF Restart
    <3>2. mode' \in Modes /\ session' \in 0..MaxSession /\ activeLink' = None
      BY <1>1, <1>15, ModesAssumption, MaxSessionAssumption DEF Restart, ServiceType
    <3> QED BY <3>1, <3>2 DEF ServiceType
  <2>4. reason' \in Reasons /\ ReasonFitsMode'
    BY <1>15 DEF Restart, Reasons, ReasonFitsMode
  <2>2. ScoreType' /\ ChoiceType' /\ CycleType'
    BY <1>15, EmptyHistory, SwitchingAssumption DEF Restart, ChoiceType, CycleType
  <2>3. RouteType' /\ Routing'
    BY <1>1, <1>15 DEF Restart, RouteType, KernelWithinRecord, NoLinkNoRoute
  <2> QED BY <2>1, <2>2, <2>3, <2>4
<1>16. CASE UNCHANGED vars
  BY <1>3, <1>4, <1>5, <1>6, <1>7, <1>8, <1>16 DEF vars
<1> QED BY <1>9, <1>10, <1>11, <1>12, <1>13, <1>14, <1>15, <1>16 DEF Next

-----------------------------------------------------------------------------
LEMMA Invariance == Spec => []IInv
<1>1. Init => IInv
  BY InvariantInit
<1>2. IInv /\ [Next]_vars => IInv'
  BY InvariantStep
<1> QED BY <1>1, <1>2, PTL DEF Spec

(* Every attribute of the link manager keeps its type, the probe histories
   their length and the streak and hold-time counters their range, for any
   window, scores, thresholds and commands. *)
THEOREM TypeCorrect == Spec => []TypeOK
<1>1. IInv => TypeOK
  BY DEF IInv
<1> QED BY <1>1, Invariance, PTL

(* No mode change, failed `ip route', lost interface or restart ever leaves a
   kernel route over a link that is missing from a non-empty record. *)
THEOREM RoutesWithinRecord == Spec => []KernelWithinRecord
<1>1. IInv => KernelWithinRecord
  BY DEF IInv
<1> QED BY <1>1, Invariance, PTL

(* An agent without an active link has no DTN route on record, in whichever
   mode the link was lost. *)
THEOREM NoLinkLeavesNoRoute == Spec => []NoLinkNoRoute
<1>1. IInv => NoLinkNoRoute
  BY DEF IInv
<1> QED BY <1>1, Invariance, PTL

(* The reason reported is always one of the mode reported with it, although
   set_mode may run in the middle of a check cycle. *)
THEOREM ReasonAlwaysFits == Spec => []ReasonFitsMode
<1>1. IInv => ReasonFitsMode
  BY DEF IInv
<1> QED BY <1>1, Invariance, PTL

-----------------------------------------------------------------------------
(* Refinement *)

LEMMA DecisionIsService ==
    ASSUME DecisionOutcome \/ NoDecision
    PROVE  [Service!Next]_Service!vars
<1>1. CASE NoDecision \/ (DecisionOutcome /\ activeLink' = activeLink)
  <2>1. UNCHANGED <<mode, session, activeLink, linkEvent>>
    BY <1>1 DEF NoDecision, DecisionOutcome, serviceVars
  <2> QED BY <2>1 DEF Service!vars
<1>2. CASE DecisionOutcome /\ activeLink' # activeLink
  <2>1. activeLink' \in Service!Allowed(mode) \cup {Service!None}
    BY <1>2 DEF DecisionOutcome, Permitted, Service!Allowed, Links, Service!Links,
                None, Service!None
  <2>2. Service!ChangeLink(activeLink')
    BY <1>2 DEF DecisionOutcome, Service!ChangeLink
  <2> QED BY <2>1, <2>2 DEF Service!Next
<1> QED BY <1>1, <1>2

(* Whatever the probes, scores and routes do, the rest of the agent sees an
   object that behaves as LinkService: in particular the link event is set by
   every change of mode or active link, and links only change to permitted
   ones. *)
THEOREM Implementation == Spec => ImplementsService
<1> USE DEF serviceVars
<1>1. Init => Service!Init
  BY DEF Init, Service!Init, None, Service!None
<1>2. IInv /\ [Next]_vars => [Service!Next]_Service!vars
  <2> SUFFICES ASSUME IInv, [Next]_vars PROVE [Service!Next]_Service!vars
    OBVIOUS
  <2>1. CASE CheckCycle
    BY <2>1, CycleOutcome, DecisionIsService
  <2>2. ASSUME NEW m \in Modes, SetMode(m) PROVE Service!Next
    <3>1. Service!ChangeMode(m)
      BY <2>2 DEF SetMode, WakeSender, Service!ChangeMode
    <3> QED BY <3>1 DEF Service!Next
  <2>3. CASE SenderWaits
    <3>1. Service!ClearEvent
      BY <2>3 DEF SenderWaits, Service!ClearEvent, Service!NoUsableLink, None,
                  Service!None
    <3> QED BY <3>1 DEF Service!Next
  <2>4. CASE Restart
    <3>1. Service!Restart
      BY <2>4 DEF Restart, Service!Restart, None, Service!None
    <3> QED BY <3>1 DEF Service!Next
  <2>5. CASE UNCHANGED vars
    BY <2>5 DEF vars, Service!vars
  <2>6. CASE SetRuntimeConfig \/ Tick \/ \E l \in Links : InterfaceLost(l)
    BY <2>6 DEF SetRuntimeConfig, Tick, InterfaceLost, Service!vars
  <2> QED BY <2>1, <2>2, <2>3, <2>4, <2>5, <2>6 DEF Next
<1> QED BY <1>1, <1>2, Invariance, PTL DEF Spec, ImplementsService, Service!Spec
-----------------------------------------------------------------------------
(* The decisions.  Adaptive mode calls the active link unhealthy when it is
   down or its last probes all failed.  The second says no more than the first:
   a link that is reachable has a successful probe as its latest, or none since
   the histories were emptied. *)

LastIsUp ==
    \A l \in Links :
        reachable[l] => history[l] = << >> \/ history[l][Len(history[l])]

LEMMA PushedLast ==
    ASSUME NEW h \in Seq(BOOLEAN), Len(h) <= Window
    PROVE  Pushed(h, TRUE)[Len(Pushed(h, TRUE))]
<1> DEFINE longer == Append(h, TRUE)
<1>1. /\ longer \in Seq(BOOLEAN) /\ Len(longer) = Len(h) + 1 /\ Len(h) \in Nat
      /\ longer # << >> /\ longer[Len(longer)]
  <2>1. longer \in Seq(BOOLEAN) /\ Len(longer) = Len(h) + 1 /\ Len(h) \in Nat
    OBVIOUS
  <2>2. longer # << >> /\ longer[Len(h) + 1] = TRUE
    <3>1. TRUE \in BOOLEAN
      BY Zenon
    <3> QED BY <3>1, AppendProperties, Zenon
  <2> QED BY <2>1, <2>2
<1>2. CASE Len(longer) > Window
  <2>1. /\ Len(Tail(longer)) = Len(longer) - 1
        /\ \A i \in 1..Len(Tail(longer)) : Tail(longer)[i] = longer[i + 1]
    <3> HIDE DEF longer
    <3> QED BY <1>1, HeadTailProperties, Zenon
  <2> HIDE DEF longer
  <2>2. /\ Len(Tail(longer)) \in 1..Len(Tail(longer))
        /\ Len(Tail(longer)) + 1 = Len(longer)
    BY <1>1, <1>2, <2>1, ScoringAssumption
  <2>3. Tail(longer)[Len(Tail(longer))]
    BY <1>1, <2>1, <2>2, Zenon
  <2> USE DEF longer
  <2> QED BY <1>2, <2>3 DEF Pushed
<1>3. CASE ~(Len(longer) > Window)
  BY <1>1, <1>3 DEF Pushed
<1> QED BY <1>2, <1>3

LEMMA ObserveLast ==
    ASSUME ScoreType, LastIsUp, NEW outcome \in Outcomes, Observe(outcome)
    PROVE  LastIsUp'
<1> SUFFICES ASSUME NEW l \in Links, reachable'[l]
             PROVE  history'[l] = << >> \/ history'[l][Len(history'[l])]
  BY DEF LastIsUp
<1>1. CASE l \in DOMAIN outcome
  <2>1. outcome[l] # Down
    BY <1>1 DEF Observe
  <2>2. history'[l] = Pushed(history[l], outcome[l] # Down)
    BY <1>1 DEF Observe
  <2>3. history'[l] = Pushed(history[l], TRUE)
    BY <2>1, <2>2, Zenon
  <2>4. history[l] \in Seq(BOOLEAN) /\ Len(history[l]) <= Window
    BY DEF ScoreType
  <2> QED BY <2>3, <2>4, PushedLast, Zenon
<1>2. CASE l \notin DOMAIN outcome
  BY <1>2 DEF Observe, LastIsUp
<1> QED BY <1>1, <1>2

LEMMA CycleObserves ==
    ASSUME CheckCycle
    PROVE  /\ UNCHANGED scoreVars \/ \E outcome \in Outcomes : Observe(outcome)
           /\ pc' = "sleep" => Decide
<1>1. {"wifi"} \in SUBSET Links /\ {"lte"} \in SUBSET Links /\ Links \in SUBSET Links
  BY DEF Links
<1>2. CASE StartCycle
  <2>1. [l \in {"wifi"} |-> Down] \in Outcomes /\ [l \in Links |-> Down] \in Outcomes
    BY <1>1, OutcomeOn
  <2> QED BY <1>2, <2>1 DEF StartCycle
<1>3. CASE WifiProbed
  <2>1. \A r \in RttScores \cup {Down} :
          /\ [l \in {"wifi"} |-> r] \in Outcomes
          /\ [l \in Links |-> IF l = "wifi" THEN r ELSE Down] \in Outcomes
    BY <1>1, OutcomeOn
  <2> QED BY <1>3, <2>1 DEF WifiProbed
<1>4. CASE LteProbed
  <2>1. \A r \in RttScores \cup {Down} : [l \in {"lte"} |-> r] \in Outcomes
    BY <1>1, OutcomeOn
  <2> QED BY <1>4, <2>1 DEF LteProbed
<1> QED BY <1>2, <1>3, <1>4 DEF CheckCycle

LEMMA LastIsUpStep ==
    ASSUME IInv, LastIsUp, [Next]_vars
    PROVE  LastIsUp'
<1> USE DEF scoreVars
<1>1. ScoreType
  BY TypeParts DEF IInv
<1>2. UNCHANGED scoreVars => LastIsUp'
  BY DEF LastIsUp
<1>3. CASE CheckCycle
  BY <1>1, <1>2, <1>3, CycleObserves, ObserveLast
<1>4. CASE SetRuntimeConfig
  BY <1>4 DEF SetRuntimeConfig, LastIsUp
<1>5. CASE Restart
  BY <1>5 DEF Restart, LastIsUp
<1>6. CASE \/ \E m \in Modes : SetMode(m)
           \/ Tick \/ SenderWaits
           \/ \E l \in Links : InterfaceLost(l)
           \/ UNCHANGED vars
  BY <1>2, <1>6 DEF SetMode, Tick, SenderWaits, InterfaceLost, vars
<1> QED BY <1>3, <1>4, <1>5, <1>6 DEF Next

DecisionInv == IInv /\ LastIsUp

LEMMA DecisionInvariance == Spec => []DecisionInv
<1>1. Init => LastIsUp
  BY DEF Init, LastIsUp
<1>2. IInv /\ LastIsUp /\ [Next]_vars => LastIsUp'
  BY LastIsUpStep
<1> QED BY <1>1, <1>2, Invariance, PTL DEF Spec, DecisionInv

LEMMA UnhealthyIsDown ==
    ASSUME ScoreType', LastIsUp', NEW l \in Links
    PROVE  Unhealthy(l) <=> l \notin Up
<1> SUFFICES ASSUME l \in Up, RecentFailures(history'[l]) PROVE FALSE
  BY DEF Unhealthy
<1> DEFINE h == history'[l]
<1>1. h \in Seq(BOOLEAN) /\ Len(h) \in Nat
  BY DEF ScoreType
<1>2. Len(h) >= FailoverFailures /\ FailoverFailures \in Nat \ {0}
  BY SwitchingAssumption DEF RecentFailures
<1>3. Len(h) \in (Len(h) - FailoverFailures + 1)..Len(h)
  BY <1>1, <1>2
<1>4. ~h[Len(h)]
  BY <1>3 DEF RecentFailures
<1>5. h # << >>
  BY <1>1, <1>2
<1>6. reachable'[l]
  BY DEF Up
<1> QED BY <1>4, <1>5, <1>6 DEF LastIsUp

LEMMA ApplySets ==
    ASSUME NEW link, NEW why, Apply(link, why)
    PROVE  activeLink' = link
BY DEF Apply

Chosen ==
    LET answered == {l \in Permitted(mode) : reachable'[l]}
    IN  IF answered = {} THEN activeLink' = None ELSE activeLink' \in answered

Moved ==
    (\A l \in Links : reachable'[l]) /\ activeLink # None /\ activeLink' # activeLink
        => /\ score'[activeLink'] >= score'[activeLink] + Hysteresis
           /\ sinceSwitch >= HoldTime

LEMMA AdaptiveChooses ==
    ASSUME ServiceType, ScoreType', LastIsUp', mode = "adaptive", Adaptive
    PROVE  /\ IF Up = {} THEN activeLink' = None ELSE activeLink' \in Up
           /\ Moved
<1>1. activeLink \in Links \cup {None}
  BY DEF ServiceType
<1>2. Best \in Links /\ Up \subseteq Links /\ Links = {"wifi", "lte"} /\ None \notin Links
  BY DEF Best, Links, Up, None
<1>3. (\A l \in Links : reachable'[l]) => Up = Links
  BY DEF Up
<1>4. CASE BothDown
  <2>1. Up = {} /\ activeLink' = None
    BY <1>4, ApplySets DEF BothDown
  <2> QED BY <1>2, <1>3, <2>1 DEF Moved
<1>5. CASE CurrentUnhealthy
  <2>1. activeLink \in Links /\ activeLink \notin Up /\ Up # {}
    BY <1>1, <1>5, UnhealthyIsDown DEF CurrentUnhealthy
  <2>2. Other(activeLink) \in Up
    BY <1>2, <2>1 DEF Other
  <2>3. activeLink' = Other(activeLink)
    BY <1>5, <2>2, ApplySets DEF CurrentUnhealthy
  <2> QED BY <1>3, <2>1, <2>2, <2>3 DEF Moved
<1>6. CASE OtherDown
  <2>1. PICK l \in Links : Up = {l} /\ activeLink' = l
    BY <1>6, ApplySets DEF OtherDown
  <2> QED BY <1>2, <1>3, <2>1 DEF Moved
<1>7. CASE FirstChoice
  <2>1. Up = Links /\ activeLink = None /\ activeLink' = Best
    BY <1>7, ApplySets DEF FirstChoice
  <2> QED BY <1>2, <2>1 DEF Moved
<1>8. CASE Challenge
  <2>1. Up = Links /\ activeLink \in Links
    BY <1>1, <1>8 DEF Challenge
  <2>2. CASE activeLink' = activeLink
    BY <1>2, <2>1, <2>2 DEF Moved
  <2>3. CASE Leads /\ sinceSwitch >= HoldTime /\ Apply(Best, "adaptive_score")
    <3>1. activeLink' = Best
      BY <2>3, ApplySets
    <3> QED BY <1>2, <2>1, <2>3, <3>1 DEF Moved, Leads
  <2> QED BY <1>8, <2>2, <2>3 DEF Challenge, Stay, serviceVars
<1> QED BY <1>4, <1>5, <1>6, <1>7, <1>8 DEF Adaptive

LEMMA DecisionChooses ==
    ASSUME DecisionInv, DecisionInv', Decided
    PROVE  Chosen /\ (mode = "adaptive" => Moved)
<1>1. Decide /\ ServiceType /\ ScoreType'
  BY CycleObserves, TypeParts DEF Decided, DecisionInv, IInv, TypeOK, ScoreType
<1>2. Links = {"wifi", "lte"} /\ Up \subseteq Links
  BY DEF Links, Up
<1>3. CASE mode = "single_link_wifi" /\ SingleLink("wifi")
  <2>1. activeLink' = IF "wifi" \in Up THEN "wifi" ELSE None
    BY <1>3, ApplySets DEF SingleLink
  <2> QED BY <1>2, <1>3, <2>1 DEF Chosen, Permitted, Up
<1>4. CASE mode = "single_link_lte" /\ SingleLink("lte")
  <2>1. activeLink' = IF "lte" \in Up THEN "lte" ELSE None
    BY <1>4, ApplySets DEF SingleLink
  <2> QED BY <1>2, <1>4, <2>1 DEF Chosen, Permitted, Up
<1>5. CASE mode = "adaptive" /\ Adaptive
  <2>1. (IF Up = {} THEN activeLink' = None ELSE activeLink' \in Up) /\ Moved
    BY <1>1, <1>5, AdaptiveChooses DEF DecisionInv
  <2>2. {l \in Permitted(mode) : reachable'[l]} = Up
    BY <1>5 DEF Permitted, Up
  <2> QED BY <2>1, <2>2 DEF Chosen
<1>6. CASE mode = "redundant" /\ Redundant
  <2>1. {l \in Permitted(mode) : reachable'[l]} = Up
    BY <1>6 DEF Permitted, Up
  <2>2. Up # {} => (CHOOSE l \in Up : TRUE) \in Up
    BY Zenon
  <2>3. IF Up = {} THEN activeLink' = None ELSE activeLink' \in Up
    BY <1>2, <1>6, <2>2 DEF Redundant, Best
  <2> QED BY <1>6, <2>1, <2>3 DEF Chosen
<1> QED BY <1>1, <1>3, <1>4, <1>5, <1>6 DEF Decide

(* A decision leaves the agent without a link exactly when no permitted link
   answered, and otherwise on a permitted one that did: for any history of
   probes, failover threshold and commands, also those that fall between the
   two probes of a cycle. *)
THEOREM AlwaysChoosesAnswering == Spec => LinkChosenWhenAnyUp
<1>1. DecisionInv /\ DecisionInv' /\ [Next]_vars => [Decided => Chosen]_vars
  BY DecisionChooses
<1>2. LinkChosenWhenAnyUp <=> [][Decided => Chosen]_vars
  BY Zenon DEF LinkChosenWhenAnyUp, Chosen
<1> QED BY <1>1, <1>2, DecisionInvariance, PTL DEF Spec

(* Between two working links adaptive mode moves only for a lead of the
   hysteresis and after the hold time: a run of failed probes cannot make it
   leave a link that answered the last one. *)
THEOREM NeverFlaps == Spec => NoFlapping
<1>1. DecisionInv /\ DecisionInv' /\ [Next]_vars
          => [Decided => (mode = "adaptive" => Moved)]_vars
  BY DecisionChooses
<1>2. [Decided => (mode = "adaptive" => Moved)]_vars
          => [Decided /\ mode = "adaptive" /\ (\A l \in Links : reachable'[l])
                /\ activeLink # None /\ activeLink' # activeLink
              => /\ score'[activeLink'] >= score'[activeLink] + Hysteresis
                 /\ sinceSwitch >= HoldTime]_vars
  BY DEF Moved
<1> QED BY <1>1, <1>2, DecisionInvariance, PTL DEF Spec, NoFlapping
=============================================================================
