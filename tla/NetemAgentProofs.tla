-------------------------- MODULE NetemAgentProofs --------------------------
(***************************************************************************)
(* Proofs about NetemAgent, for any interface names, any configuration and *)
(* any set of settings.                                                    *)
(*                                                                         *)
(* TypeOK, EthernetUntouched and CommandHeals are inductive together.  A   *)
(* command heals because apply deletes the root before it adds one: what   *)
(* is left in the kernel then depends on the settings alone, which lemma   *)
(* ApplyOverwrites states.                                                 *)
(***************************************************************************)
EXTENDS NetemAgent, WellFoundedInduction, TLAPS

LEMMA SmallestIndex ==
    ASSUME NEW S, S \subseteq Nat, S # {}
    PROVE  \E i \in S : \A j \in S : i <= j
<1> DEFINE R == {p \in Nat \X Nat : p[1] < p[2]}
<1>1. R = OpToRel(<, Nat)
  BY Zenon DEF OpToRel
<1>2. IsWellFoundedOn(R, Nat)
  BY <1>1, NatLessThanWellFounded, Zenon
<1>3. \E i \in S : \A j \in S : <<j, i>> \notin R
  <2> HIDE DEF R
  <2> QED BY <1>2, WFMin, Zenon
<1>4. \A i, j \in Nat : <<j, i>> \notin R => i <= j
  <2> SUFFICES ASSUME NEW i \in Nat, NEW j \in Nat, ~(j < i) PROVE i <= j
    BY SMT
  <2> QED BY SMT
<1> HIDE DEF R
<1> QED BY <1>3, <1>4

(* _find_wifi and _find_lte return a name of their list that is present, or *)
(* none.                                                                    *)
LEMMA FirstFound ==
    ASSUME NEW names \in Seq(Names), NEW there
    PROVE  First(names, there) \in Names \cup {None}
<1> DEFINE hits == {i \in DOMAIN names : names[i] \in there}
           i0 == CHOOSE i \in hits : \A j \in hits : i <= j
<1>1. CASE hits = {}
  BY <1>1 DEF First
<1>2. CASE hits # {}
  <2>1. hits \subseteq Nat
    OBVIOUS
  <2>2. \E i \in hits : \A j \in hits : i <= j
    <3> HIDE DEF hits
    <3> QED BY <2>1, <1>2, SmallestIndex
  <2>3. i0 \in hits
    <3> HIDE DEF hits
    <3> QED BY <2>2
  <2>4. names[i0] \in Names
    BY <2>3
  <2>5. First(names, there) = names[i0]
    BY <1>2 DEF First
  <2> QED BY <2>4, <2>5
<1> QED BY <1>1, <1>2

LEMMA DetectedType ==
    ASSUME config \in [Roles -> Names \cup {"auto"}], NEW there
    PROVE  Detected(there) \in [Roles -> Names \cup {None}]
<1>1. First(WifiNames, there) \in Names \cup {None}
  BY FirstFound, NamesAssumption
<1>2. First(LteNames, there) \in Names \cup {None}
  BY FirstFound, NamesAssumption
<1>3. ASSUME NEW r \in Roles
      PROVE  (IF config[r] # "auto" THEN config[r]
              ELSE First(IF r = "wifi" THEN WifiNames ELSE LteNames, there))
                 \in Names \cup {None}
  <2>1. CASE config[r] # "auto"
    BY <2>1
  <2>2. CASE config[r] = "auto" /\ r = "wifi"
    BY <2>2, <1>1
  <2>3. CASE config[r] = "auto" /\ r # "wifi"
    BY <2>3, <1>2
  <2> QED BY <2>1, <2>2, <2>3
<1> QED BY <1>3 DEF Detected

-----------------------------------------------------------------------------
(* The tc calls. *)

Qdiscs == [root : {"default", "outage", "tbf", "netem"}, param : Nat, child : Nat]

LEMMA SettingType ==
    ASSUME NEW s \in Settings
    PROVE  /\ s.outage \in BOOLEAN /\ s.rate \in Nat /\ s.netem \in Nat
           /\ \/ s.outage
              \/ ~s.outage /\ s.rate > 0
              \/ ~s.outage /\ s.rate = 0 /\ s.netem > 0
              \/ ~s.outage /\ s.rate = 0 /\ s.netem = 0
<1>1. s \in [outage : BOOLEAN, rate : Nat, netem : Nat]
  BY SettingsAssumption
<1>2. s.outage \in BOOLEAN
  BY <1>1, Zenon
<1>3. s.rate \in Nat /\ s.netem \in Nat
  BY <1>1
<1> QED BY <1>2, <1>3

LEMMA CallTypes ==
    ASSUME NEW k \in Qdiscs, NEW ok
    PROVE  /\ DelRoot(k, ok) \in Qdiscs
           /\ \A root \in {"outage", "tbf", "netem"}, param \in Nat :
                  AddRoot(k, root, param, ok) \in Qdiscs
           /\ \A args \in Nat : AddChild(k, args, ok) \in Qdiscs
<1>1. Default \in Qdiscs
  BY DEF Default, Qdiscs
<1>2. DelRoot(k, ok) \in Qdiscs
  BY <1>1 DEF DelRoot
<1>3. ASSUME NEW root \in {"outage", "tbf", "netem"}, NEW param \in Nat
      PROVE  AddRoot(k, root, param, ok) \in Qdiscs
  <2>1. [root |-> root, param |-> param, child |-> 0] \in Qdiscs
    BY DEF Qdiscs
  <2> QED BY <2>1 DEF AddRoot
<1>4. ASSUME NEW args \in Nat PROVE AddChild(k, args, ok) \in Qdiscs
  <2>1. [k EXCEPT !.child = 1 + args] \in Qdiscs
    BY DEF Qdiscs
  <2> QED BY <2>1 DEF AddChild
<1> QED BY <1>2, <1>3, <1>4

LEMMA ShapedType ==
    ASSUME NEW k \in Qdiscs, NEW s \in Settings, NEW ok
    PROVE  Shaped(k, s, ok) \in Qdiscs
<1> DEFINE bare == DelRoot(k, ok[1])
<1>1. bare \in Qdiscs
  BY CallTypes
<1> HIDE DEF bare
<1>2. CASE s.outage
  <2>1. Shaped(k, s, ok) = AddRoot(bare, "outage", 0, ok[2])
    BY <1>2 DEF Shaped, bare
  <2> QED BY <2>1, <1>1, CallTypes
<1>3. CASE ~s.outage /\ s.rate > 0
  <2>1. Shaped(k, s, ok) = AddChild(AddRoot(bare, "tbf", s.rate, ok[2]), s.netem, ok[3])
    BY <1>3 DEF Shaped, bare
  <2>2. AddRoot(bare, "tbf", s.rate, ok[2]) \in Qdiscs
    BY <1>1, CallTypes, SettingType
  <2> QED BY <2>1, <2>2, CallTypes, SettingType
<1>4. CASE ~s.outage /\ s.rate = 0 /\ s.netem > 0
  <2>1. Shaped(k, s, ok) = AddRoot(bare, "netem", s.netem, ok[2])
    BY <1>4 DEF Shaped, bare
  <2> QED BY <2>1, <1>1, CallTypes, SettingType
<1>5. CASE ~s.outage /\ s.rate = 0 /\ s.netem = 0
  <2>1. Shaped(k, s, ok) = bare
    BY <1>5 DEF Shaped, bare
  <2> QED BY <2>1, <1>1
<1> QED BY <1>2, <1>3, <1>4, <1>5, SettingType

(* A command that went through leaves the tree its settings ask for,       *)
(* whatever tree it found.                                                 *)
LEMMA ApplyOverwrites ==
    ASSUME NEW k, NEW s \in Settings
    PROVE  Shaped(k, s, AllWell) = Tree(s)
<1>1. AllWell[1] /\ AllWell[2] /\ AllWell[3]
  BY DEF AllWell
<1>2. DelRoot(k, AllWell[1]) = Default
  BY <1>1 DEF DelRoot
<1>3. ASSUME NEW root, NEW param
      PROVE  AddRoot(Default, root, param, AllWell[2])
                 = [root |-> root, param |-> param, child |-> 0]
  BY <1>1 DEF AddRoot
<1>4. CASE s.outage
  BY <1>4, <1>2, <1>3 DEF Shaped, Tree
<1>5. CASE ~s.outage /\ s.rate > 0
  <2> DEFINE bare == [root |-> "tbf", param |-> s.rate, child |-> 0]
  <2>1. Shaped(k, s, AllWell) = AddChild(bare, s.netem, AllWell[3])
    BY <1>5, <1>2, <1>3 DEF Shaped
  <2>2. AddChild(bare, s.netem, AllWell[3])
            = [root |-> "tbf", param |-> s.rate, child |-> 1 + s.netem]
    BY <1>1 DEF AddChild
  <2>3. Tree(s) = [root |-> "tbf", param |-> s.rate, child |-> 1 + s.netem]
    BY <1>5 DEF Tree
  <2> QED BY <2>1, <2>2, <2>3
<1>6. CASE ~s.outage /\ s.rate = 0 /\ s.netem > 0
  BY <1>6, <1>2, <1>3 DEF Shaped, Tree
<1>7. CASE ~s.outage /\ s.rate = 0 /\ s.netem = 0
  BY <1>7, <1>2 DEF Shaped, Tree
<1> QED BY <1>4, <1>5, <1>6, <1>7, SettingType

LEMMA TargetsAreNames ==
    ASSUME iface \in [Roles -> Names \cup {None}], NEW roles \in SUBSET Roles
    PROVE  Targets(roles) \subseteq Names \ Ethernet
BY DEF Targets

-----------------------------------------------------------------------------
IInv == TypeOK /\ EthernetUntouched /\ CommandHeals

LEMMA InvariantInit == Init => IInv
<1> SUFFICES ASSUME Init PROVE IInv
  OBVIOUS
<1>1. config \in [Roles -> Names \cup {"auto"}]
  <2>1. config \in [Roles -> WifiConfigs \cup LteConfigs]
    BY Zenon DEF Init
  <2> QED BY <2>1, NamesAssumption
<1>2. iface \in [Roles -> Names \cup {None}]
  BY <1>1, DetectedType DEF Init
<1>3. present \subseteq Names
  BY DEF Init, Names
<1>4. \A n \in Names : kernel[n] = Default
  BY DEF Init
<1>5. kernel \in [Names -> Qdiscs]
  BY DEF Init, Qdiscs, Default
<1>6. DOMAIN active = {} /\ sure = Names
  BY DEF Init
<1>7. EthernetUntouched
  BY <1>4, <1>6 DEF EthernetUntouched, Names
<1>8. CommandHeals
  BY <1>4, <1>6 DEF CommandHeals
<1> QED BY <1>1, <1>2, <1>3, <1>5, <1>6, <1>7, <1>8 DEF IInv, TypeOK, Qdiscs

LEMMA SetEmulationInvariant ==
    ASSUME IInv, NEW roles \in SUBSET Roles, NEW s \in Settings,
           NEW ok \in [Targets(roles) -> Outcomes], SetEmulation(roles, s, ok)
    PROVE  IInv'
<1> DEFINE T == Targets(roles)
<1>1. T \subseteq Names \ Ethernet
  BY TargetsAreNames DEF IInv, TypeOK
<1>2. /\ DOMAIN active' = T \cup DOMAIN active
      /\ \A n \in T : active'[n] = s
      /\ \A n \in DOMAIN active \ T : active'[n] = active[n]
  BY DEF SetEmulation
<1>3. /\ kernel' \in [Names -> Qdiscs]
      /\ \A n \in T : kernel'[n] = Shaped(kernel[n], s, ok[n])
      /\ \A n \in Names \ T : kernel'[n] = kernel[n]
  <2>1. \A n \in Names : kernel[n] \in Qdiscs
    BY DEF IInv, TypeOK, Qdiscs
  <2>2. kernel' = [n \in Names |-> IF n \in T THEN Shaped(kernel[n], s, ok[n])
                                   ELSE kernel[n]]
    BY DEF SetEmulation
  <2>3. \A n \in Names : Shaped(kernel[n], s, ok[n]) \in Qdiscs
    BY <2>1, ShapedType
  <2> HIDE DEF T
  <2> QED BY <1>1, <2>1, <2>2, <2>3
<1>4. /\ sure' = (sure \ T) \cup {n \in T : ok[n] = AllWell}
      /\ UNCHANGED <<config, present, iface>>
  BY DEF SetEmulation, Confirmed
<1> HIDE DEF T
<1>5. TypeOK'
  BY <1>1, <1>2, <1>3, <1>4 DEF IInv, TypeOK, Qdiscs
<1>6. EthernetUntouched'
  BY <1>1, <1>2, <1>3 DEF IInv, EthernetUntouched, Names
<1>7. ASSUME NEW n \in sure'
      PROVE  kernel'[n] = IF n \in DOMAIN active' THEN Tree(active'[n]) ELSE Default
  <2>1. CASE n \in T
    <3>1. ok[n] = AllWell
      BY <2>1, <1>7, <1>4
    <3> QED BY <3>1, <2>1, <1>2, <1>3, ApplyOverwrites
  <2>2. CASE n \notin T
    <3>1. n \in sure /\ n \in Names
      BY <2>2, <1>7, <1>4 DEF IInv, TypeOK
    <3> QED BY <3>1, <2>2, <1>2, <1>3 DEF IInv, CommandHeals
  <2> QED BY <2>1, <2>2
<1> QED BY <1>5, <1>6, <1>7 DEF IInv, CommandHeals

LEMMA RevertEmulationInvariant ==
    ASSUME IInv, NEW roles \in SUBSET Roles,
           NEW ok \in [Targets(roles) -> Outcomes], RevertEmulation(roles, ok)
    PROVE  IInv'
<1> DEFINE T == Targets(roles)
<1>1. T \subseteq Names \ Ethernet
  BY TargetsAreNames DEF IInv, TypeOK
<1>2. /\ DOMAIN active' = DOMAIN active \ T
      /\ \A n \in DOMAIN active \ T : active'[n] = active[n]
  BY DEF RevertEmulation
<1>3. /\ kernel' \in [Names -> Qdiscs]
      /\ \A n \in T : kernel'[n] = DelRoot(kernel[n], ok[n][1])
      /\ \A n \in Names \ T : kernel'[n] = kernel[n]
  <2>1. \A n \in Names : kernel[n] \in Qdiscs
    BY DEF IInv, TypeOK, Qdiscs
  <2>2. kernel' = [n \in Names |-> IF n \in T THEN DelRoot(kernel[n], ok[n][1])
                                   ELSE kernel[n]]
    BY DEF RevertEmulation
  <2>3. \A n \in Names : DelRoot(kernel[n], ok[n][1]) \in Qdiscs
    BY <2>1, CallTypes
  <2> HIDE DEF T
  <2> QED BY <1>1, <2>1, <2>2, <2>3
<1>4. /\ sure' = (sure \ T) \cup {n \in T : ok[n] = AllWell}
      /\ UNCHANGED <<config, present, iface>>
  BY DEF RevertEmulation, Confirmed
<1> HIDE DEF T
<1>5. TypeOK'
  BY <1>1, <1>2, <1>3, <1>4 DEF IInv, TypeOK, Qdiscs
<1>6. EthernetUntouched'
  BY <1>1, <1>2, <1>3 DEF IInv, EthernetUntouched, Names
<1>7. ASSUME NEW n \in sure'
      PROVE  kernel'[n] = IF n \in DOMAIN active' THEN Tree(active'[n]) ELSE Default
  <2>1. CASE n \in T
    <3>1. ok[n] = AllWell
      BY <2>1, <1>7, <1>4
    <3>2. ok[n][1]
      BY <3>1 DEF AllWell
    <3> QED BY <3>2, <2>1, <1>2, <1>3 DEF DelRoot
  <2>2. CASE n \notin T
    <3>1. n \in sure /\ n \in Names
      BY <2>2, <1>7, <1>4 DEF IInv, TypeOK
    <3> QED BY <3>1, <2>2, <1>2, <1>3 DEF IInv, CommandHeals
  <2> QED BY <2>1, <2>2
<1> QED BY <1>5, <1>6, <1>7 DEF IInv, CommandHeals

LEMMA InvariantStep ==
    ASSUME IInv, [Next]_vars
    PROVE  IInv'
<1>0. \A roles \in {{"wifi"}, {"lte"}, Roles} : roles \in SUBSET Roles
  BY DEF Roles
<1>1. ASSUME NEW roles \in {{"wifi"}, {"lte"}, Roles},
             NEW ok \in [Targets(roles) -> Outcomes],
             \/ \E s \in Settings : SetEmulation(roles, s, ok)
             \/ RevertEmulation(roles, ok)
      PROVE  IInv'
  BY <1>0, <1>1, SetEmulationInvariant, RevertEmulationInvariant
<1>2. CASE Redetect
  <2>1. iface' \in [Roles -> Names \cup {None}]
    BY <1>2, DetectedType DEF Redetect, IInv, TypeOK
  <2>2. UNCHANGED <<config, present, active, kernel, sure>>
    BY <1>2 DEF Redetect
  <2> QED BY <2>1, <2>2 DEF IInv, TypeOK, EthernetUntouched, CommandHeals
<1>3. CASE Restart
  <2>1. iface' \in [Roles -> Names \cup {None}]
    BY <1>3, DetectedType DEF Restart, IInv, TypeOK
  <2>2. /\ DOMAIN active' = {} /\ sure' = {n \in sure : kernel[n] = Default}
        /\ UNCHANGED <<config, present, kernel>>
    BY <1>3 DEF Restart
  <2> QED BY <2>1, <2>2 DEF IInv, TypeOK, EthernetUntouched, CommandHeals
<1>4. ASSUME NEW n \in Names \ Ethernet, Unplug(n) PROVE IInv'
  <2>1. /\ present' \subseteq Names /\ sure' \subseteq Names
        /\ UNCHANGED <<config, iface, active>>
    BY <1>4 DEF Unplug, IInv, TypeOK
  <2>2. /\ kernel' \in [Names -> Qdiscs]
        /\ \A m \in Names \ {n} : kernel'[m] = kernel[m]
    <3>1. Default \in Qdiscs
      BY DEF Default, Qdiscs
    <3>2. kernel \in [Names -> Qdiscs]
      BY DEF IInv, TypeOK, Qdiscs
    <3>3. kernel' = [kernel EXCEPT ![n] = Default]
      BY <1>4 DEF Unplug
    <3> QED BY <3>1, <3>2, <3>3
  <2>3. n \notin sure'
    BY <1>4 DEF Unplug
  <2>4. TypeOK'
    BY <2>1, <2>2 DEF IInv, TypeOK, Qdiscs
  <2>5. EthernetUntouched'
    BY <2>1, <2>2 DEF IInv, EthernetUntouched, Names
  <2>6. CommandHeals'
    <3>1. sure' \subseteq sure /\ sure \subseteq Names
      BY <1>4 DEF Unplug, IInv, TypeOK
    <3> QED BY <3>1, <2>1, <2>2, <2>3 DEF IInv, CommandHeals
  <2> QED BY <2>4, <2>5, <2>6 DEF IInv
<1>5. ASSUME NEW n \in Names \ Ethernet, Plug(n) PROVE IInv'
  BY <1>5 DEF Plug, IInv, TypeOK, EthernetUntouched, CommandHeals
<1>6. CASE UNCHANGED vars
  BY <1>6 DEF vars, IInv, TypeOK, EthernetUntouched, CommandHeals
<1> QED BY <1>1, <1>2, <1>3, <1>4, <1>5, <1>6 DEF Next

LEMMA Invariance == Spec => []IInv
<1>1. IInv /\ [Next]_vars => IInv'
  BY InvariantStep
<1> QED BY <1>1, InvariantInit, PTL DEF Spec

(* The record, the qdiscs and the interface names keep their types; in     *)
(* particular no setting is recorded for an interface that was not found.  *)
THEOREM TypeCorrect == Spec => []TypeOK
<1>1. IInv => TypeOK
  BY DEF IInv
<1> QED BY <1>1, Invariance, PTL

(* "Never Ethernet": no interface with a protected prefix is ever shaped,  *)
(* with any configuration of WIFI_INTERFACE and LTE_INTERFACE.             *)
THEOREM EthernetNeverShaped == Spec => []EthernetUntouched
<1>1. IInv => EthernetUntouched
  BY DEF IInv
<1> QED BY <1>1, Invariance, PTL

(* A command whose tc calls went through leaves kernel and record in       *)
(* agreement, after any history of failed calls, restarts and unpluggings. *)
THEOREM CommandsHeal == Spec => []CommandHeals
<1>1. IInv => CommandHeals
  BY DEF IInv
<1> QED BY <1>1, Invariance, PTL
=============================================================================
