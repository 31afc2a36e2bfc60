----------------------------- MODULE NetemAgent -----------------------------
(***************************************************************************)
(* Network emulation: the set_emulation and revert_emulation commands of   *)
(* pi-agent/main.py, the tc calls of pi-agent/netem_agent, and the         *)
(* interface names they act on, which the link manager detects.            *)
(*                                                                         *)
(* Three things can disagree: the settings on record (what the dashboard   *)
(* shows), the qdiscs in the kernel (what the packets meet), and which     *)
(* interface is the WiFi or the LTE one at the moment.  tc may fail at any *)
(* call, and its result is not looked at; the agent may restart, with the  *)
(* record lost and the kernel as it was; interfaces come and go.           *)
(*                                                                         *)
(* A command handler runs to completion on the event loop: one action.     *)
(***************************************************************************)
EXTENDS Naturals, Sequences

CONSTANTS
    WifiNames,     \* names _find_wifi accepts, as a sequence by preference
    LteNames,      \* names _find_lte accepts, as a sequence by preference
    Ethernet,      \* the names with a protected prefix
    WifiConfigs,   \* values WIFI_INTERFACE may have: "auto" or a name
    LteConfigs,    \* values LTE_INTERFACE may have
    Settings       \* the settings in use: [outage : BOOLEAN, rate : Nat, netem : Nat]

Names == {WifiNames[i] : i \in DOMAIN WifiNames}
             \cup {LteNames[i] : i \in DOMAIN LteNames} \cup Ethernet
Roles == {"wifi", "lte"}
None  == "none"

ASSUME SettingsAssumption ==
    Settings \subseteq [outage : BOOLEAN, rate : Nat, netem : Nat]
ASSUME NamesAssumption ==
    /\ WifiNames \in Seq(Names) /\ LteNames \in Seq(Names)
    /\ None \notin Names
    /\ WifiConfigs \cup LteConfigs \subseteq Names \cup {"auto"}

(* A qdisc tree: the kind of the root, and the parameters of its parts. *)
Default == [root |-> "default", param |-> 0, child |-> 0]

(* The tree that a set of settings asks for; netem = 0 stands for no netem *)
(* arguments, and a child with none is still a child.                      *)
Tree(s) ==
    CASE s.outage                -> [root |-> "outage", param |-> 0, child |-> 0]
      [] ~s.outage /\ s.rate > 0 -> [root |-> "tbf", param |-> s.rate, child |-> 1 + s.netem]
      [] ~s.outage /\ s.rate = 0 /\ s.netem > 0
                                 -> [root |-> "netem", param |-> s.netem, child |-> 0]
      [] OTHER                   -> Default

VARIABLES
    config,   \* WIFI_INTERFACE and LTE_INTERFACE of this installation
    present,  \* the interfaces the kernel has
    iface,    \* _wifi_iface and _lte_iface
    active,   \* _active: the settings on record, for the interfaces that have any
    kernel,   \* the qdisc tree of each interface
    sure      \* interfaces undisturbed since a command went through (auxiliary)

vars == <<config, present, iface, active, kernel, sure>>

(* The first name of a sequence that is present. *)
First(names, there) ==
    LET hits == {i \in DOMAIN names : names[i] \in there}
    IN  IF hits = {} THEN None
        ELSE names[CHOOSE i \in hits : \A j \in hits : i <= j]

(* _detect_interfaces: a configured name is taken whether present or not. *)
Detected(there) ==
    [r \in Roles |-> IF config[r] # "auto" THEN config[r]
                     ELSE First(IF r = "wifi" THEN WifiNames ELSE LteNames, there)]

Init ==
    /\ config \in {c \in [Roles -> WifiConfigs \cup LteConfigs] :
                       c["wifi"] \in WifiConfigs /\ c["lte"] \in LteConfigs}
    /\ present \in {Ethernet \cup some : some \in SUBSET (Names \ Ethernet)}
    /\ iface = Detected(present)
    /\ active = [n \in {} |-> None]
    /\ kernel = [n \in Names |-> Default]
    /\ sure = Names

-----------------------------------------------------------------------------
(* Mutant: the old qdisc is left for `tc qdisc add' to complain about. *)
DelRootNever(k, ok) == k

(* `tc qdisc del dev IFACE root', with the outcome ok *)
DelRoot(k, ok) == IF ok THEN Default ELSE k

(* `tc qdisc add dev IFACE root ...' fails when there is a root already. *)
AddRoot(k, root, param, ok) ==
    IF ok /\ k = Default THEN [root |-> root, param |-> param, child |-> 0] ELSE k

(* `tc qdisc add dev IFACE parent 1:1 ... netem' needs a root of ours. *)
AddChild(k, args, ok) ==
    IF ok /\ k.root # "default" /\ k.child = 0 THEN [k EXCEPT !.child = 1 + args] ELSE k

(* The tc calls of apply, in their order, with their outcomes. *)
Shaped(k, s, ok) ==
    LET bare == DelRoot(k, ok[1])
    IN  CASE s.outage -> AddRoot(bare, "outage", 0, ok[2])
          [] ~s.outage /\ s.rate > 0 ->
                AddChild(AddRoot(bare, "tbf", s.rate, ok[2]), s.netem, ok[3])
          [] ~s.outage /\ s.rate = 0 /\ s.netem > 0 -> AddRoot(bare, "netem", s.netem, ok[2])
          [] OTHER -> bare

(* What may come of each call; on an interface that is not there all fail. *)
Outcomes == [1 .. 3 -> BOOLEAN]
AllWell  == [i \in 1 .. 3 |-> TRUE]
Possible(n, ok) == n \notin present => ok = [i \in 1 .. 3 |-> FALSE]

Confirmed(targets, ok) == (sure \ targets) \cup {n \in targets : ok[n] = AllWell}

(* Mutant: protected interfaces are not refused. *)
TargetsUnprotected(roles) == {iface[r] : r \in roles} \ {None}

(* Mutant: a role without an interface is not skipped. *)
TargetsUndetected(roles) == {iface[r] : r \in roles} \ Ethernet

(* The interfaces a command names, up to the first one that is protected,  *)
(* which raises and ends the handler; wifi comes before lte.               *)
Targets(roles) ==
    LET named == {iface[r] : r \in roles} \ {None}
    IN  IF "wifi" \in roles /\ iface["wifi"] \in Ethernet
        THEN {}
        ELSE named \ Ethernet

(* on_set_emulation: apply the settings to each target. *)
SetEmulation(roles, s, ok) ==
    /\ \A n \in Targets(roles) : Possible(n, ok[n])
    /\ kernel' = [n \in Names |-> IF n \in Targets(roles)
                                  THEN Shaped(kernel[n], s, ok[n]) ELSE kernel[n]]
    /\ active' = [n \in Targets(roles) \cup DOMAIN active |->
                      IF n \in Targets(roles) THEN s ELSE active[n]]
    /\ sure' = Confirmed(Targets(roles), ok)
    /\ UNCHANGED <<config, present, iface>>

(* on_revert: delete the root of each target and forget its settings. *)
RevertEmulation(roles, ok) ==
    /\ \A n \in Targets(roles) : Possible(n, ok[n])
    /\ kernel' = [n \in Names |-> IF n \in Targets(roles)
                                  THEN DelRoot(kernel[n], ok[n][1]) ELSE kernel[n]]
    /\ active' = [n \in DOMAIN active \ Targets(roles) |-> active[n]]
    /\ sure' = Confirmed(Targets(roles), ok)
    /\ UNCHANGED <<config, present, iface>>

(* A check cycle looks for interfaces again while one is missing. *)
Redetect ==
    /\ \E r \in Roles : config[r] = "auto" /\ iface[r] = None
    /\ iface' = Detected(present)
    /\ UNCHANGED <<config, present, active, kernel, sure>>

(* restart_agent, or a crash *)
Restart ==
    /\ iface' = Detected(present)
    /\ active' = [n \in {} |-> None]
    /\ sure' = {n \in sure : kernel[n] = Default}
    /\ UNCHANGED <<config, present, kernel>>

(* The kernel drops the qdiscs of an interface that goes away. *)
Unplug(n) ==
    /\ n \in present
    /\ present' = present \ {n}
    /\ kernel' = [kernel EXCEPT ![n] = Default]
    /\ sure' = sure \ {n}
    /\ UNCHANGED <<config, iface, active>>

Plug(n) ==
    /\ n \notin present
    /\ present' = present \cup {n}
    /\ UNCHANGED <<config, iface, active, kernel, sure>>

Next ==
    \/ \E roles \in {{"wifi"}, {"lte"}, Roles} :
          \E ok \in [Targets(roles) -> Outcomes] :
              \/ \E s \in Settings : SetEmulation(roles, s, ok)
              \/ RevertEmulation(roles, ok)
    \/ Redetect
    \/ Restart
    \/ \E n \in Names \ Ethernet : Unplug(n) \/ Plug(n)

Spec == Init /\ [][Next]_vars

-----------------------------------------------------------------------------
TypeOK ==
    /\ config \in [Roles -> Names \cup {"auto"}]
    /\ present \subseteq Names
    /\ iface \in [Roles -> Names \cup {None}]
    /\ DOMAIN active \subseteq Names /\ \A n \in DOMAIN active : active[n] \in Settings
    /\ kernel \in [Names -> [root : {"default", "outage", "tbf", "netem"},
                             param : Nat, child : Nat]]
    /\ sure \subseteq Names

(* "never Ethernet": no interface with a protected prefix is ever shaped,  *)
(* whatever the configuration calls WiFi or LTE.                           *)
EthernetUntouched == \A n \in Ethernet : kernel[n] = Default /\ n \notin DOMAIN active

(* A command whose tc calls went through puts kernel and record right,     *)
(* whatever half-applied profile, lost record or old process came before;  *)
(* they agree until the next failure, restart or unplugging.               *)
CommandHeals ==
    \A n \in sure :
        kernel[n] = IF n \in DOMAIN active THEN Tree(active[n]) ELSE Default
=============================================================================
