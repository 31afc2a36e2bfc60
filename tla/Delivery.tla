------------------------------ MODULE Delivery ------------------------------
(***************************************************************************)
(* End to end: the Pi's packets, counters and status reports on their two  *)
(* ways to the Mac's store.                                                *)
(*                                                                         *)
(*  - Bundles go through uD3TN, which may delay, reorder, duplicate and    *)
(*    lose them.                                                           *)
(*  - Status reports and send counters go over the management WebSocket,   *)
(*    in order; when it breaks, what the Mac has not read is lost.         *)
(*                                                                         *)
(* The Mac is Store.  The Pi's mode, session and link change as            *)
(* LinkService allows.  Its sender is reduced to what DTNSender            *)
(* establishes of it: it handles packets in order, tags them with the      *)
(* current session, and holds a packet until one copy of it was confirmed. *)
(* The numbers a report gives of the queue are left to Store.              *)
(***************************************************************************)
EXTENDS Store

CONSTANTS
    InitialMode, MaxSession,  \* as in LinkService
    UsedLinks,   \* bound: the values that the active link changes to
    MaxWire,     \* bound on the management messages under way
    MaxCounters, \* size of MgmtClient._counter_queue
    MaxFaults    \* bound on breaks, backend restarts, failed sends and inserts,
                 \* and on keys that expire

ASSUME DeliveryAssumption ==
    /\ MaxWire \in Nat /\ MaxCounters \in Nat /\ MaxFaults \in Nat
    /\ InitialMode \in Modes /\ MaxSession \in Nat
    /\ Sessions = 0..MaxSession
    /\ IsFiniteSet(Packets) /\ Packets = 1..Cardinality(Packets)
    /\ UsedLinks \subseteq Links \cup {None}

VARIABLES
    mode, session, activeLink, linkEvent,  \* the link manager's, LinkService
    made,      \* packets 1..made have been put on the agent's queue
    waiting,   \* the packets still on it or in flight
    piSent,    \* the sender's bundle counters
    counters,  \* MgmtClient._counter_queue
    wire,      \* the management WebSocket, from the Pi to the Mac
    net,       \* the bundles handed to uD3TN
    faults     \* faults so far (auxiliary)

linkVars == <<mode, session, activeLink, linkEvent>>
agentVars == <<made, waiting, piSent, counters>>
deliveryVars == <<storeVars, linkVars, agentVars, wire, net, faults>>

Link == INSTANCE LinkService

Init ==
    /\ StoreInit
    /\ Link!Init
    /\ made = 0
    /\ waiting = {}
    /\ piSent = Zero
    /\ counters = << >>
    /\ wire = << >>
    /\ net = {}
    /\ faults = 0

Fault == faults < MaxFaults /\ faults' = faults + 1

-----------------------------------------------------------------------------
(* The Pi *)

LinkManagerStep ==
    /\ \/ \E m \in Modes : Link!ChangeMode(m)
       \/ \E l \in UsedLinks \cap (Link!Allowed(mode) \cup {None}) : Link!ChangeLink(l)
    /\ UNCHANGED <<storeVars, agentVars, wire, net, faults>>

Enqueue ==
    /\ made + 1 \in Packets
    /\ made' = made + 1
    /\ waiting' = waiting \cup {made'}
    /\ UNCHANGED <<storeVars, linkVars, piSent, counters, wire, net, faults>>

(* publish_dtn_send_counter: dropped when the queue is full *)
Published(queue, counts) ==
    IF Len(queue) < MaxCounters THEN Append(queue, counts) ELSE queue

Counted(ls) == [l \in Links |-> IF l \in ls THEN piSent[l] + 1 ELSE piSent[l]]

(* The copies confirmed, in this order, are counted and published one by one;
   one that went out on no link is neither. *)
CountCopies(confirmed) ==
    LET on == confirmed \cap Links IN
    /\ piSent' = Counted(on)
    /\ IF on = {} THEN UNCHANGED counters
       ELSE \E l \in on :
                counters' = IF on = {l} THEN Published(counters, piSent')
                            ELSE Published(Published(counters, Counted({l})), piSent')

(* One dispatch of the oldest packet: uD3TN takes some of the copies, and
   confirms some of those it takes. *)
Send ==
    \E p \in waiting, how \in Modes :
        LET copies == IF how = "redundant" THEN Links ELSE {activeLink}
        IN  \E taken \in SUBSET copies : \E confirmed \in SUBSET taken :
            /\ \A q \in waiting : p <= q
            /\ net' = net \cup {[id |-> p, session |-> session,
                                 mode |-> IF how = "redundant" THEN how ELSE mode,
                                 link |-> l] : l \in taken}
            /\ CountCopies(confirmed)
            /\ IF confirmed = {} THEN UNCHANGED waiting ELSE waiting' = waiting \ {p}
            /\ IF confirmed = copies THEN UNCHANGED faults ELSE Fault
            /\ UNCHANGED <<storeVars, linkVars, made, wire>>

Report == [mode |-> mode, session |-> session, link |-> activeLink,
           emulation |-> CHOOSE e \in Emulations : TRUE,
           enqueued |-> 0, full |-> FALSE]

(* MgmtClient._send_loop with build_status *)
PushStatus ==
    /\ Len(wire) < MaxWire
    /\ wire' = Append(wire, [status |-> <<Report>>, counts |-> piSent])
    /\ UNCHANGED <<storeVars, linkVars, agentVars, net, faults>>

(* MgmtClient._counter_send_loop *)
PushCounter ==
    /\ counters # << >>
    /\ Len(wire) < MaxWire
    /\ wire' = Append(wire, [status |-> << >>, counts |-> Head(counters)])
    /\ counters' = Tail(counters)
    /\ UNCHANGED <<storeVars, linkVars, made, waiting, piSent, net,
                   faults>>

(* The agent is restarted: only uD3TN and the wire remember anything. *)
PiRestart ==
    /\ Link!Restart
    /\ waiting' = {}
    /\ piSent' = Zero
    /\ counters' = << >>
    /\ UNCHANGED <<storeVars, made, wire, net, faults>>

-----------------------------------------------------------------------------
(* The management connection *)

(* The WebSocket breaks and is set up again.  The counter loop of the broken
   connection is not cancelled and may swallow one more counter. *)
Break ==
    /\ wire # << >>
    /\ Fault
    /\ \E n \in 0..Len(wire) - 1 : wire' = SubSeq(wire, 1, n)
    /\ counters' \in {counters} \cup {Tail(c) : c \in {counters} \ {<< >>}}
    /\ UNCHANGED <<storeVars, linkVars, made, waiting, piSent, net>>

Receive(m) ==
    IF m.status = << >> THEN IngestSendCounter(m.counts)
    ELSE UpdatePiStatus(m.status[1], m.counts)

(* Mutant: the newest message is handled first. *)
MacReceivesNewest ==
    /\ wire # << >>
    /\ Receive(wire[Len(wire)])
    /\ wire' = SubSeq(wire, 1, Len(wire) - 1)
    /\ UNCHANGED <<linkVars, agentVars, net, faults>>

(* ConfigServer._handle_message *)
MacReceives ==
    /\ wire # << >>
    /\ Receive(Head(wire))
    /\ wire' = Tail(wire)
    /\ UNCHANGED <<linkVars, agentVars, net, faults>>

(* DTNReceiverBridge._handle_bundle: any bundle, any time, any number of times *)
BridgeReceives ==
    /\ \E b \in net : IngestTelemetry(b)
    /\ IF unsaved' = unsaved THEN UNCHANGED faults ELSE Fault
    /\ UNCHANGED <<linkVars, agentVars, wire, net>>

(* DEDUP_TTL_S passes for a key. *)
CacheExpires ==
    /\ Fault
    /\ Expire
    /\ UNCHANGED <<linkVars, agentVars, wire, net>>

MacRestart ==
    /\ Fault
    /\ StoreRestart
    /\ wire' = << >>
    /\ UNCHANGED <<linkVars, agentVars, net>>

Next ==
    \/ LinkManagerStep \/ Enqueue \/ Send \/ PushStatus \/ PushCounter \/ PiRestart
    \/ Break \/ MacReceives \/ BridgeReceives \/ CacheExpires \/ MacRestart

Spec == Init /\ [][Next]_deliveryVars

(* The status loop never stops reporting, at least once per heartbeat, and the
   config server handles what arrives. *)
FairSpec == Spec /\ WF_deliveryVars(PushStatus) /\ WF_deliveryVars(MacReceives)

-----------------------------------------------------------------------------
(* Restarts of the agent, lost counters and broken connections leave no trace:
   when the Pi has stopped sending, the Mac's sent counters become the Pi's. *)
CountersConverge == <>[](known /\ sent = piSent)

(* After the last mode change or restart, the Mac ends up in the Pi's run. *)
ContextConverges == <>[](known /\ expMode = mode /\ expSession = session)

(* A run, once left, is never entered again: no stale report reopens it, and
   with it the accounting of an older session; and none restarts the run that
   is under way. *)
RunsMoveForward ==
    [][known /\ known' => \/ UNCHANGED <<expMode, expSession>>
                         \/ expSession' > expSession]_deliveryVars

(* Once the Mac is in the Pi's current run, it has the run's mode, and its
   counters do not exceed the Pi's: no counter of an earlier process of the
   agent is still to come. *)
CurrentRunAgrees ==
    known /\ expSession = session =>
        /\ expMode = mode
        /\ \A l \in Links : sent[l] <= piSent[l]

(* A run counts no more than was handed to uD3TN, each pair of session and
   packet once, plus what expired from the cache, however many copies arrive by
   whatever link, and whatever restarts and reports come in between. *)
Offered == {<<b.session, b.id>> : b \in net}
CountedOncePerSession == unique <= Cardinality(Offered) + expired

(* A packet has a second pair when its acceptance is not confirmed and it is
   retried after its session ended.  Of the packets of a session that happens
   to the one in flight at the end, and to no other. *)
RetriedLater(s) ==
    {p \in Packets : /\ <<s, p>> \in Offered
                     /\ \E t \in Sessions : t > s /\ <<t, p>> \in Offered}
OneRetriedPerSession == \A s \in Sessions : \A p, q \in RetriedLater(s) : p = q

-----------------------------------------------------------------------------
(* mac-backend/shared/store.py: "Experiment metrics in this store are logical
   per-run results".  A run counts its own packets only. *)
OwnPacketsOnly == known => \A k \in Shown : k[1] = expSession
=============================================================================
