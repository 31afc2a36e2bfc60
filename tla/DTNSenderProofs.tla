-------------------------- MODULE DTNSenderProofs ---------------------------
(***************************************************************************)
(* Proofs about DTNSender, for every number of messages and faults.        *)
(*                                                                         *)
(* The parts of TypeOK are proved in groups, one for each group of         *)
(* variables.  NoMessageLost, SentInOrder and the refinement of            *)
(* SenderService rest on Places, which says that the queue holds           *)
(* consecutive numbers and that everything before them is in flight, done  *)
(* or cleared; on TagsBehind, for the order of the sessions; and on        *)
(* AcceptedHeld, for what may be cleared.  CountersBracketAccepted rests   *)
(* on Escapes, which says who can be sent off link, and on DoneCounted,    *)
(* which counts a copy that is ahead of the other copy of its pair.        *)
(***************************************************************************)
EXTENDS DTNSender, SequenceTheorems, FiniteSetTheorems, TLAPS

(* Only the look at the link leads to the wait for it. *)
LEMMA WaitsOnlyAtTop ==
    ASSUME Sender, pc' = "waitLink"
    PROVE  LoopTop
BY DEF Sender, LinkEventSeen, GotMessage, GetTimesOut, SingleCallEnds,
       RedundantCallEnds, BackoffEnds, Dispatch, BeginSingle, BeginRedundant,
       ConnectFails

(* The sender never sleeps through a usable link: whatever the link manager
   and the operator did between its look at the link and its wait, and since,
   either the event is set or there is still nothing to send on.  It holds
   because the sender clears the event in the very loop step in which it
   looked, and every change of mode or link sets it. *)
THEOREM NeverSleepsThrough == Spec => []NoLostWakeup
<1>1. Init => NoLostWakeup
  BY DEF Init, NoLostWakeup
<1>2. NoLostWakeup /\ [Next]_vars => NoLostWakeup'
  <2> SUFFICES ASSUME NoLostWakeup, [Next]_vars, pc' = "waitLink", ~linkEvent'
               PROVE  Link!NoUsableLink'
    BY DEF NoLostWakeup
  <2>1. CASE LoopTop
    <3>1. CASE Link!NoUsableLink
      BY <2>1, <3>1 DEF LoopTop, Link!ClearEvent, Link!NoUsableLink
    <3>2. CASE ~Link!NoUsableLink
      BY <2>1, <3>2 DEF LoopTop, Dispatch, BeginSingle, BeginRedundant, ConnectFails
    <3> QED BY <3>1, <3>2
  <2>2. CASE Sender /\ ~LoopTop
    BY <2>2, WaitsOnlyAtTop
  <2>3. CASE LinkManagerStep
    BY <2>3 DEF LinkManagerStep, Link!ChangeMode, Link!ChangeLink
  <2>4. CASE Produce \/ ClearQueue \/ UNCHANGED vars
    BY <2>4 DEF Produce, ClearQueue, vars, linkVars, NoLostWakeup, Link!NoUsableLink
  <2> QED BY <2>1, <2>2, <2>3, <2>4 DEF Next
<1> QED BY <1>1, <1>2, PTL DEF Spec

-----------------------------------------------------------------------------
(* The invariant behind DoneWasAccepted: once one copy of a redundant send has
   returned, uD3TN has a bundle of the message in flight. *)
HasBundle(m) == \E b \in accepted : b.id = m
CopySent == pc = "redundant" /\ succeeded # {} => HasBundle(inflight)
DoneInv == DoneWasAccepted /\ CopySent

LEMMA StartsWithNoSuccess ==
    ASSUME NEW m, NEW how, Dispatch(m, how), pc' = "redundant"
    PROVE  succeeded' = {}
BY DEF Dispatch, BeginSingle, BeginRedundant, ConnectFails

LEMMA ReturnHasBundle ==
    ASSUME NEW l, CallReturns(l)
    PROVE  \E b \in accepted' : b.id = inflight
<1>1. Bundle(l) \in accepted' /\ Bundle(l).id = inflight
  BY DEF CallReturns, Accept, Bundle
<1> QED BY <1>1

LEMMA AcceptedGrows ==
    ASSUME [Next]_vars
    PROVE  accepted \subseteq accepted'
<1> USE DEF uD3TNVars
<1>1. ASSUME NEW l, CallReturns(l) \/ CallRaises(l)
      PROVE  accepted \subseteq accepted'
  BY <1>1 DEF CallReturns, CallRaises, Accept
<1>2. CASE SingleCallEnds \/ RedundantCallEnds
  BY <1>1, <1>2 DEF SingleCallEnds, RedundantCallEnds
<1>3. CASE LoopTop \/ LinkEventSeen \/ GotMessage \/ GetTimesOut \/ BackoffEnds
  BY <1>3 DEF LoopTop, LinkEventSeen, GotMessage, GetTimesOut, BackoffEnds
<1>4. CASE Produce \/ ClearQueue \/ LinkManagerStep \/ UNCHANGED vars
  BY <1>4 DEF Produce, ClearQueue, LinkManagerStep, vars
<1> QED BY <1>2, <1>3, <1>4 DEF Next, Sender

(* The agent gives a message up as sent only if uD3TN accepted a bundle of it:
   for any failures, retries, half-failed redundant sends and mode changes. *)
THEOREM DoneOnlyAccepted == Spec => []DoneWasAccepted
<1>1. Init => DoneInv
  BY DEF Init, DoneInv, DoneWasAccepted, CopySent
<1>2. DoneInv /\ [Next]_vars => DoneInv'
  <2> SUFFICES ASSUME DoneInv, [Next]_vars PROVE DoneInv'
    OBVIOUS
  <2>1. accepted \subseteq accepted'
    BY AcceptedGrows
  <2> DEFINE Taken == \E b \in accepted' : b.id = inflight
  <2>2. ASSUME done' = done \/ (done' = done \cup {inflight} /\ Taken)
        PROVE  DoneWasAccepted'
    BY <2>1, <2>2 DEF DoneInv, DoneWasAccepted
  <2>3. ASSUME UNCHANGED <<pc, succeeded, inflight>> PROVE CopySent'
    BY <2>1, <2>3 DEF DoneInv, CopySent, HasBundle
  <2>4. CASE LoopTop \/ GotMessage
    <3>1. CopySent'
      BY <2>4, StartsWithNoSuccess DEF LoopTop, GotMessage, CopySent
    <3> QED BY <2>2, <2>4, <3>1 DEF DoneInv, LoopTop, GotMessage
  <2>5. CASE LinkEventSeen \/ GetTimesOut \/ BackoffEnds
    BY <2>2, <2>5 DEF DoneInv, LinkEventSeen, GetTimesOut, BackoffEnds, Failed, CopySent
  <2>6. CASE SingleCallEnds
    <3>1. CopySent'
      BY <2>6 DEF SingleCallEnds, CopySent
    <3>2. DoneWasAccepted'
      <4>1. CASE \E l \in pending : CallReturns(l) /\ Finished
        BY <2>2, <4>1, ReturnHasBundle DEF Finished
      <4>2. CASE Failed
        BY <2>2, <4>2 DEF Failed
      <4> QED BY <2>6, <4>1, <4>2 DEF SingleCallEnds
    <3> QED BY <3>1, <3>2 DEF DoneInv
  <2>7. CASE RedundantCallEnds
    <3>1. PICK l \in pending : CallReturns(l) \/ CallRaises(l)
      BY <2>7 DEF RedundantCallEnds
    <3>2. succeeded' # {} => \E b \in accepted' : b.id = inflight
      <4>1. CASE CallReturns(l)
        BY <4>1, ReturnHasBundle
      <4>2. CASE CallRaises(l)
        BY <2>1, <2>7, <4>2 DEF CallRaises, DoneInv, CopySent, HasBundle, RedundantCallEnds
      <4> QED BY <3>1, <4>1, <4>2
    <3>3. CASE pending' # {}
      BY <2>2, <2>7, <3>2, <3>3 DEF RedundantCallEnds, DoneInv, CopySent, HasBundle
    <3>4. CASE pending' = {} /\ succeeded' = {}
      BY <2>2, <2>7, <3>4 DEF RedundantCallEnds, DoneInv, CopySent
    <3>5. CASE pending' = {} /\ succeeded' # {}
      BY <2>2, <2>7, <3>2, <3>5 DEF RedundantCallEnds, DoneInv, CopySent, Finished, HasBundle
    <3> QED BY <3>3, <3>4, <3>5
  <2>8. CASE Produce \/ ClearQueue \/ LinkManagerStep \/ UNCHANGED vars
    BY <2>2, <2>3, <2>8 DEF DoneInv, Produce, ClearQueue, LinkManagerStep, vars, callVars
  <2> QED BY <2>4, <2>5, <2>6, <2>7, <2>8 DEF Next, Sender
<1>3. DoneInv => DoneWasAccepted
  BY DEF DoneInv
<1> QED BY <1>1, <1>2, <1>3, PTL DEF Spec

-----------------------------------------------------------------------------
(* TypeOK, by groups of variables. *)
LinkType ==
    /\ mode \in Modes /\ session \in 0..MaxSession
    /\ activeLink \in Links \cup {None} /\ linkEvent \in BOOLEAN
QueueType ==
    /\ produced \in 0..MaxMessages
    /\ queue \in Seq(1..MaxMessages)
    /\ inflight \in 0..MaxMessages
    /\ done \in SUBSET (1..MaxMessages)
    /\ cleared \in SUBSET (1..MaxMessages)
Tags == [session : 0..MaxSession, mode : Modes \cup {None}]
CallType ==
    /\ pc \in {"top", "waitLink", "get", "single", "redundant", "backoff"}
    /\ loopMode \in Modes
    /\ tag \in Tags
    /\ pending \in SUBSET (Links \cup {None})
    /\ succeeded \in SUBSET (Links \cup {None})
    /\ clients \in SUBSET (Links \cup {"single"})
    /\ faults \in 0..MaxFaults
CounterType ==
    /\ bundles \in [Links -> Nat] /\ failures \in [Links -> Nat]
    /\ retries \in [Links -> Nat] /\ handed \in [Links -> Nat]
EscapeType == offLink \in [1..MaxMessages -> Nat]
BundleType ==
    accepted \in SUBSET [id : 1..MaxMessages, link : Links \cup {None}, tag : Tags]

LEMMA TypeParts ==
    TypeOK <=> /\ LinkType /\ QueueType /\ CallType /\ CounterType /\ EscapeType
               /\ BundleType
BY DEF TypeOK, LinkType, QueueType, Tags, CallType, CounterType, EscapeType, BundleType

(* A message is in flight whenever a dispatch is under way, and none while
   the sender waits for one. *)
AtWork ==
    /\ pc \in {"single", "redundant", "backoff"} => inflight # 0
    /\ pc = "get" => inflight = 0

LEMMA OneMoreFault ==
    \A n \in 0..MaxFaults : n < MaxFaults => n + 1 \in 0..MaxFaults
BY MessagesAssumption

(* What starting a dispatch does to the call variables. *)
LEMMA DispatchOutcome ==
    ASSUME LinkType, CallType, NEW m, NEW how \in Modes, Dispatch(m, how)
    PROVE  /\ pc' \in {"single", "redundant", "backoff"}
           /\ tag' \in Tags
           /\ pending' \in SUBSET (Links \cup {None})
           /\ succeeded' \in SUBSET (Links \cup {None})
           /\ clients' \in SUBSET (Links \cup {"single"})
           /\ faults' \in 0..MaxFaults
<1>1. NoTag \in Tags
  BY ServiceAssumption DEF NoTag, Tags
<1>2. [session |-> session, mode |-> mode] \in Tags
  BY DEF LinkType, Tags
<1>3. CASE BeginSingle(m)
  <2>1. CASE "single" \notin clients /\ ConnectFails /\ UNCHANGED clients
    BY <2>1, OneMoreFault DEF ConnectFails, CallType, callVars
  <2>2. CASE ~("single" \notin clients /\ ConnectFails /\ UNCHANGED clients)
    BY <1>3, <2>2, <1>1, <1>2 DEF BeginSingle, CallType, LinkType
  <2> QED BY <2>1, <2>2
<1>4. CASE how = "redundant" /\ BeginRedundant
  <2>1. PICK sides \in SUBSET Links :
           /\ clients' = clients \cup sides
           /\ \/ sides = {} /\ ConnectFails
              \/ /\ sides # {}
                 /\ IF sides = Links THEN UNCHANGED faults
                    ELSE faults < MaxFaults /\ faults' = faults + 1
                 /\ tag' = [session |-> session, mode |-> "redundant"]
                 /\ pending' = sides
                 /\ succeeded' = {}
                 /\ pc' = "redundant"
    BY <1>4 DEF BeginRedundant
  <2>2. [session |-> session, mode |-> "redundant"] \in Tags
    BY <1>4 DEF LinkType, Tags
  <2>3. CASE ConnectFails
    BY <2>1, <2>3, OneMoreFault DEF ConnectFails, CallType, callVars
  <2>4. CASE ~ConnectFails
    BY <2>1, <2>2, <2>4, OneMoreFault DEF CallType
  <2> QED BY <2>3, <2>4
<1> QED BY <1>3, <1>4 DEF Dispatch

LEMMA AddType ==
    ASSUME NEW counter \in [Links -> Nat], NEW ls
    PROVE  /\ Add(counter, ls) \in [Links -> Nat]
           /\ \A l \in Links : Add(counter, ls)[l]
                  = IF l \in ls THEN counter[l] + 1 ELSE counter[l]
BY DEF Add

LEMMA RetriedType ==
    ASSUME retries \in [Links -> Nat]
    PROVE  Retried \in [Links -> Nat]
BY AddType DEF Retried

(* The end of one AAP call. *)
LEMMA CallEnds ==
    ASSUME LinkType, QueueType, CallType, BundleType, CounterType,
           LinkCounters, inflight # 0,
           NEW l \in Links \cup {None}, CallReturns(l) \/ CallRaises(l)
    PROVE  /\ BundleType' /\ faults' \in 0..MaxFaults
           /\ bundles' \in [Links -> Nat] /\ failures' \in [Links -> Nat]
           /\ handed' \in [Links -> Nat]
           /\ succeeded' \subseteq succeeded \cup {l}
           /\ LinkCounters'
           /\ accepted' \subseteq accepted \cup {Bundle(l)}
<1>1. Bundle(l) \in [id : 1..MaxMessages, link : Links \cup {None}, tag : Tags]
  BY MessagesAssumption DEF Bundle, QueueType, CallType
<1>2. CASE CallReturns(l)
  <2>1. /\ accepted' = accepted \cup {Bundle(l)}
        /\ handed' = Add(handed, {l}) /\ bundles' = Add(bundles, {l})
        /\ UNCHANGED <<failures, faults>> /\ succeeded' = succeeded \cup {l}
    BY <1>2 DEF CallReturns, Accept
  <2>2. LinkCounters'
    BY <2>1, AddType DEF LinkCounters, CounterType
  <2> QED BY <1>1, <2>1, <2>2, AddType DEF BundleType, CounterType, CallType
<1>3. CASE CallRaises(l)
  <2>1. /\ failures' = Add(failures, {l}) /\ UNCHANGED <<succeeded, bundles>>
        /\ faults < MaxFaults /\ faults' = faults + 1
        /\ \/ accepted' = accepted \cup {Bundle(l)} /\ handed' = Add(handed, {l})
           \/ UNCHANGED <<accepted, handed>>
    BY <1>3 DEF CallRaises, Accept
  <2>2. LinkCounters'
    <3>1. CASE handed' = Add(handed, {l})
      BY <2>1, <3>1, AddType DEF LinkCounters, CounterType
    <3>2. CASE UNCHANGED handed
      BY <2>1, <3>2, AddType DEF LinkCounters, CounterType
    <3> QED BY <2>1, <3>1, <3>2
  <2> QED BY <1>1, <2>1, <2>2, AddType, OneMoreFault DEF BundleType, CounterType, CallType
<1> QED BY <1>2, <1>3

LEMMA AcceptEscapes ==
    ASSUME QueueType, EscapeType, inflight # 0, NEW l, Accept(l)
    PROVE  /\ EscapeType'
           /\ l # None => UNCHANGED offLink
           /\ l = None => /\ offLink'[inflight] = offLink[inflight] + 1
                          /\ \A m \in 1..MaxMessages :
                                m # inflight => offLink'[m] = offLink[m]
<1>1. inflight \in 1..MaxMessages
  BY MessagesAssumption DEF QueueType
<1>2. CASE l = None
  BY <1>1, <1>2 DEF Accept, EscapeType
<1>3. CASE l # None
  BY <1>3 DEF Accept, EscapeType
<1> QED BY <1>2, <1>3

-----------------------------------------------------------------------------
TypeInv ==
    /\ LinkType /\ QueueType /\ CallType /\ CounterType /\ EscapeType /\ BundleType
    /\ AtWork /\ LinkCounters

LEMMA TypeInvInit == Init => TypeInv
<1> SUFFICES ASSUME Init PROVE TypeInv
  OBVIOUS
<1>1. LinkType
  <2>1. linkEvent \in BOOLEAN
    BY Zenon DEF Init, Link!Init
  <2>2. /\ mode \in Modes /\ session \in 0..MaxSession
        /\ activeLink \in Links \cup {None}
    BY ServiceAssumption DEF Init, Link!Init, None
  <2> QED BY <2>1, <2>2 DEF LinkType
<1>2. QueueType
  BY MessagesAssumption DEF Init, QueueType
<1>3. CallType
  BY MessagesAssumption, ServiceAssumption DEF Init, CallType, NoTag, Tags
<1>4. CounterType /\ LinkCounters
  BY DEF Init, CounterType, LinkCounters
<1>5. EscapeType /\ BundleType /\ AtWork
  BY DEF Init, EscapeType, BundleType, AtWork
<1> QED BY <1>1, <1>2, <1>3, <1>4, <1>5 DEF TypeInv

LEMMA HeadAndTail ==
    ASSUME QueueType, queue # << >>
    PROVE  Head(queue) \in 1..MaxMessages /\ Tail(queue) \in Seq(1..MaxMessages)
<1> DEFINE S == 1..MaxMessages
<1>1. queue \in Seq(S)
  BY DEF QueueType
<1> HIDE DEF S
<1>2. Head(queue) \in S /\ Tail(queue) \in Seq(S)
  BY <1>1, HeadTailProperties
<1> QED BY <1>2 DEF S

LEMMA FinishedTypes ==
    ASSUME QueueType, inflight # 0, Finished, UNCHANGED queueVars
    PROVE  QueueType' /\ retries' = retries
<1>1. inflight \in 1..MaxMessages
  BY MessagesAssumption DEF QueueType
<1>2. done' \in SUBSET (1..MaxMessages)
  BY <1>1 DEF Finished, QueueType
<1>3. inflight' \in 0..MaxMessages
  BY MessagesAssumption DEF Finished
<1> QED BY <1>2, <1>3 DEF Finished, QueueType, queueVars

LEMMA SenderTypes ==
    ASSUME TypeInv, Sender
    PROVE  TypeInv'
<1> USE DEF TypeInv, callVars, counterVars, queueVars, linkVars, uD3TNVars
<1>1. CASE LoopTop
  <2>1. /\ loopMode' = mode
        /\ UNCHANGED <<queueVars, inflight, counterVars, accepted, handed, offLink,
                       done>>
    BY <1>1 DEF LoopTop
  <2>2. QueueType' /\ CounterType' /\ EscapeType' /\ BundleType' /\ LinkCounters'
    BY <2>1 DEF QueueType, CounterType, EscapeType, BundleType, LinkCounters
  <2>3. CASE Link!NoUsableLink
    <3>1. /\ Link!ClearEvent /\ pc' = "waitLink"
          /\ UNCHANGED <<callVars, clients, faults>>
      BY <1>1, <2>3 DEF LoopTop
    <3>2. LinkType'
      <4>1. linkEvent' \in BOOLEAN
        BY <3>1, Zenon DEF Link!ClearEvent
      <4> QED BY <3>1, <4>1 DEF LinkType, Link!ClearEvent
    <3>3. CallType' /\ AtWork'
      BY <2>1, <3>1 DEF LinkType, CallType, AtWork
    <3> QED BY <2>2, <3>2, <3>3
  <2>4. CASE ~Link!NoUsableLink
    <3>1. UNCHANGED linkVars
      BY <1>1, <2>4 DEF LoopTop
    <3>2. LinkType'
      BY <3>1 DEF LinkType
    <3>3. CASE inflight = 0
      <4>1. pc' = "get" /\ UNCHANGED <<callVars, clients, faults>>
        BY <1>1, <2>4, <3>3 DEF LoopTop
      <4>2. CallType' /\ AtWork'
        BY <2>1, <3>3, <4>1 DEF LinkType, CallType, AtWork
      <4> QED BY <2>2, <3>2, <4>2
    <3>4. CASE inflight # 0
      <4>1. Dispatch(inflight, mode) /\ mode \in Modes
        BY <1>1, <2>4, <3>4 DEF LoopTop, LinkType
      <4>2. CallType' /\ pc' \in {"single", "redundant", "backoff"}
        BY <4>1, <2>1, DispatchOutcome DEF CallType
      <4>3. AtWork'
        BY <4>2, <3>4, <2>1 DEF AtWork
      <4> QED BY <2>2, <3>2, <4>2, <4>3
    <3> QED BY <3>3, <3>4
  <2> QED BY <2>3, <2>4
<1>2. CASE GotMessage
  <2>1. /\ pc = "get" /\ queue # << >>
        /\ inflight' = Head(queue) /\ queue' = Tail(queue)
        /\ Dispatch(Head(queue), loopMode)
        /\ UNCHANGED <<linkVars, produced, cleared, loopMode, counterVars,
                       accepted, handed, offLink, done>>
    BY <1>2 DEF GotMessage
  <2>2. LinkType' /\ CounterType' /\ EscapeType' /\ BundleType' /\ LinkCounters'
    BY <2>1 DEF LinkType, CounterType, EscapeType, BundleType, LinkCounters
  <2>3. inflight' \in 1..MaxMessages /\ queue' \in Seq(1..MaxMessages)
    BY <2>1, HeadAndTail
  <2>4. QueueType'
    BY <2>1, <2>3 DEF QueueType
  <2>5. CallType' /\ pc' \in {"single", "redundant", "backoff"}
    <3>1. loopMode \in Modes
      BY DEF CallType
    <3> QED BY <2>1, <3>1, DispatchOutcome DEF CallType
  <2>6. AtWork'
    BY <2>3, <2>5, MessagesAssumption DEF AtWork
  <2> QED BY <2>2, <2>4, <2>5, <2>6
<1>3. CASE LinkEventSeen \/ GetTimesOut
  <2>1. pc' = "top"
        /\ UNCHANGED <<linkVars, queueVars, inflight, loopMode, callVars, clients,
                       counterVars, uD3TNVars, done>>
    BY <1>3 DEF LinkEventSeen, GetTimesOut
  <2> QED BY <2>1 DEF LinkType, QueueType, CallType, CounterType, EscapeType, BundleType, AtWork,
                      LinkCounters
<1>4. CASE SingleCallEnds
  <2>1. PICK l \in pending :
           \/ CallReturns(l) /\ Finished /\ UNCHANGED clients
           \/ CallRaises(l) /\ Failed /\ clients' = clients \ {"single"}
    BY <1>4 DEF SingleCallEnds
  <2>2. /\ pc = "single" /\ pc' = "top" /\ pending' = {}
        /\ UNCHANGED <<linkVars, queueVars, loopMode, tag>>
    BY <1>4 DEF SingleCallEnds
  <2>3. l \in Links \cup {None} /\ inflight # 0
    BY <2>2 DEF CallType, AtWork
  <2>4. /\ BundleType' /\ faults' \in 0..MaxFaults
        /\ bundles' \in [Links -> Nat] /\ failures' \in [Links -> Nat]
        /\ handed' \in [Links -> Nat]
        /\ succeeded' \subseteq succeeded \cup {l}
        /\ LinkCounters'
    BY <2>1, <2>3, CallEnds
  <2>5. retries' \in [Links -> Nat] /\ QueueType'
    <3>1. CASE Finished
      BY <2>2, <2>3, <3>1, FinishedTypes DEF CounterType
    <3>2. CASE Failed
      BY <2>2, <3>2, RetriedType DEF Failed, QueueType, CounterType
    <3> QED BY <2>1, <3>1, <3>2
  <2>6. LinkType' /\ AtWork'
    BY <2>2 DEF LinkType, AtWork
  <2>7. clients' \in SUBSET (Links \cup {"single"})
    BY <2>1 DEF CallType
  <2>8. CallType'
    BY <2>2, <2>3, <2>4, <2>7 DEF CallType
  <2>9. EscapeType'
    BY <2>1, <2>3, AcceptEscapes DEF CallReturns, CallRaises, EscapeType
  <2> QED BY <2>4, <2>5, <2>6, <2>8, <2>9 DEF CounterType
<1>5. CASE RedundantCallEnds
  <2>1. PICK l \in pending : pending' = pending \ {l} /\ (CallReturns(l) \/ CallRaises(l))
    BY <1>5 DEF RedundantCallEnds
  <2>2. /\ pc = "redundant" /\ UNCHANGED <<linkVars, queueVars, loopMode, tag>>
    BY <1>5 DEF RedundantCallEnds
  <2>3. l \in Links \cup {None} /\ inflight # 0
    BY <2>1, <2>2 DEF CallType, AtWork
  <2>4. /\ BundleType' /\ faults' \in 0..MaxFaults
        /\ bundles' \in [Links -> Nat] /\ failures' \in [Links -> Nat]
        /\ handed' \in [Links -> Nat]
        /\ succeeded' \subseteq succeeded \cup {l}
        /\ LinkCounters'
    BY <2>1, <2>3, CallEnds
  <2>5. \/ UNCHANGED <<pc, clients, retries, done, inflight>>
        \/ /\ clients' = clients \ (Links \ succeeded')
           /\ \/ pc' = "backoff" /\ UNCHANGED <<retries, done, inflight>>
              \/ pc' = "top" /\ Finished
    BY <1>5 DEF RedundantCallEnds
  <2>6. retries' \in [Links -> Nat] /\ QueueType'
    <3>1. CASE Finished
      BY <2>2, <2>3, <3>1, FinishedTypes DEF CounterType
    <3>2. CASE UNCHANGED <<retries, done, inflight>>
      BY <2>2, <3>2 DEF QueueType, CounterType
    <3> QED BY <2>5, <3>1, <3>2
  <2>7. LinkType'
    BY <2>2 DEF LinkType
  <2>8. AtWork'
    BY <2>2, <2>3, <2>5 DEF AtWork
  <2>9. /\ clients' \in SUBSET (Links \cup {"single"})
        /\ pc' \in {"top", "redundant", "backoff"}
    BY <2>2, <2>5 DEF CallType
  <2>10. CallType'
    BY <2>1, <2>2, <2>3, <2>4, <2>9 DEF CallType
  <2>11. EscapeType'
    BY <2>1, <2>3, AcceptEscapes DEF CallReturns, CallRaises, EscapeType
  <2> QED BY <2>4, <2>6, <2>7, <2>8, <2>10, <2>11 DEF CounterType
<1>6. CASE BackoffEnds
  <2>1. /\ pc' = "top" /\ retries' = Retried
        /\ UNCHANGED <<linkVars, queueVars, loopMode, callVars, clients,
                       bundles, failures, uD3TNVars, done, inflight>>
    BY <1>6 DEF BackoffEnds, Failed
  <2>2. CounterType'
    BY <2>1, RetriedType DEF CounterType
  <2> QED BY <2>1, <2>2 DEF LinkType, QueueType, CallType, EscapeType, BundleType, AtWork,
                            LinkCounters
<1> QED BY <1>1, <1>2, <1>3, <1>4, <1>5, <1>6 DEF Sender

LEMMA TypeInvStep ==
    ASSUME TypeInv, [Next]_vars
    PROVE  TypeInv'
<1> USE DEF TypeInv, callVars, counterVars, queueVars, linkVars, uD3TNVars
<1>1. CASE Sender
  BY <1>1, SenderTypes
<1>2. CASE Produce
  <2>1. produced + 1 \in 1..MaxMessages
    BY <1>2, MessagesAssumption DEF Produce, QueueType
  <2>2. QueueType'
    <3>1. queue' \in Seq(1..MaxMessages)
      BY <1>2, <2>1 DEF Produce, QueueType
    <3> QED BY <1>2, <2>1, <3>1 DEF Produce, QueueType
  <2> QED BY <1>2, <2>2 DEF Produce, LinkType, CallType, CounterType, EscapeType, BundleType,
                            AtWork, LinkCounters
<1>3. CASE ClearQueue
  <2>1. {queue[i] : i \in 1..Len(queue)} \subseteq 1..MaxMessages
    <3> SUFFICES ASSUME NEW i \in 1..Len(queue) PROVE queue[i] \in 1..MaxMessages
      OBVIOUS
    <3> QED BY ElementOfSeq DEF QueueType
  <2>2. QueueType'
    <3>1. cleared' = cleared \cup {queue[i] : i \in 1..Len(queue)} /\ queue' = << >>
      BY <1>3 DEF ClearQueue
    <3>2. cleared' \in SUBSET (1..MaxMessages)
      BY <2>1, <3>1 DEF QueueType
    <3>3. queue' \in Seq(1..MaxMessages)
      BY <3>1
    <3> QED BY <1>3, <3>2, <3>3 DEF ClearQueue, QueueType
  <2> QED BY <1>3, <2>2 DEF ClearQueue, LinkType, CallType, CounterType, EscapeType, BundleType,
                            AtWork, LinkCounters
<1>4. CASE LinkManagerStep
  <2>1. UNCHANGED <<queueVars, inflight, pc, loopMode, callVars, clients,
                    counterVars, uD3TNVars, done>>
    BY <1>4 DEF LinkManagerStep
  <2>2. LinkType'
    <3>1. ASSUME NEW m \in Modes, Link!ChangeMode(m) PROVE LinkType'
      <4>1. linkEvent' \in BOOLEAN
        BY <3>1, Zenon DEF Link!ChangeMode
      <4> QED BY <3>1, <4>1, ServiceAssumption DEF Link!ChangeMode, LinkType
    <3>2. ASSUME NEW l \in Link!Allowed(mode) \cup {None}, Link!ChangeLink(l)
          PROVE  LinkType'
      <4>1. linkEvent' \in BOOLEAN
        BY <3>2, Zenon DEF Link!ChangeLink
      <4>2. l \in Links \cup {None}
        BY DEF Link!Allowed, Links, Link!Links
      <4> QED BY <3>2, <4>1, <4>2 DEF Link!ChangeLink, LinkType
    <3> QED BY <1>4, <3>1, <3>2 DEF LinkManagerStep
  <2> QED BY <2>1, <2>2 DEF QueueType, CallType, CounterType, EscapeType, BundleType, AtWork,
                            LinkCounters
<1>5. CASE UNCHANGED vars
  BY <1>5 DEF vars, LinkType, QueueType, CallType, CounterType, EscapeType, BundleType, AtWork,
              LinkCounters
<1> QED BY <1>1, <1>2, <1>3, <1>4, <1>5 DEF Next

LEMMA TypeInvariance == Spec => []TypeInv
<1>1. TypeInv /\ [Next]_vars => TypeInv'
  BY TypeInvStep
<1> QED BY <1>1, TypeInvInit, PTL DEF Spec

(* Every attribute of the sender keeps its type, for any number of messages,
   faults and sessions. *)
THEOREM TypeCorrect == Spec => []TypeOK
<1>1. TypeInv => TypeOK
  BY TypeParts DEF TypeInv
<1> QED BY <1>1, TypeInvariance, PTL

-----------------------------------------------------------------------------
(* Where each message is.  The queue holds the newest ones, without a gap; the
   Behind messages before them are in flight, done or cleared; and those older
   than the one in flight are done or cleared. *)
Behind == produced - Len(queue)
Lined  == Len(queue) <= produced /\ \A i \in 1..Len(queue) : queue[i] = Behind + i
Gone   == done \cup cleared
Left ==
    /\ \A m \in Nat : m \in 1..Behind <=> (m = inflight /\ m # 0) \/ m \in Gone
    /\ inflight \notin Gone
    /\ done \cap cleared = {}
OlderGone == \A m \in Nat : 0 < m /\ m < inflight => m \in Gone
Places == Lined /\ Left /\ OlderGone

LEMMA LengthNat == QueueType => Len(queue) \in Nat /\ produced \in Nat /\ inflight \in Nat
BY MessagesAssumption, LenProperties DEF QueueType

LEMMA MembersNat == QueueType => \A m \in Gone : m \in Nat /\ m # 0
BY MessagesAssumption DEF QueueType, Gone

LEMMA PlacesKept ==
    ASSUME Places, UNCHANGED <<produced, queue, inflight, done, cleared>>
    PROVE  Places'
BY DEF Places, Lined, Left, OlderGone, Behind, Gone

LEMMA PlacesProduce ==
    ASSUME QueueType, Places, Produce
    PROVE  Places'
<1>1. produced' = produced + 1 /\ queue' = Append(queue, produced + 1)
      /\ UNCHANGED <<inflight, done, cleared>>
  BY DEF Produce
<1>2. produced + 1 \in 1..MaxMessages
  BY MessagesAssumption DEF Produce, QueueType
<1>3. /\ Len(queue') = Len(queue) + 1
      /\ \A i \in 1..Len(queue) : queue'[i] = queue[i]
      /\ queue'[Len(queue) + 1] = produced + 1
  <2> DEFINE S == 1..MaxMessages
  <2>1. queue \in Seq(S) /\ produced + 1 \in S
    BY <1>2 DEF QueueType
  <2> HIDE DEF S
  <2> QED BY <1>1, <2>1, AppendProperties
<1>4. Behind' = Behind /\ Behind \in Nat
  BY <1>1, <1>3, LengthNat DEF Behind, Places, Lined
<1>5. Lined'
  <2>1. ASSUME NEW i \in 1..Len(queue') PROVE queue'[i] = Behind + i
    <3>1. CASE i = Len(queue) + 1
      BY <1>3, <3>1, LengthNat DEF Behind
    <3>2. CASE i # Len(queue) + 1
      <4>1. i \in 1..Len(queue)
        BY <1>3, <3>2, LengthNat
      <4> QED BY <1>3, <4>1 DEF Places, Lined
    <3> QED BY <3>1, <3>2
  <2> QED BY <1>1, <1>3, <1>4, <2>1, LengthNat DEF Places, Lined
<1> QED BY <1>1, <1>4, <1>5 DEF Places, Left, OlderGone, Gone

LEMMA PlacesGot ==
    ASSUME QueueType, Places, GotMessage, inflight = 0
    PROVE  Places'
<1>1. /\ queue # << >> /\ inflight' = Head(queue) /\ queue' = Tail(queue)
      /\ UNCHANGED <<produced, done, cleared>>
  BY DEF GotMessage
<1>2. /\ Len(queue') = Len(queue) - 1 /\ Len(queue) \in Nat \ {0}
      /\ \A i \in 1..Len(queue') : queue'[i] = queue[i + 1]
      /\ Head(queue) = queue[1]
  <2> DEFINE S == 1..MaxMessages
  <2>1. queue \in Seq(S)
    BY DEF QueueType
  <2> HIDE DEF S
  <2>2. Head(queue) = queue[1]
    BY <2>1
  <2> QED BY <1>1, <2>1, <2>2, HeadTailProperties, EmptySeq
<1>3. /\ Behind' = Behind + 1 /\ Behind \in Nat /\ inflight' = Behind + 1
      /\ Len(queue') \in Nat
  BY <1>1, <1>2, LengthNat DEF Behind, Places, Lined
<1>4. Lined'
  <2>1. ASSUME NEW i \in 1..Len(queue') PROVE queue'[i] = Behind' + i
    <3>1. i + 1 \in 1..Len(queue)
      BY <1>2
    <3>2. queue[i + 1] = Behind + (i + 1)
      BY <3>1 DEF Places, Lined
    <3> QED BY <1>2, <1>3, <3>2
  <2> QED BY <1>1, <1>2, <2>1, LengthNat DEF Places, Lined
<1>5. \A m \in Nat : m \in 1..Behind <=> m \in Gone
  BY DEF Places, Left
<1>6. Gone' = Gone
  BY <1>1 DEF Gone
<1>7. Left'
  <2>1. \A m \in Nat : m \in 1..(Behind + 1) <=> m = Behind + 1 \/ m \in 1..Behind
    BY <1>3
  <2>2. Behind + 1 \notin Gone
    BY <1>3, <1>5
  <2> QED BY <1>1, <1>3, <1>5, <1>6, <2>1, <2>2 DEF Places, Left
<1>8. OlderGone'
  BY <1>3, <1>5, <1>6 DEF OlderGone
<1> QED BY <1>4, <1>7, <1>8 DEF Places

LEMMA PlacesFinished ==
    ASSUME QueueType, Places, inflight # 0, Finished, UNCHANGED queueVars
    PROVE  Places'
<1>1. done' = done \cup {inflight} /\ inflight' = 0 /\ UNCHANGED <<produced, queue, cleared>>
  BY DEF Finished, queueVars
<1>2. Gone' = Gone \cup {inflight} /\ Behind' = Behind
  BY <1>1 DEF Gone, Behind
<1>3. 0 \notin Gone
  BY MembersNat
<1>4. Left'
  BY <1>1, <1>2, <1>3, LengthNat DEF Places, Left, Gone
<1>5. Lined' /\ OlderGone'
  BY <1>1, <1>2 DEF Places, Lined, OlderGone
<1> QED BY <1>4, <1>5 DEF Places

LEMMA PlacesClear ==
    ASSUME QueueType, Places, ClearQueue
    PROVE  Places'
<1> DEFINE Q == {queue[i] : i \in 1..Len(queue)}
<1>1. queue' = << >> /\ cleared' = cleared \cup Q
      /\ UNCHANGED <<produced, inflight, done>>
  BY DEF ClearQueue
<1>2. Behind' = produced /\ Behind \in Nat /\ Behind + Len(queue) = produced
  BY <1>1, LengthNat DEF Behind, Places, Lined
<1>3. \A m \in Nat : m \in Q <=> Behind < m /\ m <= produced
  <2> SUFFICES ASSUME NEW m \in Nat
               PROVE  m \in Q <=> Behind < m /\ m <= produced
    OBVIOUS
  <2>1. ASSUME m \in Q PROVE Behind < m /\ m <= produced
    <3>1. PICK i \in 1..Len(queue) : m = queue[i]
      BY <2>1
    <3>2. m = Behind + i
      BY <3>1 DEF Places, Lined
    <3> QED BY <3>2, <1>2, LengthNat
  <2>2. ASSUME Behind < m, m <= produced PROVE m \in Q
    <3>1. m - Behind \in 1..Len(queue)
      BY <2>2, <1>2, LengthNat
    <3>2. queue[m - Behind] = Behind + (m - Behind)
      BY <3>1 DEF Places, Lined
    <3>3. queue[m - Behind] = m
      BY <3>2, <1>2
    <3> QED BY <3>1, <3>3
  <2> QED BY <2>1, <2>2
<1>4. Gone' = Gone \cup Q
  BY <1>1 DEF Gone
<1>5. \A m \in Q : m \in Nat
  <2> SUFFICES ASSUME NEW i \in 1..Len(queue) PROVE queue[i] \in Nat
    OBVIOUS
  <2>1. queue[i] \in 1..MaxMessages
    BY ElementOfSeq DEF QueueType
  <2> QED BY <2>1
<1> HIDE DEF Q
<1>6. \A m \in Nat : m \in 1..produced <=> m \in 1..Behind \/ m \in Q
  BY <1>2, <1>3, LengthNat
<1>7. \A m \in Nat : m \in Q => m \notin 1..Behind
  BY <1>2, <1>3
<1>8. inflight \notin Q
  <2>1. CASE inflight = 0
    BY <1>2, <1>3, <2>1
  <2>2. CASE inflight # 0
    BY <1>7, <2>2, LengthNat DEF Places, Left
  <2> QED BY <2>1, <2>2
<1>9. done \cap Q = {}
  <2>1. \A m \in Q : m \notin Gone
    BY <1>5, <1>7 DEF Places, Left
  <2> QED BY <2>1 DEF Gone
<1>10. Left'
  <2>1. \A m \in Nat : m \in 1..Behind' <=> (m = inflight' /\ m # 0) \/ m \in Gone'
    BY <1>1, <1>2, <1>4, <1>6 DEF Places, Left
  <2>2. inflight' \notin Gone' /\ done' \cap cleared' = {}
    BY <1>1, <1>4, <1>8, <1>9 DEF Places, Left
  <2> QED BY <2>1, <2>2 DEF Left
<1>11. OlderGone'
  BY <1>1, <1>4 DEF Places, OlderGone
<1>12. Lined'
  <2>1. Len(queue') = 0
    BY <1>1
  <2> QED BY <1>1, <2>1, LengthNat DEF Lined
<1> QED BY <1>10, <1>11, <1>12 DEF Places

LEMMA PlacesStep ==
    ASSUME TypeInv, Places, [Next]_vars
    PROVE  Places'
<1> USE DEF queueVars
<1>0. QueueType
  BY DEF TypeInv
<1>1. CASE LoopTop \/ LinkEventSeen \/ GetTimesOut \/ BackoffEnds \/ LinkManagerStep
  BY <1>1, PlacesKept DEF LoopTop, LinkEventSeen, GetTimesOut, BackoffEnds, Failed,
                          LinkManagerStep
<1>2. CASE UNCHANGED vars
  BY <1>2, PlacesKept DEF vars
<1>3. CASE GotMessage
  <2>1. inflight = 0
    BY <1>3 DEF GotMessage, TypeInv, AtWork
  <2> QED BY <1>0, <1>3, <2>1, PlacesGot
<1>4. CASE SingleCallEnds
  <2>1. UNCHANGED queueVars /\ inflight # 0 /\ (Finished \/ Failed)
    BY <1>4 DEF SingleCallEnds, TypeInv, AtWork
  <2>2. CASE Finished
    BY <1>0, <2>1, <2>2, PlacesFinished
  <2>3. CASE Failed
    BY <2>1, <2>3, PlacesKept DEF Failed
  <2> QED BY <2>1, <2>2, <2>3
<1>5. CASE RedundantCallEnds
  <2>1. /\ UNCHANGED queueVars /\ inflight # 0
        /\ Finished \/ UNCHANGED <<done, inflight>>
    BY <1>5 DEF RedundantCallEnds, TypeInv, AtWork
  <2>2. CASE Finished
    BY <1>0, <2>1, <2>2, PlacesFinished
  <2>3. CASE UNCHANGED <<done, inflight>>
    BY <2>1, <2>3, PlacesKept
  <2> QED BY <2>1, <2>2, <2>3
<1>6. CASE Produce
  BY <1>0, <1>6, PlacesProduce
<1>7. CASE ClearQueue
  BY <1>0, <1>7, PlacesClear
<1> QED BY <1>1, <1>2, <1>3, <1>4, <1>5, <1>6, <1>7 DEF Next, Sender

-----------------------------------------------------------------------------
(* What the counters miss. *)

(* A call is under way. *)
Calling == pc \in {"single", "redundant"}

(* A message of which a bundle went out off link is in flight or done; if it is
   telemetry, it is not sent off link again; and a redundant send uses links. *)
Escapes ==
    /\ \A m \in 1..MaxMessages : offLink[m] > 0 => m = inflight \/ m \in done
    /\ EscapesOnce
    /\ pc = "single" /\ None \in pending /\ Telemetry(inflight)
          => offLink[inflight] = 0
    /\ pc = "redundant" => pending \subseteq Links

(* Finished messages are counted; so is a copy of the message in flight that
   has been sent, ahead of the other copy. *)
OneAhead == IF pc = "redundant" /\ succeeded # {} THEN 1 ELSE 0
Total == bundles["wifi"] + bundles["lte"]
DoneCounted == IsFiniteSet(done) /\ Cardinality(DoneOnLink) + OneAhead <= Total

(* What starting a dispatch does to the links of the calls. *)
LEMMA DispatchLinks ==
    ASSUME NEW m, NEW how, Dispatch(m, how)
    PROVE  /\ pc' = "redundant" => pending' \subseteq Links /\ succeeded' = {}
           /\ pc' = "single" => /\ pending' = {activeLink}
                                /\ how # "redundant" \/ ~Telemetry(m)
BY DEF Dispatch, BeginSingle, BeginRedundant, ConnectFails

LEMMA NoneIsNoLink == None \notin Links
BY DEF None, Links, Link!None, Link!Links

LEMMA EscapesKept ==
    ASSUME Escapes, UNCHANGED <<offLink, done>>,
           inflight' = inflight \/ inflight = 0, QueueType,
           ~Calling' \/ UNCHANGED <<pc, pending, inflight>>
    PROVE  Escapes'
<1>1. \A m \in 1..MaxMessages : m # 0
  BY MessagesAssumption
<1> QED BY <1>1 DEF Escapes, EscapesOnce, Calling

LEMMA EscapesDispatch ==
    ASSUME TypeInv, Escapes, UNCHANGED <<offLink, done>>, NEW how,
           Dispatch(inflight', how), inflight' \in 1..MaxMessages,
           \/ inflight' = inflight /\ (how = "redundant" \/ activeLink # None)
           \/ inflight = 0 /\ inflight' \notin done
    PROVE  Escapes'
<1>1. \A m \in 1..MaxMessages : m # 0
  BY MessagesAssumption
<1>2. \A m \in 1..MaxMessages : offLink'[m] > 0 => m = inflight' \/ m \in done'
  BY <1>1 DEF Escapes
<1>3. pc' = "redundant" => pending' \subseteq Links
  BY DispatchLinks
<1>4. ASSUME pc' = "single", None \in pending', Telemetry(inflight')
      PROVE  offLink'[inflight'] = 0
  <2>1. activeLink = None /\ how # "redundant"
    BY <1>4, DispatchLinks
  <2>2. inflight = 0 /\ inflight' \notin done
    BY <2>1
  <2>3. ~(offLink[inflight'] > 0)
    BY <1>1, <2>2 DEF Escapes
  <2>4. offLink[inflight'] \in Nat
    BY DEF TypeInv, EscapeType
  <2> QED BY <2>3, <2>4
<1>5. EscapesOnce'
  BY DEF Escapes, EscapesOnce
<1> QED BY <1>2, <1>3, <1>4, <1>5 DEF Escapes

LEMMA EscapesCall ==
    ASSUME TypeInv, Escapes, SingleCallEnds \/ RedundantCallEnds
    PROVE  Escapes'
<1>1. inflight \in 1..MaxMessages /\ Calling
  BY MessagesAssumption
     DEF SingleCallEnds, RedundantCallEnds, TypeInv, AtWork, QueueType, Calling
<1>2. PICK l \in pending : CallReturns(l) \/ CallRaises(l)
  BY DEF SingleCallEnds, RedundantCallEnds
<1>3. Accept(l) \/ UNCHANGED offLink
  BY <1>2 DEF CallReturns, CallRaises
<1>4. /\ Finished \/ UNCHANGED <<done, inflight>>
      /\ pending' \subseteq pending
      /\ pc' = "redundant" => pc = "redundant"
      /\ pc' # "single"
  BY DEF SingleCallEnds, RedundantCallEnds, Failed
<1>5. UNCHANGED offLink \/
      (/\ l = None /\ pc = "single"
       /\ offLink'[inflight] = offLink[inflight] + 1
       /\ \A m \in 1..MaxMessages : m # inflight => offLink'[m] = offLink[m])
  <2>1. CASE Accept(l) /\ l = None
    <3>1. pc = "single"
      BY <1>1, <1>2, <2>1, NoneIsNoLink DEF Escapes, Calling
    <3> QED BY <1>1, <2>1, <3>1, AcceptEscapes DEF TypeInv
  <2>2. CASE Accept(l) /\ l # None
    BY <1>1, <2>2, AcceptEscapes DEF TypeInv
  <2> QED BY <1>3, <2>1, <2>2
<1>6. \A m \in 1..MaxMessages : offLink'[m] > 0 => m = inflight' \/ m \in done'
  <2>1. \A m \in 1..MaxMessages : m = inflight \/ m \in done => m = inflight' \/ m \in done'
    BY <1>4 DEF Finished
  <2> QED BY <1>5, <2>1 DEF Escapes
<1>7. EscapesOnce'
  BY <1>1, <1>2, <1>5 DEF Escapes, EscapesOnce
<1> QED BY <1>4, <1>6, <1>7 DEF Escapes

LEMMA EscapesStep ==
    ASSUME TypeInv, TypeInv', Places, Places', Escapes, [Next]_vars
    PROVE  Escapes'
<1> USE DEF uD3TNVars, callVars
<1>0. QueueType /\ QueueType'
  BY DEF TypeInv
<1>1. CASE LoopTop
  <2>1. UNCHANGED <<offLink, done, inflight>>
    BY <1>1 DEF LoopTop
  <2>2. CASE Link!NoUsableLink \/ inflight = 0
    <3>1. ~Calling'
      BY <1>1, <2>2 DEF LoopTop, Calling
    <3> QED BY <1>0, <2>1, <3>1, EscapesKept
  <2>3. CASE ~Link!NoUsableLink /\ inflight # 0
    <3>1. Dispatch(inflight', mode)
      BY <1>1, <2>1, <2>3 DEF LoopTop
    <3>2. mode = "redundant" \/ activeLink # None
      BY <2>3 DEF Link!NoUsableLink, None
    <3>3. inflight' \in 1..MaxMessages
      BY <1>0, <2>1, <2>3, MessagesAssumption DEF QueueType
    <3> QED BY <2>1, <3>1, <3>2, <3>3, EscapesDispatch
  <2> QED BY <2>2, <2>3
<1>2. CASE GotMessage
  <2>1. /\ UNCHANGED <<offLink, done>> /\ inflight = 0
        /\ queue # << >> /\ inflight' = Head(queue)
        /\ Dispatch(inflight', loopMode)
    BY <1>2 DEF GotMessage, TypeInv, AtWork
  <2>2. inflight' \in 1..MaxMessages
    BY <1>0, <2>1, HeadAndTail
  <2>3. inflight' \notin done
    BY <2>1 DEF Places, Left, Gone
  <2> QED BY <2>1, <2>2, <2>3, EscapesDispatch
<1>3. CASE SingleCallEnds \/ RedundantCallEnds
  BY <1>3, EscapesCall
<1>4. CASE LinkEventSeen \/ GetTimesOut \/ BackoffEnds
  BY <1>0, <1>4, EscapesKept DEF LinkEventSeen, GetTimesOut, BackoffEnds, Failed, Calling
<1>5. CASE Produce \/ ClearQueue \/ LinkManagerStep \/ UNCHANGED vars
  BY <1>0, <1>5, EscapesKept DEF Produce, ClearQueue, LinkManagerStep, vars
<1> QED BY <1>1, <1>2, <1>3, <1>4, <1>5 DEF Next, Sender

LEMMA OneMoreMember ==
    ASSUME NEW S, IsFiniteSet(S), NEW m, NEW T, T \subseteq S \cup {m}
    PROVE  /\ Cardinality(S) \in Nat /\ Cardinality(T) \in Nat
           /\ Cardinality(T) <= Cardinality(S) + 1
           /\ T \subseteq S => Cardinality(T) <= Cardinality(S)
<1>1. Cardinality(S) \in Nat
  BY FS_CardinalityType
<1>2. IsFiniteSet(S \cup {m}) /\ Cardinality(S \cup {m}) \in Nat
      /\ Cardinality(S \cup {m}) <= Cardinality(S) + 1
  BY <1>1, FS_AddElement
<1>3. IsFiniteSet(T) /\ Cardinality(T) <= Cardinality(S \cup {m})
  BY <1>2, FS_Subset
<1>4. Cardinality(T) \in Nat
  BY <1>3, FS_CardinalityType
<1>5. T \subseteq S => Cardinality(T) <= Cardinality(S)
  BY FS_Subset
<1> QED BY <1>1, <1>2, <1>3, <1>4, <1>5

LEMMA TotalNat == CounterType => Total \in Nat
BY DEF CounterType, Total, Links, Link!Links

(* The count of an AAP call that ends. *)
LEMMA TotalCall ==
    ASSUME CounterType, NEW l \in Links \cup {None}, CallReturns(l) \/ CallRaises(l)
    PROVE  /\ CallReturns(l) /\ l \in Links => Total' = Total + 1
           /\ CallReturns(l) /\ l \notin Links => Total' = Total
           /\ CallRaises(l) => Total' = Total
<1>1. ASSUME CallReturns(l) PROVE Total' = IF l \in Links THEN Total + 1 ELSE Total
  <2>1. bundles' = Add(bundles, {l})
    BY <1>1 DEF CallReturns
  <2>2. /\ "wifi" \in Links /\ "lte" \in Links
        /\ l \in Links <=> l = "wifi" \/ l = "lte"
    BY DEF Links, Link!Links
  <2>3. bundles["wifi"] \in Nat /\ bundles["lte"] \in Nat
    BY <2>2 DEF CounterType
  <2>4. \A k \in Links : bundles'[k] = IF k = l THEN bundles[k] + 1 ELSE bundles[k]
    BY <2>1 DEF Add
  <2>5. /\ bundles'["wifi"] = IF l = "wifi" THEN bundles["wifi"] + 1 ELSE bundles["wifi"]
        /\ bundles'["lte"] = IF l = "lte" THEN bundles["lte"] + 1 ELSE bundles["lte"]
    BY <2>2, <2>4
  <2>6. CASE l = "wifi"
    BY <2>2, <2>3, <2>5, <2>6 DEF Total
  <2>7. CASE l = "lte"
    BY <2>2, <2>3, <2>5, <2>7 DEF Total
  <2>8. CASE l # "wifi" /\ l # "lte"
    BY <2>2, <2>5, <2>8 DEF Total
  <2> QED BY <2>6, <2>7, <2>8
<1>2. ASSUME CallRaises(l) PROVE Total' = Total
  BY <1>2 DEF CallRaises, Total
<1> QED BY <1>1, <1>2

LEMMA DoneCountedKept ==
    ASSUME TypeInv, DoneCounted, UNCHANGED <<offLink, done, bundles>>,
           \/ pc' # "redundant" \/ succeeded' = {}
           \/ UNCHANGED <<pc, succeeded>>
    PROVE  DoneCounted'
<1>1. DoneOnLink' = DoneOnLink /\ Total' = Total
  BY DEF DoneOnLink, Total
<1>2. IsFiniteSet(DoneOnLink)
  BY FS_Subset DEF DoneCounted, DoneOnLink
<1>3. Cardinality(DoneOnLink) \in Nat
  BY <1>2, FS_CardinalityType
<1>4. OneAhead' <= OneAhead /\ OneAhead \in {0, 1} /\ OneAhead' \in {0, 1}
  BY DEF OneAhead
<1>5. Total \in Nat
  BY TotalNat DEF TypeInv
<1> QED BY <1>1, <1>3, <1>4, <1>5 DEF DoneCounted

LEMMA DoneCountedCall ==
    ASSUME TypeInv, Escapes, DoneCounted, SingleCallEnds \/ RedundantCallEnds
    PROVE  DoneCounted'
<1>1. inflight \in 1..MaxMessages /\ done \subseteq 1..MaxMessages
  BY MessagesAssumption
     DEF SingleCallEnds, RedundantCallEnds, TypeInv, AtWork, QueueType
<1>2. PICK l \in pending :
         /\ \/ SingleCallEnds /\ CallReturns(l) /\ Finished
            \/ SingleCallEnds /\ CallRaises(l) /\ Failed
            \/ RedundantCallEnds /\ (CallReturns(l) \/ CallRaises(l))
         /\ CallReturns(l) \/ CallRaises(l)
  BY DEF SingleCallEnds, RedundantCallEnds
<1>3. l \in Links \cup {None} /\ Total \in Nat
  BY <1>2, TotalNat DEF TypeInv, CallType
<1>4. \A m \in 1..MaxMessages : offLink'[m] = 0 => offLink[m] = 0
  <2>1. CASE Accept(l) /\ l = None
    <3>1. offLink'[inflight] = offLink[inflight] + 1 /\ offLink[inflight] \in Nat
          /\ \A m \in 1..MaxMessages : m # inflight => offLink'[m] = offLink[m]
      BY <1>1, <2>1, AcceptEscapes DEF TypeInv, EscapeType
    <3> QED BY <3>1
  <2>2. CASE UNCHANGED offLink
    BY <2>2
  <2> QED BY <1>1, <1>2, <2>1, <2>2, AcceptEscapes DEF CallReturns, CallRaises, TypeInv
<1>5. DoneOnLink' \subseteq DoneOnLink \cup {inflight}
  <2>1. Finished \/ UNCHANGED done
    BY DEF SingleCallEnds, RedundantCallEnds, Failed
  <2> QED BY <1>1, <1>4, <2>1 DEF Finished, DoneOnLink
<1>6. ASSUME done' = done \/ (l \notin Links /\ CallReturns(l))
      PROVE  DoneOnLink' \subseteq DoneOnLink
  <2>1. CASE done' = done
    BY <1>1, <1>4, <2>1 DEF DoneOnLink
  <2>2. CASE l \notin Links /\ CallReturns(l)
    <3>1. Accept(l) /\ l = None
      BY <1>3, <2>2 DEF CallReturns
    <3>2. offLink'[inflight] = offLink[inflight] + 1 /\ offLink[inflight] \in Nat
      BY <1>1, <3>1, AcceptEscapes DEF TypeInv, EscapeType
    <3>3. inflight \notin DoneOnLink'
      BY <3>2 DEF DoneOnLink
    <3> QED BY <1>5, <3>3
  <2> QED BY <1>6, <2>1, <2>2
<1>7. IsFiniteSet(done') /\ IsFiniteSet(DoneOnLink)
  <2>1. done' = done \/ done' = done \cup {inflight}
    BY DEF SingleCallEnds, RedundantCallEnds, Failed, Finished
  <2>2. IsFiniteSet(done')
    BY <2>1, FS_AddElement DEF DoneCounted
  <2>3. IsFiniteSet(DoneOnLink)
    BY FS_Subset DEF DoneCounted, DoneOnLink
  <2> QED BY <2>2, <2>3
<1>8. PICK before, after : before = Cardinality(DoneOnLink) /\ after = Cardinality(DoneOnLink')
  OBVIOUS
<1>9. before \in Nat /\ after \in Nat /\ after <= before + 1
  BY <1>5, <1>7, <1>8, OneMoreMember
<1>10. ASSUME done' = done \/ (l \notin Links /\ CallReturns(l))
       PROVE  after <= before
  <2>1. DoneOnLink' \subseteq DoneOnLink
    BY <1>6, <1>10
  <2> QED BY <2>1, <1>7, <1>8, FS_Subset
<1>11. before + OneAhead <= Total
  BY <1>8 DEF DoneCounted
<1>12. after + OneAhead' <= Total'
  <2>1. CASE SingleCallEnds
    <3>1. OneAhead = 0 /\ OneAhead' = 0
      BY <2>1 DEF SingleCallEnds, OneAhead
    <3>2. CASE CallReturns(l) /\ l \in Links
      <4>1. Total' = Total + 1
        BY <1>3, <3>2, TotalCall DEF TypeInv
      <4> QED BY <1>3, <1>9, <1>11, <3>1, <4>1
    <3>3. CASE CallReturns(l) /\ l \notin Links
      <4>1. Total' = Total
        BY <1>3, <3>3, TotalCall DEF TypeInv
      <4> QED BY <1>3, <1>9, <1>10, <1>11, <3>1, <3>3, <4>1
    <3>4. CASE ~CallReturns(l)
      <4>1. CallRaises(l) /\ done' = done
        BY <1>2, <2>1, <3>4 DEF SingleCallEnds, RedundantCallEnds, Failed
      <4>2. Total' = Total
        BY <1>3, <4>1, TotalCall DEF TypeInv
      <4> QED BY <1>3, <1>9, <1>10, <1>11, <3>1, <4>1, <4>2
    <3> QED BY <3>2, <3>3, <3>4
  <2>2. CASE RedundantCallEnds
    <3>1. l \in Links /\ pc = "redundant"
      BY <1>2, <2>2 DEF RedundantCallEnds, Escapes
    <3>2. (OneAhead' = 0 \/ OneAhead' = 1) /\ (OneAhead = 0 \/ OneAhead = 1)
      BY DEF OneAhead
    <3>3. CASE CallReturns(l)
      <4>1. Total' = Total + 1
        BY <1>3, <3>1, <3>3, TotalCall DEF TypeInv
      <4>2. done' = done \/ OneAhead' = 0
        BY <2>2, <3>2 DEF RedundantCallEnds, OneAhead
      <4>3. CASE OneAhead' = 0
        BY <1>3, <1>9, <1>11, <3>2, <4>1, <4>3
      <4>4. CASE OneAhead' = 1
        <5>1. after <= before
          BY <1>10, <4>2, <4>4
        <5> QED BY <1>3, <1>9, <1>11, <3>2, <4>1, <4>4, <5>1
      <4> QED BY <3>2, <4>3, <4>4
    <3>4. CASE ~CallReturns(l)
      <4>1. CallRaises(l) /\ UNCHANGED succeeded
        BY <1>2, <3>4 DEF CallRaises
      <4>2. Total' = Total
        BY <1>3, <4>1, TotalCall DEF TypeInv
      <4>3. \/ OneAhead = 1 /\ OneAhead' = 0
            \/ done' = done /\ OneAhead' = OneAhead
            \/ done' = done /\ OneAhead' = 0
        BY <2>2, <3>1, <3>2, <4>1 DEF RedundantCallEnds, OneAhead
      <4>4. CASE OneAhead = 1 /\ OneAhead' = 0
        BY <1>3, <1>9, <1>11, <4>2, <4>4
      <4>5. CASE done' = done /\ OneAhead' = OneAhead
        <5>1. after <= before
          BY <1>10, <4>5
        <5>2. CASE OneAhead = 1
          BY <1>3, <1>9, <1>11, <4>2, <4>5, <5>1, <5>2
        <5>3. CASE OneAhead = 0
          BY <1>3, <1>9, <1>11, <4>2, <4>5, <5>1, <5>3
        <5> QED BY <3>2, <5>2, <5>3
      <4>6. CASE done' = done /\ OneAhead' = 0
        <5>1. after <= before
          BY <1>10, <4>6
        <5> QED BY <1>3, <1>9, <1>11, <3>2, <4>2, <4>6, <5>1
      <4> QED BY <4>3, <4>4, <4>5, <4>6
    <3> QED BY <3>3, <3>4
  <2> QED BY <2>1, <2>2
<1> QED BY <1>7, <1>8, <1>12 DEF DoneCounted

LEMMA DoneCountedStep ==
    ASSUME TypeInv, Escapes, DoneCounted, [Next]_vars
    PROVE  DoneCounted'
<1> USE DEF uD3TNVars, callVars, counterVars
<1>1. CASE LoopTop \/ GotMessage
  <2>1. UNCHANGED <<offLink, done, bundles>>
    BY <1>1 DEF LoopTop, GotMessage
  <2>2. pc' # "redundant" \/ succeeded' = {}
    BY <1>1, DispatchLinks DEF LoopTop, GotMessage
  <2> QED BY <2>1, <2>2, DoneCountedKept
<1>2. CASE SingleCallEnds \/ RedundantCallEnds
  BY <1>2, DoneCountedCall
<1>3. CASE LinkEventSeen \/ GetTimesOut \/ BackoffEnds
  BY <1>3, DoneCountedKept DEF LinkEventSeen, GetTimesOut, BackoffEnds, Failed
<1>4. CASE Produce \/ ClearQueue \/ LinkManagerStep \/ UNCHANGED vars
  BY <1>4, DoneCountedKept DEF Produce, ClearQueue, LinkManagerStep, vars
<1> QED BY <1>1, <1>2, <1>3, <1>4 DEF Next, Sender

CounterInv == TypeInv /\ Places /\ Escapes /\ DoneCounted

LEMMA CounterInvariance == Spec => []CounterInv
<1>1. Init => CounterInv
  <2> SUFFICES ASSUME Init PROVE CounterInv
    OBVIOUS
  <2>1. Places
    BY DEF Init, Places, Lined, Left, OlderGone, Behind, Gone
  <2>2. Escapes
    BY DEF Init, Escapes, EscapesOnce
  <2>3. DoneCounted
    <3>1. DoneOnLink = {} /\ OneAhead = 0 /\ done = {}
      BY DEF Init, DoneOnLink, OneAhead
    <3>2. Total = 0
      BY DEF Init, Total, Links, Link!Links
    <3> QED BY <3>1, <3>2, FS_EmptySet DEF DoneCounted
  <2> QED BY <2>1, <2>2, <2>3, TypeInvInit DEF CounterInv
<1>2. CounterInv /\ [Next]_vars => CounterInv'
  BY TypeInvStep, PlacesStep, EscapesStep, DoneCountedStep DEF CounterInv
<1> QED BY <1>1, <1>2, PTL DEF Spec

(* What the per-link counters tell of the bundles, whatever failures,
   confirmations that came late, half-failed pairs and changes of link and mode
   there were: a link's counter never claims more than uD3TN accepted on the
   link, and misses no more than its failures; a telemetry message goes out off
   link, where no counter counts, at most once; and the finished messages that
   never did are all in the counters. *)
THEOREM CountersAlwaysBracket == Spec => []CountersBracketAccepted
<1>1. CounterInv => CountersBracketAccepted
  <2> SUFFICES ASSUME CounterInv PROVE CountersBracketAccepted
    OBVIOUS
  <2>1. IsFiniteSet(DoneOnLink)
    BY FS_Subset DEF CounterInv, DoneCounted, DoneOnLink
  <2>2. Cardinality(DoneOnLink) \in Nat /\ Total \in Nat /\ OneAhead \in {0, 1}
    BY <2>1, FS_CardinalityType, TotalNat DEF CounterInv, TypeInv, OneAhead
  <2>3. Cardinality(DoneOnLink) <= Total
    BY <2>2 DEF CounterInv, DoneCounted
  <2> QED BY <2>3 DEF CountersBracketAccepted, CounterInv, TypeInv, Escapes, Total
<1> QED BY <1>1, CounterInvariance, PTL

-----------------------------------------------------------------------------
(* Whatever is accepted in a step is a bundle of the message in flight. *)
LEMMA AcceptedStep ==
    ASSUME TypeInv, [Next]_vars
    PROVE  accepted' \subseteq accepted \/
           /\ inflight # 0 /\ pc \in {"single", "redundant"}
           /\ \A b \in accepted' : b \in accepted \/ (b.id = inflight /\ b.tag = tag)
<1> USE DEF uD3TNVars
<1>1. ASSUME NEW l, CallReturns(l) \/ CallRaises(l)
      PROVE  accepted' \subseteq accepted \cup {Bundle(l)}
  BY <1>1 DEF CallReturns, CallRaises, Accept
<1>2. \A l : Bundle(l).id = inflight /\ Bundle(l).tag = tag
  BY DEF Bundle
<1>3. CASE SingleCallEnds \/ RedundantCallEnds
  <2>1. inflight # 0 /\ pc \in {"single", "redundant"}
    BY <1>3 DEF SingleCallEnds, RedundantCallEnds, TypeInv, AtWork
  <2>2. PICK l \in pending : CallReturns(l) \/ CallRaises(l)
    BY <1>3 DEF SingleCallEnds, RedundantCallEnds
  <2> QED BY <1>1, <1>2, <2>1, <2>2
<1>4. CASE LoopTop \/ LinkEventSeen \/ GotMessage \/ GetTimesOut \/ BackoffEnds
  <2>1. accepted' = accepted
    BY <1>4 DEF LoopTop, LinkEventSeen, GotMessage, GetTimesOut, BackoffEnds
  <2> QED BY <2>1
<1>5. CASE Produce \/ ClearQueue \/ LinkManagerStep \/ UNCHANGED vars
  <2>1. accepted' = accepted
    BY <1>5 DEF Produce, ClearQueue, LinkManagerStep, vars
  <2> QED BY <2>1
<1> QED BY <1>3, <1>4, <1>5 DEF Next, Sender

LEMMA GoneGrows ==
    ASSUME [Next]_vars
    PROVE  Gone \subseteq Gone'
<1> USE DEF queueVars, Gone
<1>1. CASE SingleCallEnds \/ RedundantCallEnds
  BY <1>1 DEF SingleCallEnds, RedundantCallEnds, Finished, Failed
<1>2. CASE LoopTop \/ LinkEventSeen \/ GotMessage \/ GetTimesOut \/ BackoffEnds
  BY <1>2 DEF LoopTop, LinkEventSeen, GotMessage, GetTimesOut, BackoffEnds, Failed
<1>3. CASE Produce \/ ClearQueue \/ LinkManagerStep \/ UNCHANGED vars
  BY <1>3 DEF Produce, ClearQueue, LinkManagerStep, vars
<1> QED BY <1>1, <1>2, <1>3 DEF Next, Sender

(* Sessions are tagged in order: what uD3TN has accepted was tagged no later
   than the bundle of the call under way, and that no later than now. *)
TagsBehind ==
    /\ \A b \in accepted : Telemetry(b.id) => b.tag.session <= session
    /\ Calling =>
         /\ tag.session <= session
         /\ Telemetry(inflight) =>
              \A b \in accepted : Telemetry(b.id) => b.tag.session <= tag.session

LEMMA SessionsNat ==
    ASSUME TypeInv
    PROVE  /\ session \in Nat /\ tag.session \in Nat
           /\ \A b \in accepted : b.id \in Nat /\ b.tag.session \in Nat
BY ServiceAssumption, MessagesAssumption
   DEF TypeInv, LinkType, CallType, BundleType, Tags

LEMMA DispatchTags ==
    ASSUME NEW m, NEW how, Dispatch(m, how), Calling'
    PROVE  tag'.session = session \/ (~Telemetry(m) /\ tag'.session = 0)
BY DEF Dispatch, BeginSingle, BeginRedundant, ConnectFails, NoTag, Calling

(* Nothing is accepted, and a call under way goes on. *)
LEMMA TagsKept ==
    ASSUME TypeInv, TagsBehind, UNCHANGED accepted,
           UNCHANGED session \/ session' = session + 1,
           ~Calling' \/ UNCHANGED <<pc, inflight, tag>>
    PROVE  TagsBehind'
<1>1. \A n \in Nat : n <= session => n <= session'
  BY SessionsNat
<1> QED BY <1>1, SessionsNat DEF TagsBehind, Calling

LEMMA TagsDispatch ==
    ASSUME TypeInv, TagsBehind, UNCHANGED <<accepted, session>>,
           NEW how, Dispatch(inflight', how)
    PROVE  TagsBehind'
<1>1. CASE Calling'
  <2>1. tag'.session = session \/ (~Telemetry(inflight') /\ tag'.session = 0)
    BY <1>1, DispatchTags
  <2> QED BY <2>1, SessionsNat DEF TagsBehind
<1>2. CASE ~Calling'
  BY <1>2, TagsKept
<1> QED BY <1>1, <1>2

LEMMA TagsStep ==
    ASSUME TypeInv, TagsBehind, [Next]_vars
    PROVE  TagsBehind'
<1> USE DEF linkVars, callVars, uD3TNVars
<1>1. CASE LoopTop
  <2>1. CASE Link!NoUsableLink
    BY <1>1, <2>1, TagsKept DEF LoopTop, Link!ClearEvent, Calling
  <2>2. CASE ~Link!NoUsableLink /\ inflight = 0
    BY <1>1, <2>2, TagsKept DEF LoopTop, Calling
  <2>3. CASE ~Link!NoUsableLink /\ inflight # 0
    <3>1. Dispatch(inflight', mode) /\ UNCHANGED <<accepted, session>>
      BY <1>1, <2>3 DEF LoopTop
    <3> QED BY <3>1, TagsDispatch
  <2> QED BY <2>1, <2>2, <2>3
<1>2. CASE GotMessage
  <2>1. Dispatch(inflight', loopMode) /\ UNCHANGED <<accepted, session>>
    BY <1>2 DEF GotMessage
  <2> QED BY <2>1, TagsDispatch
<1>3. CASE SingleCallEnds \/ RedundantCallEnds
  <2>1. /\ UNCHANGED <<session, tag>>
        /\ Calling' => Calling /\ UNCHANGED inflight
    BY <1>3 DEF SingleCallEnds, RedundantCallEnds, Calling
  <2>2. ASSUME NEW b \in accepted', Telemetry(b.id)
        PROVE  /\ b.tag.session <= session
               /\ Calling' /\ Telemetry(inflight) => b.tag.session <= tag.session
    <3>1. CASE b \in accepted
      BY <2>1, <2>2, <3>1 DEF TagsBehind, Calling
    <3>2. CASE b \notin accepted
      <4>1. b.tag = tag /\ Calling
        BY <3>2, AcceptedStep DEF Calling
      <4> QED BY <4>1, SessionsNat DEF TagsBehind
    <3> QED BY <3>1, <3>2
  <2>3. Calling' => tag.session <= session
    BY <2>1 DEF TagsBehind, Calling
  <2> QED BY <2>1, <2>2, <2>3 DEF TagsBehind
<1>4. CASE LinkEventSeen \/ GetTimesOut \/ BackoffEnds
  BY <1>4, TagsKept DEF LinkEventSeen, GetTimesOut, BackoffEnds, Calling
<1>5. CASE LinkManagerStep
  BY <1>5, TagsKept DEF LinkManagerStep, Link!ChangeMode, Link!ChangeLink
<1>6. CASE Produce \/ ClearQueue \/ UNCHANGED vars
  BY <1>6, TagsKept DEF Produce, ClearQueue, vars
<1> QED BY <1>1, <1>2, <1>3, <1>4, <1>5, <1>6 DEF Next, Sender

(* What uD3TN has a bundle of is in flight or done; it is not in the queue,
   and cannot be cleared any more. *)
AcceptedHeld == \A b \in accepted : b.id = inflight \/ b.id \in done

LEMMA HoldStep ==
    ASSUME TypeInv, [Next]_vars
    PROVE  /\ done' = done \/ (done' = done \cup {inflight})
           /\ inflight # 0 => inflight' = inflight \/ inflight \in done'
<1> USE DEF queueVars
<1>1. CASE SingleCallEnds \/ RedundantCallEnds
  BY <1>1 DEF SingleCallEnds, RedundantCallEnds, Finished, Failed
<1>2. CASE LoopTop \/ LinkEventSeen \/ GotMessage \/ GetTimesOut \/ BackoffEnds
  BY <1>2 DEF LoopTop, LinkEventSeen, GotMessage, GetTimesOut, BackoffEnds, Failed,
              TypeInv, AtWork
<1>3. CASE Produce \/ ClearQueue \/ LinkManagerStep \/ UNCHANGED vars
  BY <1>3 DEF Produce, ClearQueue, LinkManagerStep, vars
<1> QED BY <1>1, <1>2, <1>3 DEF Next, Sender

LEMMA AcceptedHeldStep ==
    ASSUME TypeInv, AcceptedHeld, [Next]_vars
    PROVE  AcceptedHeld'
<1> SUFFICES ASSUME NEW b \in accepted' PROVE b.id = inflight' \/ b.id \in done'
  BY DEF AcceptedHeld
<1>1. \A a \in accepted : a.id # 0
  BY MessagesAssumption DEF TypeInv, BundleType
<1>2. b.id # 0 /\ (b.id = inflight \/ b.id \in done)
  BY <1>1, AcceptedStep DEF AcceptedHeld
<1> QED BY <1>2, HoldStep

SenderInv == TypeInv /\ Places /\ TagsBehind /\ SentInOrder /\ AcceptedHeld

LEMMA SentInOrderStep ==
    ASSUME SenderInv, [Next]_vars
    PROVE  SentInOrder'
<1>1. inflight \in Nat /\ inflight \notin Gone
  BY LengthNat DEF SenderInv, TypeInv, Places, Left
<1>2. \A b \in accepted : b.id \in Nat /\ (b.id <= inflight \/ inflight = 0)
  BY <1>1, SessionsNat DEF SenderInv, SentInOrder, Gone
<1>3. ASSUME NEW b \in accepted' PROVE 1..(b.id - 1) \subseteq Gone'
  <2>1. CASE b \in accepted
    BY <2>1, GoneGrows DEF SenderInv, SentInOrder, Gone
  <2>2. CASE b.id = inflight /\ inflight # 0
    <3>1. \A m \in 1..(inflight - 1) : m \in Gone
      BY <1>1 DEF SenderInv, Places, OlderGone
    <3> QED BY <2>2, <3>1, GoneGrows
  <2> QED BY <1>3, <2>1, <2>2, AcceptedStep DEF SenderInv
<1>4. ASSUME NEW a \in accepted', NEW b \in accepted',
             Telemetry(a.id), Telemetry(b.id), a.id < b.id
      PROVE  a.tag.session <= b.tag.session
  <2>1. CASE a \in accepted /\ b \in accepted
    BY <1>4, <2>1 DEF SenderInv, SentInOrder, SessionsInOrder
  <2>2. CASE a \in accepted /\ b \notin accepted
    <3>1. b.tag = tag /\ b.id = inflight /\ Calling
      BY <2>2, AcceptedStep DEF SenderInv, Calling
    <3> QED BY <1>4, <2>2, <3>1 DEF SenderInv, TagsBehind
  <2>3. CASE a \notin accepted
    <3>1. a.id = inflight /\ inflight # 0
      BY <2>3, AcceptedStep DEF SenderInv
    <3>2. b.id <= inflight /\ b.id \in Nat
      BY <1>1, <1>2, <3>1, AcceptedStep, SessionsNat DEF SenderInv
    <3> QED BY <1>1, <1>4, <3>1, <3>2
  <2> QED BY <2>1, <2>2, <2>3
<1> QED BY <1>3, <1>4 DEF SentInOrder, SessionsInOrder, Gone

LEMMA SenderInvariance == Spec => []SenderInv
<1>1. Init => SenderInv
  <2> SUFFICES ASSUME Init PROVE SenderInv
    OBVIOUS
  <2>1. Places
    BY DEF Init, Places, Lined, Left, OlderGone, Behind, Gone
  <2>2. SentInOrder /\ TagsBehind /\ AcceptedHeld
    BY DEF Init, SentInOrder, SessionsInOrder, TagsBehind, Calling, AcceptedHeld
  <2> QED BY <2>1, <2>2, TypeInvInit DEF SenderInv
<1>2. SenderInv /\ [Next]_vars => SenderInv'
  BY TypeInvStep, PlacesStep, TagsStep, SentInOrderStep, AcceptedHeldStep DEF SenderInv
<1> QED BY <1>1, <1>2, PTL DEF Spec

(* No message reaches uD3TN before every older one was finished or cleared,
   for any number of messages, and none carries an earlier session than an
   older one: with any failures, retries and changes of mode at any await, and
   with the queue cleared under a message in flight. *)
THEOREM AlwaysSentInOrder == Spec => []SentInOrder
<1>1. SenderInv => SentInOrder
  BY DEF SenderInv
<1> QED BY <1>1, SenderInvariance, PTL

LEMMA InOnePlace == SenderInv /\ DoneWasAccepted => NoMessageLost
<1> SUFFICES ASSUME SenderInv, DoneWasAccepted PROVE NoMessageLost
  OBVIOUS
<1>0. QueueType
  BY DEF SenderInv, TypeInv
<1>1. Behind \in Nat /\ Behind + Len(queue) = produced
  BY <1>0, LengthNat DEF SenderInv, Places, Lined, Behind
<1>2. \A m \in Nat : m \in Queued <=> Behind < m /\ m <= produced
  <2> SUFFICES ASSUME NEW m \in Nat
               PROVE  m \in Queued <=> Behind < m /\ m <= produced
    OBVIOUS
  <2>1. ASSUME m \in Queued PROVE Behind < m /\ m <= produced
    <3>1. PICK i \in 1..Len(queue) : m = queue[i]
      BY <2>1 DEF Queued
    <3>2. m = Behind + i
      BY <3>1 DEF SenderInv, Places, Lined
    <3> QED BY <3>2, <1>0, <1>1, LengthNat
  <2>2. ASSUME Behind < m, m <= produced PROVE m \in Queued
    <3>1. m - Behind \in 1..Len(queue)
      BY <2>2, <1>0, <1>1, LengthNat
    <3>2. queue[m - Behind] = Behind + (m - Behind)
      BY <3>1 DEF SenderInv, Places, Lined
    <3>3. queue[m - Behind] = m
      BY <3>2, <1>1
    <3> QED BY <3>1, <3>3 DEF Queued
  <2> QED BY <2>1, <2>2
<1>3. \A m \in Queued : m \in Nat
  <2> SUFFICES ASSUME NEW i \in 1..Len(queue) PROVE queue[i] \in Nat
    BY DEF Queued
  <2>1. queue[i] \in 1..MaxMessages
    BY <1>0, ElementOfSeq DEF QueueType
  <2> QED BY <2>1
<1>4. \A m \in Gone : m \in Nat
  BY <1>0, MembersNat
<1>5. \A m \in Nat : m \in Holding <=> m = inflight /\ m # 0
  BY DEF Holding
<1>6. \A m \in Holding : m \in Nat
  BY <1>0, LengthNat DEF Holding
<1>7. \A m \in Nat : m \in 1..Behind <=> m \in Holding \/ m \in Gone
  BY <1>5 DEF SenderInv, Places, Left
<1>8. \A m \in Nat : m \in 1..produced <=> m \in Queued \/ m \in 1..Behind
  BY <1>0, <1>1, <1>2, LengthNat
<1>9. \A m \in Nat : m \in Queued => m \notin 1..Behind
  BY <1>1, <1>2
<1>10. 1..produced = Queued \cup Holding \cup done \cup cleared
  <2>1. \A m \in Nat : m \in 1..produced <=> m \in Queued \cup Holding \cup Gone
    BY <1>7, <1>8
  <2>2. \A m \in Queued \cup Holding \cup Gone : m \in Nat
    BY <1>3, <1>4, <1>6
  <2>3. \A m \in 1..produced : m \in Nat
    OBVIOUS
  <2>4. 1..produced = Queued \cup Holding \cup Gone
    BY <2>1, <2>2, <2>3, Zenon
  <2> QED BY <2>4, Zenon DEF Gone
<1>11. Queued \cap (Holding \cup done \cup cleared) = {}
  BY <1>3, <1>7, <1>9, Zenon DEF Gone
<1>12. Holding \cap (done \cup cleared) = {} /\ done \cap cleared = {}
  BY DEF Holding, SenderInv, Places, Left, Gone
<1> QED BY <1>10, <1>11, <1>12 DEF NoMessageLost

(* Every message that was produced is in exactly one place, and is given up as
   sent only if uD3TN accepted a bundle of it: no failure, retry, half-failed
   pair of copies or change of mode loses one or finishes it twice. *)
THEOREM NothingLost == Spec => []NoMessageLost
BY InOnePlace, SenderInvariance, DoneOnlyAccepted, PTL

-----------------------------------------------------------------------------
(* The sender implements SenderService. *)

LEMMA HandOverInit == Init => HandOver!Init
BY DEF Init, Link!Init, HandOver!Init

LEMMA HandOverAttempt ==
    ASSUME SenderInv, DoneWasAccepted', SingleCallEnds \/ RedundantCallEnds
    PROVE  HandOver!Next
<1>1. /\ UNCHANGED <<session, produced, cleared>>
      /\ UNCHANGED done \/ done' = done \cup {inflight}
      /\ Calling
  BY DEF SingleCallEnds, RedundantCallEnds, Finished, Failed, linkVars, queueVars, Calling
<1>2. PICK m \in 1..produced : m = inflight /\ m \notin done \cup cleared
  <2>1. inflight # 0 /\ QueueType
    BY <1>1 DEF SenderInv, TypeInv, AtWork, Calling
  <2>2. inflight \in 1..Behind /\ Behind \in Nat /\ Behind <= produced
    BY <2>1, LengthNat DEF SenderInv, Places, Left, Lined, Behind
  <2>3. inflight \notin done \cup cleared
    BY DEF SenderInv, Places, Left, Gone
  <2> QED BY <2>1, <2>2, <2>3, LengthNat
<1>3. /\ HandOver!Outstanding(m)
      /\ \A n \in 1..(m - 1) : ~HandOver!Outstanding(n)
  BY <1>2 DEF SenderInv, Places, OlderGone, Gone, HandOver!Outstanding
<1>4. UNCHANGED done \/ (HandOver!Given(m)' /\ done' = done \cup {m})
  <2> SUFFICES ASSUME m \in done' PROVE HandOver!Given(m)'
    BY <1>1, <1>2
  <2>1. PICK b \in accepted' : b.id = m
    BY DEF DoneWasAccepted
  <2>2. [id |-> b.id, session |-> b.tag.session]
            \in {[id |-> c.id, session |-> c.tag.session] : c \in accepted'}
    OBVIOUS
  <2>3. [id |-> b.id, session |-> b.tag.session].id = m
    BY <2>1
  <2> QED BY <2>2, <2>3, Zenon DEF HandOver!Given
<1>5. UNCHANGED accepted \/ \E l : accepted' = accepted \cup {Bundle(l)}
  BY DEF SingleCallEnds, RedundantCallEnds, CallReturns, CallRaises, Accept
<1>6. CASE UNCHANGED accepted
  BY <1>1, <1>3, <1>4, <1>6 DEF HandOver!Next, HandOver!Attempt
<1>7. CASE \E l : accepted' = accepted \cup {Bundle(l)}
  <2>0. PICK s \in 0..session : s = tag.session
    BY <1>1, SessionsNat DEF SenderInv, TagsBehind
  <2>1. HandOver!InSessionOrder(m, s)
    <3>1. m \notin StatusMessages =>
            \A b \in accepted : Telemetry(b.id) => b.tag.session <= s
      BY <1>1, <1>2, <2>0 DEF SenderInv, TagsBehind, Telemetry
    <3> QED BY <3>1 DEF HandOver!InSessionOrder, Telemetry
  <2>2. {[id |-> b.id, session |-> b.tag.session] : b \in accepted'}
          = {[id |-> b.id, session |-> b.tag.session] : b \in accepted}
              \cup {[id |-> m, session |-> s]}
    <3>1. PICK l : accepted' = accepted \cup {Bundle(l)}
      BY <1>7
    <3>2. Bundle(l).id = m /\ Bundle(l).tag.session = s
      BY <1>2, <2>0 DEF Bundle
    <3> QED BY <3>1, <3>2
  <2>3. HandOver!Give(m, s)
    BY <2>1, <2>2 DEF HandOver!Give
  <2>4. HandOver!Attempt(m)
    BY <1>1, <1>3, <1>4, <2>3 DEF HandOver!Attempt
  <2> QED BY <2>4 DEF HandOver!Next
<1> QED BY <1>5, <1>6, <1>7

LEMMA HandOverClear ==
    ASSUME SenderInv, DoneWasAccepted, ClearQueue
    PROVE  HandOver!Next
<1>1. /\ UNCHANGED <<session, produced, accepted, done>>
      /\ cleared' = cleared \cup Queued
  BY DEF ClearQueue, Queued, linkVars, uD3TNVars
<1>2. /\ Queued \subseteq 1..produced
      /\ Queued \cap (Holding \cup done \cup cleared) = {}
  BY InOnePlace DEF NoMessageLost
<1>3. ASSUME NEW m \in Queued
      PROVE  HandOver!Outstanding(m) /\ ~HandOver!Given(m)
  <2>1. m \in 1..produced /\ m \notin Holding \cup done \cup cleared
    BY <1>2
  <2>2. m # 0 /\ m # inflight
    BY <2>1, LengthNat DEF Holding, SenderInv, TypeInv
  <2>3. \A b \in accepted : b.id # m
    BY <2>1, <2>2 DEF SenderInv, AcceptedHeld
  <2> QED BY <2>1, <2>3 DEF HandOver!Outstanding, HandOver!Given
<1>4. HandOver!Clear(Queued)
  BY <1>1, <1>3 DEF HandOver!Clear
<1> QED BY <1>2, <1>4 DEF HandOver!Next

LEMMA HandOverStep ==
    ASSUME SenderInv, DoneWasAccepted, DoneWasAccepted', [Next]_vars
    PROVE  [HandOver!Next]_(HandOver!vars)
<1> USE DEF linkVars, queueVars, uD3TNVars
<1>1. CASE SingleCallEnds \/ RedundantCallEnds
  BY <1>1, HandOverAttempt
<1>2. CASE LoopTop \/ LinkEventSeen \/ GotMessage \/ GetTimesOut \/ BackoffEnds \/ UNCHANGED vars
  <2>1. UNCHANGED <<session, produced, accepted, done, cleared>>
    BY <1>2 DEF LoopTop, LinkEventSeen, GotMessage, GetTimesOut, BackoffEnds, Failed,
                Link!ClearEvent, vars
  <2> QED BY <2>1 DEF HandOver!vars
<1>3. CASE Produce
  BY <1>3 DEF Produce, HandOver!Next, HandOver!Produce
<1>4. CASE ClearQueue
  BY <1>4, HandOverClear
<1>5. CASE LinkManagerStep
  <2>1. /\ UNCHANGED session \/ session' = session + 1
        /\ UNCHANGED <<produced, accepted, done, cleared>>
    BY <1>5 DEF LinkManagerStep, Link!ChangeMode, Link!ChangeLink
  <2> QED BY <2>1 DEF HandOver!Next, HandOver!NewSession, HandOver!vars
<1> QED BY <1>1, <1>2, <1>3, <1>4, <1>5 DEF Next, Sender

(* The sender implements SenderService: over failures, retries, half-failed
   pairs, changes of mode and cleared queues, the messages are handed to uD3TN
   in order, each until it is done, in sessions that never go back. *)
THEOREM Implementation == Spec => ImplementsHandOver
<1>1. SenderInv /\ DoneWasAccepted /\ DoneWasAccepted' /\ [Next]_vars
        => [HandOver!Next]_(HandOver!vars)
  BY HandOverStep
<1> QED BY <1>1, HandOverInit, SenderInvariance, DoneOnlyAccepted, PTL
        DEF Spec, ImplementsHandOver, HandOver!Spec
=============================================================================
