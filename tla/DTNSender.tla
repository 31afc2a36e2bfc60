----------------------------- MODULE DTNSender ------------------------------
(***************************************************************************)
(* The DTN sender of the Pi agent, pi-agent/dtn_sender: one coroutine that *)
(* takes messages from the queue one at a time and hands each to the local *)
(* uD3TN over AAP, as one bundle over the active link or, in redundant     *)
(* mode, as one copy per link.  A message stays in flight until a copy of  *)
(* it is accepted.                                                         *)
(*                                                                         *)
(* The coroutine reads the mode at the top of its loop and then awaits: it *)
(* waits for the link event, for the queue, for AAP in an executor thread, *)
(* and it sleeps after failures.  Commands and the link manager run at     *)
(* those awaits; they appear here as LinkService.  Connecting to AAP does  *)
(* not await.  An AAP call may fail although uD3TN took the bundle, when   *)
(* the confirmation is late or lost.                                       *)
(***************************************************************************)
EXTENDS Naturals, Sequences, FiniteSets

CONSTANTS
    Modes, InitialMode, MaxSession,  \* as in LinkService
    MaxMessages,     \* bound on the messages produced in one behaviour
    StatusMessages,  \* those of 1..MaxMessages that are GPS status messages
    MaxFaults        \* bound on failed AAP connects and sends

ASSUME MessagesAssumption ==
    /\ MaxMessages \in Nat
    /\ StatusMessages \subseteq 1..MaxMessages
    /\ MaxFaults \in Nat
ASSUME ServiceAssumption == InitialMode \in Modes /\ MaxSession \in Nat

VARIABLES
    mode, session, activeLink, linkEvent,  \* the link manager's, LinkService
    produced,  \* messages 1..produced have been put on the queue
    queue,     \* QueueManager._q, as message numbers
    inflight,  \* inflight, 0 when None
    pc,        \* the await of run() the coroutine is at
    loopMode,  \* `mode' as read at the top of the loop
    tag,       \* session and mode in the bundle being sent
    pending,   \* the links with an AAP call under way
    succeeded, \* the links whose call of this dispatch returned normally
    clients,   \* the AAP client pairs that are open
    bundles, failures, retries,  \* per-link counters
    faults,    \* AAP faults so far (auxiliary)
    accepted,  \* bundles uD3TN has accepted (auxiliary)
    handed,    \* how many bundles uD3TN accepted per link (auxiliary)
    offLink,   \* and, of each message, on the link "none" (auxiliary)
    done,      \* messages for which task_done was called (auxiliary)
    cleared    \* messages removed by the operator (auxiliary)

linkVars    == <<mode, session, activeLink, linkEvent>>
queueVars   == <<produced, queue, cleared>>
callVars    == <<tag, pending, succeeded>>
counterVars == <<bundles, failures, retries>>
uD3TNVars   == <<faults, accepted, handed, offLink>>
vars == <<linkVars, queueVars, inflight, pc, loopMode, callVars, clients,
          counterVars, uD3TNVars, done>>

Link == INSTANCE LinkService

Links == Link!Links
None  == Link!None
Telemetry(m) == m \notin StatusMessages
NoTag == [session |-> 0, mode |-> None]

Init ==
    /\ Link!Init
    /\ produced = 0
    /\ queue = << >>
    /\ inflight = 0
    /\ pc = "top"
    /\ loopMode = InitialMode
    /\ tag = NoTag
    /\ pending = {}
    /\ succeeded = {}
    /\ clients = {}
    /\ bundles = [l \in Links |-> 0]
    /\ failures = [l \in Links |-> 0]
    /\ retries = [l \in Links |-> 0]
    /\ faults = 0
    /\ accepted = {}
    /\ handed = [l \in Links |-> 0]
    /\ offLink = [m \in 1..MaxMessages |-> 0]
    /\ done = {}
    /\ cleared = {}

Add(counter, ls) ==
    [l \in Links |-> IF l \in ls THEN counter[l] + 1 ELSE counter[l]]

-----------------------------------------------------------------------------
(* The steps that start a dispatch, up to their first await *)

(* _ensure_connected_single failed *)
ConnectFails ==
    /\ faults < MaxFaults
    /\ faults' = faults + 1
    /\ pc' = "backoff"
    /\ UNCHANGED callVars

(* _ensure_connected_single and _send_single *)
BeginSingle(m) ==
    \/ /\ "single" \notin clients
       /\ ConnectFails
       /\ UNCHANGED clients
    \/ /\ clients' = clients \cup {"single"}
       /\ tag' = IF Telemetry(m) THEN [session |-> session, mode |-> mode]
                 ELSE NoTag
       /\ pending' = {activeLink}
       /\ succeeded' = {}
       /\ pc' = "single"
       /\ UNCHANGED faults

(* _ensure_connected_redundant and _send_redundant; a side that cannot be
   connected takes no part *)
BeginRedundant ==
    \E sides \in SUBSET Links :
        /\ clients \cap Links \subseteq sides
        /\ clients' = clients \cup sides
        /\ \/ /\ sides = {}
              /\ ConnectFails
           \/ /\ sides # {}
              /\ IF sides = Links THEN UNCHANGED faults
                 ELSE faults < MaxFaults /\ faults' = faults + 1
              /\ tag' = [session |-> session, mode |-> "redundant"]
              /\ pending' = sides
              /\ succeeded' = {}
              /\ pc' = "redundant"

(* _dispatch *)
Dispatch(m, how) ==
    IF how = "redundant" /\ Telemetry(m) THEN BeginRedundant ELSE BeginSingle(m)

-----------------------------------------------------------------------------
(* run, from one await to the next *)

(* The top of the loop: read the mode; wait for a link if there is none. *)
LoopTop ==
    /\ pc = "top"
    /\ loopMode' = mode
    /\ UNCHANGED <<queueVars, inflight, counterVars, accepted, handed, offLink, done>>
    /\ IF Link!NoUsableLink
       THEN /\ Link!ClearEvent
            /\ pc' = "waitLink"
            /\ UNCHANGED <<callVars, clients, faults>>
       ELSE /\ UNCHANGED linkVars
            /\ IF inflight = 0
               THEN pc' = "get" /\ UNCHANGED <<callVars, clients, faults>>
               ELSE Dispatch(inflight, mode)

LinkEventSeen ==
    /\ pc = "waitLink"
    /\ linkEvent
    /\ pc' = "top"
    /\ UNCHANGED <<linkVars, queueVars, inflight, loopMode, callVars, clients,
                   counterVars, uD3TNVars, done>>

(* Mutant: the newest message is taken. *)
GotNewestMessage ==
    /\ pc = "get"
    /\ queue # << >>
    /\ inflight' = queue[Len(queue)]
    /\ queue' = SubSeq(queue, 1, Len(queue) - 1)
    /\ Dispatch(queue[Len(queue)], loopMode)
    /\ UNCHANGED <<linkVars, produced, cleared, loopMode, counterVars,
                   accepted, handed, offLink, done>>

(* The queue yields a message, which is dispatched for the mode read before. *)
GotMessage ==
    /\ pc = "get"
    /\ queue # << >>
    /\ inflight' = Head(queue)
    /\ queue' = Tail(queue)
    /\ Dispatch(Head(queue), loopMode)
    /\ UNCHANGED <<linkVars, produced, cleared, loopMode, counterVars,
                   accepted, handed, offLink, done>>

GetTimesOut ==
    /\ pc = "get"
    /\ queue = << >>
    /\ pc' = "top"
    /\ UNCHANGED <<linkVars, queueVars, inflight, loopMode, callVars, clients,
                   counterVars, uD3TNVars, done>>

(* Mutant: the per-link counters are replaced by those of one link. *)
RetriedOneLink == [l \in {activeLink} |-> 1]

(* _record_retry *)
Retried ==
    IF loopMode = "redundant" THEN Add(retries, Links)
    ELSE Add(retries, {activeLink})

Finished == done' = done \cup {inflight} /\ inflight' = 0 /\ UNCHANGED retries

(* Mutant: a failed message is dropped. *)
FailedIsDropped == retries' = Retried /\ UNCHANGED done /\ inflight' = 0

Failed == retries' = Retried /\ UNCHANGED <<done, inflight>>

(* One AAP call, _send_via_clients with AAPv1Client.send, ends. *)
Bundle(l) == [id |-> inflight, link |-> l, tag |-> tag]

Accept(l) ==
    /\ accepted' = accepted \cup {Bundle(l)}
    /\ handed' = Add(handed, {l})
    /\ offLink' = IF l = None THEN [offLink EXCEPT ![inflight] = @ + 1] ELSE offLink

CallReturns(l) ==
    /\ Accept(l)
    /\ succeeded' = succeeded \cup {l}
    /\ bundles' = Add(bundles, {l})
    /\ UNCHANGED <<failures, faults>>

(* Mutant: a failed call is not counted. *)
CallRaisesUncounted(l) ==
    /\ faults < MaxFaults
    /\ faults' = faults + 1
    /\ Accept(l) \/ UNCHANGED <<accepted, handed, offLink>>
    /\ UNCHANGED <<succeeded, bundles, failures>>

CallRaises(l) ==
    /\ faults < MaxFaults
    /\ faults' = faults + 1
    /\ failures' = Add(failures, {l})
    /\ Accept(l) \/ UNCHANGED <<accepted, handed, offLink>>
    /\ UNCHANGED <<succeeded, bundles>>

(* The rest of _send_single and of the loop body. *)
SingleCallEnds ==
    /\ pc = "single"
    /\ pc' = "top"
    /\ pending' = {}
    /\ \E l \in pending :
          \/ CallReturns(l) /\ Finished /\ UNCHANGED clients
          \/ CallRaises(l) /\ Failed /\ clients' = clients \ {"single"}
    /\ UNCHANGED <<linkVars, queueVars, loopMode, tag>>

(* The rest of _send_redundant, once the last of its calls has ended. *)
RedundantCallEnds ==
    /\ pc = "redundant"
    /\ \E l \in pending :
          /\ pending' = pending \ {l}
          /\ CallReturns(l) \/ CallRaises(l)
    /\ IF pending' # {}
       THEN UNCHANGED <<pc, clients, retries, done, inflight>>
       ELSE /\ clients' = clients \ (Links \ succeeded')
            /\ IF succeeded' = {}
               THEN pc' = "backoff" /\ UNCHANGED <<retries, done, inflight>>
               ELSE pc' = "top" /\ Finished
    /\ UNCHANGED <<linkVars, queueVars, loopMode, tag>>

(* The sleep after a failure is over: the dispatch returns False. *)
BackoffEnds ==
    /\ pc = "backoff"
    /\ pc' = "top"
    /\ Failed
    /\ UNCHANGED <<linkVars, queueVars, loopMode, callVars, clients,
                   bundles, failures, uD3TNVars>>

Sender ==
    \/ LoopTop \/ LinkEventSeen \/ GotMessage \/ GetTimesOut
    \/ SingleCallEnds \/ RedundantCallEnds \/ BackoffEnds

-----------------------------------------------------------------------------
(* The rest of the agent *)

Produce ==
    /\ produced < MaxMessages
    /\ produced' = produced + 1
    /\ queue' = Append(queue, produced + 1)
    /\ UNCHANGED <<linkVars, cleared, inflight, pc, loopMode, callVars, clients,
                   counterVars, uD3TNVars, done>>

ClearQueue ==
    /\ queue # << >>
    /\ queue' = << >>
    /\ cleared' = cleared \cup {queue[i] : i \in 1..Len(queue)}
    /\ UNCHANGED <<linkVars, produced, inflight, pc, loopMode, callVars,
                   clients, counterVars, uD3TNVars, done>>

LinkManagerStep ==
    /\ \/ \E m \in Modes : Link!ChangeMode(m)
       \/ \E l \in Link!Allowed(mode) \cup {None} : Link!ChangeLink(l)
    /\ UNCHANGED <<queueVars, inflight, pc, loopMode, callVars, clients,
                   counterVars, uD3TNVars, done>>

Next == Sender \/ Produce \/ ClearQueue \/ LinkManagerStep

Spec == Init /\ [][Next]_vars

(* asyncio keeps running the coroutine, and every AAP call ends, by the
   socket timeout if need be. *)
FairSpec == Spec /\ WF_vars(Sender)

-----------------------------------------------------------------------------
TypeOK ==
    /\ mode \in Modes /\ session \in 0..MaxSession
    /\ activeLink \in Links \cup {None} /\ linkEvent \in BOOLEAN
    /\ produced \in 0..MaxMessages
    /\ queue \in Seq(1..MaxMessages)
    /\ inflight \in 0..MaxMessages
    /\ pc \in {"top", "waitLink", "get", "single", "redundant", "backoff"}
    /\ loopMode \in Modes
    /\ tag \in [session : 0..MaxSession, mode : Modes \cup {None}]
    /\ pending \in SUBSET (Links \cup {None})
    /\ succeeded \in SUBSET (Links \cup {None})
    /\ clients \in SUBSET (Links \cup {"single"})
    /\ bundles \in [Links -> Nat]
    /\ failures \in [Links -> Nat]
    /\ retries \in [Links -> Nat]
    /\ faults \in 0..MaxFaults
    /\ accepted \in SUBSET [id : 1..MaxMessages, link : Links \cup {None},
                            tag : [session : 0..MaxSession, mode : Modes \cup {None}]]
    /\ handed \in [Links -> Nat]
    /\ offLink \in [1..MaxMessages -> Nat]
    /\ done \in SUBSET (1..MaxMessages)
    /\ cleared \in SUBSET (1..MaxMessages)

(* No lost wake-up: while the sender waits and nothing will wake it, there
   really is no link it could send on, whatever changed around the wait. *)
NoLostWakeup == pc = "waitLink" /\ ~linkEvent => Link!NoUsableLink

(* A message is finished only after uD3TN accepted a bundle of it. *)
DoneWasAccepted == \A m \in done : \E b \in accepted : b.id = m

(* Retries hold the line: no message reaches uD3TN before every older one was
   finished or thrown away by the operator; so no bundle carries an earlier
   session than the bundles of older messages, however the mode changes between
   a dispatch and its retry, or under a call. *)
SessionsInOrder ==
    \A a, b \in accepted :
        Telemetry(a.id) /\ Telemetry(b.id) /\ a.id < b.id
            => a.tag.session <= b.tag.session
SentInOrder ==
    /\ \A b \in accepted : 1..(b.id - 1) \subseteq done \cup cleared
    /\ SessionsInOrder

(* What becomes of the messages is what SenderService promises of them. *)
HandOver == INSTANCE SenderService WITH
    Tagged <- (1..MaxMessages) \ StatusMessages,
    given  <- {[id |-> b.id, session |-> b.tag.session] : b \in accepted}
ImplementsHandOver == HandOver!Spec

(* No message is lost: each one that was produced is in exactly one place, and
   it leaves the agent's hands only after uD3TN accepted a bundle of it, or the
   operator threw it away, whatever failures, half-failed pairs, retries and
   mode changes came in between. *)
Queued == {queue[i] : i \in 1..Len(queue)}
Holding == {inflight} \ {0}
NoMessageLost ==
    /\ 1..produced = Queued \cup Holding \cup done \cup cleared
    /\ Queued \cap (Holding \cup done \cup cleared) = {}
    /\ Holding \cap (done \cup cleared) = {}
    /\ done \cap cleared = {}
    /\ DoneWasAccepted

(* What the counters tell of the bundles.  On WiFi and LTE they never claim more
   than uD3TN accepted, and what they miss is at most what they report as
   failures.  A bundle sent on the link "none" is in no counter at all, neither
   when it succeeds nor when it fails.  For a telemetry message that is at most
   one bundle: of its first attempt, when the link is lost while the sender waits
   for the queue; every retry looks at the link again.  And a message of which
   no bundle was accepted off link is in the counters when it is finished. *)
LinkCounters ==
    \A l \in Links : bundles[l] <= handed[l] /\ handed[l] <= bundles[l] + failures[l]
EscapesOnce == \A m \in 1..MaxMessages : Telemetry(m) => offLink[m] <= 1
DoneOnLink  == {m \in done : offLink[m] = 0}
CountersBracketAccepted ==
    /\ LinkCounters
    /\ EscapesOnce
    /\ Cardinality(DoneOnLink) <= bundles["wifi"] + bundles["lte"]

(* If from some time on there is always a link to send on, everything that
   was produced is eventually sent or cleared. *)
Drains == <>[]~Link!NoUsableLink => []<>(queue = << >> /\ inflight = 0)

-----------------------------------------------------------------------------
(* pi-agent/schemas.py: experiment_session_id is a "Per-run identifier rolled
   whenever the experiment mode changes", so the bundles of one session all
   carry one mode. *)
SessionHasOneMode ==
    \A a, b \in accepted :
        /\ Telemetry(a.id) /\ Telemetry(b.id)
        /\ a.tag.session = b.tag.session
        => a.tag.mode = b.tag.mode
=============================================================================
