---------------------------- MODULE QueueManager ----------------------------
(***************************************************************************)
(* The outgoing queue of the Pi agent, pi-agent/queue_manager.             *)
(*                                                                         *)
(* GPS altitude telemetry is refused once the queue is full and stays      *)
(* refused until the depth falls below 90 % of the maximum; GPS status     *)
(* messages bypass the cap.  The DTN sender is the only consumer: it takes *)
(* one message, and calls task_done() once uD3TN has it.  The operator may *)
(* clear the queue at any moment, also while a message is in flight.       *)
(*                                                                         *)
(* Every method runs to completion on the asyncio loop, so each is one     *)
(* action.  `unfinished' is the counter inside asyncio.Queue that put()    *)
(* increments and task_done() decrements, raising ValueError below zero.   *)
(***************************************************************************)
EXTENDS Naturals, Sequences, FiniteSets

CONSTANTS
    MaxSize,      \* MAX_QUEUE_SIZE, the cap on altitude telemetry
    MaxAccepted,  \* bound on the messages accepted in one behaviour
    MaxDropped    \* bound on the messages dropped in one behaviour

ASSUME MaxSizeAssumption == MaxSize \in Nat \ {0}
ASSUME BoundsAssumption  == MaxAccepted \in Nat /\ MaxDropped \in Nat

Kinds == {"telemetry", "status"}
None  == "none"

(* int(max_size * 0.90) *)
ResumeAt == (MaxSize * 9) \div 10

VARIABLES
    q,           \* _q, oldest message first
    accepting,   \* _accepting
    dropped,     \* _dropped
    totalIn,     \* _total_in
    unfinished,  \* asyncio.Queue._unfinished_tasks
    inflight,    \* the message the sender holds between get() and task_done()
    cleared      \* messages removed by clear() so far (auxiliary)

vars == <<q, accepting, dropped, totalIn, unfinished, inflight, cleared>>

Init ==
    /\ q = << >>
    /\ accepting = TRUE
    /\ dropped = 0
    /\ totalIn = 0
    /\ unfinished = 0
    /\ inflight = None
    /\ cleared = 0

(* Mutant: the pause is never re-evaluated. *)
ResumedNever(depth) == accepting

(* _maybe_resume_collection, at the depth it finds *)
Resumed(depth) == accepting \/ depth < ResumeAt

-----------------------------------------------------------------------------
(* put_nowait of altitude telemetry while collection is paused *)
DropPaused ==
    /\ dropped < MaxDropped
    /\ ~accepting
    /\ dropped' = dropped + 1
    /\ UNCHANGED <<q, accepting, totalIn, unfinished, inflight, cleared>>

(* put_nowait of altitude telemetry that finds the queue full and pauses *)
DropFull ==
    /\ dropped < MaxDropped
    /\ accepting
    /\ Len(q) >= MaxSize
    /\ accepting' = FALSE
    /\ dropped' = dropped + 1
    /\ UNCHANGED <<q, totalIn, unfinished, inflight, cleared>>

(* Mutant: the full check compares with > instead of >=. *)
AdmitOneTooMany(kind) ==
    /\ totalIn < MaxAccepted
    /\ kind = "telemetry" => accepting /\ Len(q) <= MaxSize
    /\ q' = Append(q, kind)
    /\ totalIn' = totalIn + 1
    /\ unfinished' = unfinished + 1
    /\ accepting' = Resumed(Len(q) + 1)
    /\ UNCHANGED <<dropped, inflight, cleared>>

(* put_nowait of a message that is admitted *)
Admit(kind) ==
    /\ totalIn < MaxAccepted
    /\ kind = "telemetry" => accepting /\ Len(q) < MaxSize
    /\ q' = Append(q, kind)
    /\ totalIn' = totalIn + 1
    /\ unfinished' = unfinished + 1
    /\ accepting' = Resumed(Len(q) + 1)
    /\ UNCHANGED <<dropped, inflight, cleared>>

(* get, by the sender loop, which holds at most one message *)
Get ==
    /\ inflight = None
    /\ q # << >>
    /\ inflight' = Head(q)
    /\ q' = Tail(q)
    /\ accepting' = Resumed(Len(q) - 1)
    /\ UNCHANGED <<dropped, totalIn, unfinished, cleared>>

(* Mutant: task_done is called after a failed send too. *)
TaskDoneEveryDispatch ==
    /\ inflight # None
    /\ unfinished >= 0
    /\ unfinished' = unfinished - 1
    /\ inflight' \in {None, inflight}
    /\ UNCHANGED <<q, accepting, dropped, totalIn, cleared>>

(* task_done, once the message has been handed to uD3TN *)
TaskDone ==
    /\ inflight # None
    /\ unfinished > 0
    /\ unfinished' = unfinished - 1
    /\ inflight' = None
    /\ UNCHANGED <<q, accepting, dropped, totalIn, cleared>>

(* Mutant: clear resets the unfinished count under an in-flight message. *)
ClearResetsUnfinished ==
    /\ q # << >> \/ ~accepting
    /\ q' = << >>
    /\ cleared' = cleared + Len(q)
    /\ accepting' = TRUE
    /\ unfinished' = cleared'
    /\ UNCHANGED <<dropped, totalIn, inflight>>

(* clear, the operator's clear_queue command; it never calls task_done *)
Clear ==
    /\ q # << >> \/ ~accepting
    /\ q' = << >>
    /\ cleared' = cleared + Len(q)
    /\ accepting' = TRUE
    /\ UNCHANGED <<dropped, totalIn, unfinished, inflight>>

Put  == DropPaused \/ DropFull \/ \E kind \in Kinds : Admit(kind)
Next == Put \/ Get \/ TaskDone \/ Clear

Spec == Init /\ [][Next]_vars

(* The sender loop keeps taking messages, and its sends keep ending. *)
FairSpec == Spec /\ WF_vars(Get) /\ WF_vars(TaskDone)

-----------------------------------------------------------------------------
TypeOK ==
    /\ q \in Seq(Kinds)
    /\ accepting \in BOOLEAN
    /\ dropped \in Nat
    /\ totalIn \in Nat
    /\ unfinished \in Nat
    /\ inflight \in Kinds \cup {None}
    /\ cleared \in Nat

(* While telemetry is being refused there is a real backlog: the depth is
   still at or above the resume mark.  Every way a message leaves the queue
   must therefore re-evaluate the pause. *)
PausedOnlyUnderBacklog == ~accepting => Len(q) >= ResumeAt

TelemetryPositions == {i \in 1..Len(q) : q[i] = "telemetry"}

(* The cap holds for telemetry whatever the GPS status messages, which
   bypass it, do to the total depth. *)
TelemetryCap == Cardinality(TelemetryPositions) <= MaxSize

Held == IF inflight = None THEN 0 ELSE 1

(* asyncio's count of unfinished tasks is exactly what is queued, held by the
   sender, or was thrown away by clear(): so task_done() can never raise
   ValueError in the sender, even when clear() races an in-flight message. *)
UnfinishedAccount == unfinished = Len(q) + Held + cleared

(* A paused queue starts collecting again once the sender drains it, with
   nobody clearing it. *)
CollectionResumes == ~accepting ~> accepting
=============================================================================
