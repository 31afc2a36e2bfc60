------------------------- MODULE QueueManagerProofs -------------------------
(***************************************************************************)
(* Invariance proofs for QueueManager, for every queue size and whatever   *)
(* the bounds on accepted and dropped messages.                            *)
(***************************************************************************)
EXTENDS QueueManager, FiniteSetTheorems, FunctionTheorems, TLAPS

(* The resume mark lies strictly below the cap. *)
LEMMA ResumeAtBound == ResumeAt \in Nat /\ ResumeAt < MaxSize
  BY MaxSizeAssumption, SMTT(30) DEF ResumeAt

(* Type correctness of the queue, for every size. *)
THEOREM TypeCorrect == Spec => []TypeOK
<1>1. Init => TypeOK
  BY DEF Init, TypeOK, Kinds, None
<1>2. TypeOK /\ [Next]_vars => TypeOK'
  <2> SUFFICES ASSUME TypeOK, [Next]_vars PROVE TypeOK'
    OBVIOUS
  <2> USE DEF TypeOK
  <2>1. CASE DropPaused
    BY <2>1 DEF DropPaused
  <2>2. CASE DropFull
    <3>1. dropped' \in Nat
      BY <2>2 DEF DropFull
    <3>2. accepting' = FALSE
      BY <2>2 DEF DropFull
    <3>3. UNCHANGED <<q, totalIn, unfinished, inflight, cleared>>
      BY <2>2 DEF DropFull
    <3>4. QED
      BY <3>1, <3>2, <3>3, Zenon
  <2>3. ASSUME NEW kind \in Kinds, Admit(kind) PROVE TypeOK'
    BY <2>3, ResumeAtBound DEF Admit, Resumed
  <2>4. CASE Get
    BY <2>4, ResumeAtBound DEF Get, Resumed
  <2>5. CASE TaskDone
    BY <2>5 DEF TaskDone
  <2>6. CASE Clear
    BY <2>6 DEF Clear
  <2>7. CASE UNCHANGED vars
    BY <2>7 DEF vars
  <2>8. QED
    BY <2>1, <2>2, <2>3, <2>4, <2>5, <2>6, <2>7 DEF Next, Put
<1>3. QED
  BY <1>1, <1>2, PTL DEF Spec

(* Telemetry is only ever refused while there is a backlog at or above the
   resume mark: no way of emptying the queue leaves collection paused. *)
THEOREM PausedBacklog == Spec => []PausedOnlyUnderBacklog
<1> USE DEF PausedOnlyUnderBacklog
<1>1. Init => PausedOnlyUnderBacklog
  BY DEF Init
<1>2. TypeOK /\ PausedOnlyUnderBacklog /\ [Next]_vars => PausedOnlyUnderBacklog'
  <2> SUFFICES ASSUME TypeOK, PausedOnlyUnderBacklog, [Next]_vars
               PROVE  PausedOnlyUnderBacklog'
    OBVIOUS
  <2> USE ResumeAtBound DEF TypeOK
  <2>1. CASE DropPaused
    BY <2>1 DEF DropPaused
  <2>2. CASE DropFull
    BY <2>2, MaxSizeAssumption DEF DropFull
  <2>3. ASSUME NEW kind \in Kinds, Admit(kind) PROVE PausedOnlyUnderBacklog'
    BY <2>3 DEF Admit, Resumed
  <2>4. CASE Get
    <3>1. Len(q) \in Nat /\ Len(q') = Len(q) - 1
      BY <2>4 DEF Get
    <3>2. accepting' = Resumed(Len(q) - 1)
      BY <2>4 DEF Get
    <3>3. ~accepting' => ~(Len(q) - 1 < ResumeAt)
      BY <3>2 DEF Resumed
    <3>4. QED
      BY <3>1, <3>3
  <2>5. CASE TaskDone
    BY <2>5 DEF TaskDone
  <2>6. CASE Clear
    BY <2>6 DEF Clear
  <2>7. CASE UNCHANGED vars
    BY <2>7 DEF vars
  <2>8. QED
    BY <2>1, <2>2, <2>3, <2>4, <2>5, <2>6, <2>7 DEF Next, Put
<1>3. QED
  BY <1>1, <1>2, TypeCorrect, PTL DEF Spec

(* asyncio's unfinished count always covers the message the sender holds, so
   the sender's task_done() never raises, whenever the operator clears. *)
THEOREM TaskDoneNeverRaises == Spec => []UnfinishedAccount
<1> USE DEF UnfinishedAccount, Held
<1>1. Init => UnfinishedAccount
  BY DEF Init
<1>2. TypeOK /\ UnfinishedAccount /\ [Next]_vars => UnfinishedAccount'
  <2> SUFFICES ASSUME TypeOK, UnfinishedAccount, [Next]_vars
               PROVE  UnfinishedAccount'
    OBVIOUS
  <2> USE DEF TypeOK
  <2>1. CASE DropPaused
    BY <2>1 DEF DropPaused
  <2>2. CASE DropFull
    BY <2>2 DEF DropFull
  <2>3. ASSUME NEW kind \in Kinds, Admit(kind) PROVE UnfinishedAccount'
    BY <2>3 DEF Admit
  <2>4. CASE Get
    BY <2>4 DEF Get, Kinds, None
  <2>5. CASE TaskDone
    BY <2>5 DEF TaskDone
  <2>6. CASE Clear
    BY <2>6 DEF Clear
  <2>7. CASE UNCHANGED vars
    BY <2>7 DEF vars
  <2>8. QED
    BY <2>1, <2>2, <2>3, <2>4, <2>5, <2>6, <2>7 DEF Next, Put
<1>3. QED
  BY <1>1, <1>2, TypeCorrect, PTL DEF Spec

-----------------------------------------------------------------------------
(* Taking the head of a sequence does not add an occurrence of telemetry: the
   positions of the tail shift into the positions of the whole. *)
LEMMA TailPositions ==
  ASSUME NEW s \in Seq(Kinds), s # << >>
  PROVE  LET P(t) == {i \in 1..Len(t) : t[i] = "telemetry"}
         IN  /\ IsFiniteSet(P(s)) /\ IsFiniteSet(P(Tail(s)))
             /\ Cardinality(P(Tail(s))) <= Cardinality(P(s))
<1> DEFINE P(t) == {i \in 1..Len(t) : t[i] = "telemetry"}
           f == [i \in P(Tail(s)) |-> i + 1]
<1>1. Tail(s) \in Seq(Kinds) /\ Len(s) \in Nat /\ Len(Tail(s)) \in Nat
  OBVIOUS
<1>2. IsFiniteSet(P(s)) /\ IsFiniteSet(P(Tail(s)))
  <2>1. IsFiniteSet(1..Len(s)) /\ IsFiniteSet(1..Len(Tail(s)))
    BY <1>1, FS_Interval
  <2>2. P(s) \subseteq 1..Len(s) /\ P(Tail(s)) \subseteq 1..Len(Tail(s))
    OBVIOUS
  <2>3. QED
    BY <2>1, <2>2, FS_Subset
<1>3. f \in Injection(P(Tail(s)), P(s))
  <2>1. \A i \in P(Tail(s)) : i + 1 \in P(s)
    <3> SUFFICES ASSUME NEW i \in P(Tail(s)) PROVE i + 1 \in P(s)
      OBVIOUS
    <3>1. i \in 1..Len(Tail(s)) /\ Tail(s)[i] = "telemetry"
      OBVIOUS
    <3>2. Len(Tail(s)) = Len(s) - 1 /\ Tail(s)[i] = s[i + 1]
      BY <3>1
    <3>3. QED
      BY <3>1, <3>2, <1>1
  <2>2. \A i, j \in P(Tail(s)) : f[i] = f[j] => i = j
    OBVIOUS
  <2>3. f \in [P(Tail(s)) -> P(s)]
    BY <2>1
  <2> HIDE DEF P, f
  <2>4. QED
    BY <2>2, <2>3, Fun_IsInj
<1>4. Cardinality(P(Tail(s))) <= Cardinality(P(s))
  <2> HIDE DEF P, f
  <2>1. QED
    BY <1>2, <1>3, FS_Injection
<1>5. QED
  BY <1>2, <1>4

(* The queue never holds more than MaxSize telemetry messages, however many
   GPS status messages bypass the cap. *)
THEOREM TelemetryNeverExceedsCap == Spec => []TelemetryCap
<1> DEFINE P(t) == {i \in 1..Len(t) : t[i] = "telemetry"}
<1>0. TelemetryPositions = P(q) /\ TelemetryPositions' = P(q')
  BY DEF TelemetryPositions
<1>1. Init => TelemetryCap
  <2>1. Init => TelemetryPositions = {}
    BY DEF Init, TelemetryPositions
  <2>2. QED
    BY <2>1, FS_EmptySet, MaxSizeAssumption DEF TelemetryCap
<1>2. TypeOK /\ TelemetryCap /\ [Next]_vars => TelemetryCap'
  <2> SUFFICES ASSUME TypeOK, TelemetryCap, [Next]_vars PROVE TelemetryCap'
    OBVIOUS
  <2>1. ASSUME NEW kind \in Kinds, Admit(kind) PROVE TelemetryCap'
    <3>1. CASE kind = "telemetry"
      <4>1. q' \in Seq(Kinds) /\ Len(q') \in Nat /\ Len(q') <= MaxSize
        BY <2>1, <3>1, MaxSizeAssumption DEF Admit, TypeOK
      <4>2. P(q') \subseteq 1..Len(q')
        OBVIOUS
      <4>3. /\ IsFiniteSet(1..Len(q'))
            /\ Cardinality(1..Len(q')) = Len(q')
        BY <4>1, FS_Interval
      <4>4. IsFiniteSet(P(q')) /\ Cardinality(P(q')) <= Len(q')
        BY <4>2, <4>3, FS_Subset
      <4>5. Cardinality(P(q')) \in Nat
        BY <4>4, FS_CardinalityType
      <4>6. QED
        BY <4>1, <4>4, <4>5, MaxSizeAssumption, <1>0 DEF TelemetryCap
    <3>2. CASE kind # "telemetry"
      <4>1. P(q') = P(q)
        BY <2>1, <3>2 DEF Admit, TypeOK
      <4>2. QED
        BY <4>1, <1>0 DEF TelemetryCap
    <3>3. QED
      BY <3>1, <3>2
  <2>2. CASE Get
    <3>1. q \in Seq(Kinds) /\ q # << >> /\ q' = Tail(q)
      BY <2>2 DEF Get, TypeOK
    <3>2. /\ IsFiniteSet(P(q)) /\ IsFiniteSet(P(Tail(q)))
          /\ Cardinality(P(Tail(q))) <= Cardinality(P(q))
      BY <3>1, TailPositions
    <3>3. Cardinality(P(q)) \in Nat /\ Cardinality(P(Tail(q))) \in Nat
      BY <3>2, FS_CardinalityType
    <3> HIDE DEF P
    <3>4. QED
      BY <3>1, <3>2, <3>3, <1>0, MaxSizeAssumption DEF TelemetryCap
  <2>3. CASE Clear
    <3>1. q' = << >>
      BY <2>3 DEF Clear
    <3>2. TelemetryPositions' = {}
      BY <3>1 DEF TelemetryPositions
    <3>3. QED
      BY <3>2, FS_EmptySet, MaxSizeAssumption DEF TelemetryCap
  <2>4. CASE q' = q
    BY <2>4 DEF TelemetryCap, TelemetryPositions
  <2>5. QED
    BY <2>1, <2>2, <2>3, <2>4
       DEF Next, Put, vars, DropPaused, DropFull, TaskDone
<1>3. QED
  BY <1>1, <1>2, TypeCorrect, PTL DEF Spec
=============================================================================
