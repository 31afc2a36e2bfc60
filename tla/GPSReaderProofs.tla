--------------------------- MODULE GPSReaderProofs ---------------------------
(***************************************************************************)
(* Proofs about GPSReader, for any set of baud rates and any number of     *)
(* commands and unpluggings.  TypeOK and EventsTruthful are inductive      *)
(* together: that the events stay true after a change of the baud rate     *)
(* rests on a connected reader having an open port.                        *)
(***************************************************************************)
EXTENDS GPSReader, TLAPS

IInv == TypeOK /\ EventsTruthful

(* The bounds, without the set notation of the assumption. *)
LEMMA BoundSteps ==
    /\ \A c \in 0 .. MaxChanges : c < MaxChanges => c + 1 \in 0 .. MaxChanges
    /\ \A u \in 0 .. MaxUnplugs : u < MaxUnplugs => u + 1 \in 0 .. MaxUnplugs
BY BoundsAssumption

LEMMA InvariantInit == Init => IInv
<1> SUFFICES ASSUME Init PROVE IInv
  OBVIOUS
<1>1. auto \in BOOLEAN /\ plugged \in BOOLEAN /\ alive \in BOOLEAN /\ connected \in BOOLEAN
  BY Zenon DEF Init
<1>2. EventsTruthful
  BY DEF Init, EventsTruthful
<1> QED BY <1>1, <1>2, BoundsAssumption DEF Init, IInv, TypeOK

(* The reader's steps leave baudrate, changes and unplugs alone. *)
LEMMA ReaderStepInvariant ==
    ASSUME IInv, ReaderStep
    PROVE  IInv'
<1> USE DEF IInv, TypeOK, EventsTruthful, ReaderStep
<1>1. CASE NoPort
  BY <1>1 DEF NoPort
<1>2. CASE OpenPort
  BY <1>2 DEF OpenPort
<1>3. CASE BaudRead
  BY <1>3 DEF BaudRead
<1>4. CASE Opened
  BY <1>4 DEF Opened
<1>5. CASE OpenFails
  BY <1>5 DEF OpenFails, SerialError
<1>6. CASE SleepEnds
  BY <1>6 DEF SleepEnds
<1>7. CASE ReadLoop
  BY <1>7 DEF ReadLoop
<1>8. CASE LineRead
  BY <1>8 DEF LineRead
<1>9. CASE LineRaises
  BY <1>9 DEF LineRaises
<1>10. CASE ReadReturnsNone
  BY <1>10 DEF ReadReturnsNone
<1>11. CASE ReadFails
  BY <1>11 DEF ReadFails, SerialError
<1> QED BY <1>1, <1>2, <1>3, <1>4, <1>5, <1>6, <1>7, <1>8, <1>9, <1>10, <1>11

LEMMA InvariantStep ==
    ASSUME IInv, [Next]_vars
    PROVE  IInv'
<1> USE DEF IInv, TypeOK, EventsTruthful
<1>1. CASE ReaderStep
  BY <1>1, ReaderStepInvariant
<1>2. ASSUME NEW baud \in Bauds, ChangeBaudrate(baud) PROVE IInv'
  <2>1. connected' = FALSE /\ event' = "baudrate_changed"
    BY <1>2 DEF ChangeBaudrate
  <2>2. EventsTruthful'
    BY <2>1
  <2>3. changes' \in 0 .. MaxChanges /\ unplugs' \in 0 .. MaxUnplugs
    BY <1>2, BoundSteps DEF ChangeBaudrate
  <2>4. /\ auto' \in BOOLEAN /\ plugged' \in BOOLEAN /\ alive' \in BOOLEAN
        /\ connected' \in BOOLEAN
    BY <1>2, <2>1, Zenon DEF ChangeBaudrate
  <2>5. /\ ser' \in {"none", "open", "closed"}
        /\ pc' \in {"reading", "pause"} => ser' # "none"
    BY <1>2 DEF ChangeBaudrate
  <2>6. /\ pc' \in {"open", "noPort", "opening", "constructing", "readLoop", "reading",
                    "pause", "sleep"}
        /\ portBaud' \in Bauds \cup {NoBaud} /\ openBaud' \in Bauds \cup {NoBaud}
        /\ baudrate' \in Bauds
    BY <1>2 DEF ChangeBaudrate
  <2> QED BY <2>1, <2>2, <2>3, <2>4, <2>5, <2>6
<1>3. CASE Unplug
  <2>1. changes' \in 0 .. MaxChanges /\ unplugs' \in 0 .. MaxUnplugs
    BY <1>3, BoundSteps DEF Unplug
  <2>2. auto' \in BOOLEAN /\ plugged' \in BOOLEAN /\ alive' \in BOOLEAN
    BY <1>3, Zenon DEF Unplug
  <2>3. UNCHANGED <<pc, ser, portBaud, openBaud, baudrate, connected, event>>
    BY <1>3 DEF Unplug
  <2> QED BY <2>1, <2>2, <2>3
<1>4. CASE Plug
  BY <1>4 DEF Plug, reader
<1>5. CASE UNCHANGED vars
  BY <1>5 DEF vars, reader
<1> QED BY <1>1, <1>2, <1>3, <1>4, <1>5 DEF Next

LEMMA Invariance == Spec => []IInv
<1>1. IInv /\ [Next]_vars => IInv'
  BY InvariantStep
<1> QED BY <1>1, InvariantInit, PTL DEF Spec

(* Every attribute of the reader keeps its type, and the thread never reads a
   port that was not opened, for any baud rates and whatever is unplugged. *)
THEOREM TypeCorrect == Spec => []TypeOK
<1>1. IInv => TypeOK
  BY DEF IInv
<1> QED BY <1>1, Invariance, PTL

(* What the last event tells of the port is what the status tells, and a
   connected reader has an open port: a change of the baud rate, in whichever
   await it falls, reports the reader as disconnected. *)
THEOREM EventsAlwaysTruthful == Spec => []EventsTruthful
<1>1. IInv => EventsTruthful
  BY DEF IInv
<1> QED BY <1>1, Invariance, PTL
=============================================================================
