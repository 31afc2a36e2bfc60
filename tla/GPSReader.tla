------------------------------ MODULE GPSReader ------------------------------
(***************************************************************************)
(* The GPS reader of the Pi agent (pi-agent/gps_reader): the coroutine run *)
(* that opens the serial port and reads it for ever, and the command that  *)
(* changes the baud rate under it.                                         *)
(*                                                                         *)
(* Opening and reading block in an executor thread; meanwhile the event    *)
(* loop runs change_baudrate, which may close the port the thread is       *)
(* reading, and the device may be unplugged.  Emitting an event only puts  *)
(* a message into the queue, it never suspends, so everything between two  *)
(* of the awaits named by pc is one action.                                *)
(*                                                                         *)
(* A serial.Serial object stays open when its device goes away; reading it *)
(* raises.  The reader keeps the object until it has opened another.       *)
(*                                                                         *)
(* NMEA contents, fix changes and the cadence of the telemetry are left    *)
(* out: a line is one that parses, one that is skipped, or one whose       *)
(* fields do not convert.                                                  *)
(***************************************************************************)
EXTENDS Naturals

CONSTANTS
    Bauds,        \* the baud rates in use
    MaxChanges,   \* bound on change_baudrate commands
    MaxUnplugs    \* bound on the times the device is unplugged

ASSUME BaudsAssumption == Bauds # {} /\ Bauds \subseteq Nat \ {0}
ASSUME BoundsAssumption == MaxChanges \in Nat /\ MaxUnplugs \in Nat

NoBaud == 0

VARIABLES
    auto,      \* is the port found by detect_gps_port, or configured?
    plugged,   \* is the device there?
    pc,        \* the await at which run is, or the point before the next one
    ser,       \* _ser: "none", or an object that is "open" or "closed"
    alive,     \* is the device of an open _ser the one that is plugged in?
    portBaud,  \* the baud rate of _ser
    openBaud,  \* the baud rate the thread that opens the port has read
    baudrate,  \* _baudrate
    connected, \* _connected
    event,     \* the last of the events that tell of the port
    changes, unplugs   \* commands and unpluggings so far

reader == <<pc, ser, alive, portBaud, openBaud, connected, event>>
vars == <<auto, plugged, reader, baudrate, changes, unplugs>>

Init ==
    /\ auto \in BOOLEAN /\ plugged \in BOOLEAN
    /\ pc = "open"
    /\ ser = "none" /\ alive = FALSE /\ portBaud = NoBaud /\ openBaud = NoBaud
    /\ baudrate \in Bauds
    /\ connected = FALSE
    /\ event = "searching"
    /\ changes = 0 /\ unplugs = 0

-----------------------------------------------------------------------------
(* _open_port finds no port: it reports that, sleeps, and returns to run,  *)
(* which goes on to _read_loop as if the port had been opened.             *)
NoPort ==
    /\ pc = "open"
    /\ auto /\ ~plugged
    /\ event' = "searching"
    /\ pc' = "noPort"
    /\ UNCHANGED <<ser, alive, portBaud, openBaud, connected>>

(* _open_port hands serial.Serial to the executor. *)
OpenPort ==
    /\ pc = "open"
    /\ auto => plugged
    /\ pc' = "opening"
    /\ UNCHANGED <<ser, alive, portBaud, openBaud, connected, event>>

(* The thread evaluates self._baudrate, and begins to open the port. *)
BaudRead ==
    /\ pc = "opening"
    /\ openBaud' = baudrate
    /\ pc' = "constructing"
    /\ UNCHANGED <<ser, alive, portBaud, connected, event>>

Opened ==
    /\ pc = "constructing"
    /\ plugged
    /\ ser' = "open" /\ alive' = TRUE /\ portBaud' = openBaud
    /\ openBaud' = NoBaud
    /\ connected' = TRUE
    /\ event' = "serial_connected"
    /\ pc' = "readLoop"

(* run catches a SerialException, whoever raised it; _ser is kept. *)
SerialError ==
    /\ connected' = FALSE
    /\ event' = IF connected THEN "serial_disconnected" ELSE event
    /\ pc' = "sleep"
    /\ openBaud' = NoBaud
    /\ UNCHANGED <<ser, alive, portBaud>>

(* A port that is there can be opened. *)
OpenFails == pc = "constructing" /\ ~plugged /\ SerialError

SleepEnds ==
    /\ pc \in {"sleep", "noPort", "pause"}
    /\ pc' = IF pc = "sleep" THEN "open" ELSE "readLoop"
    /\ UNCHANGED <<ser, alive, portBaud, openBaud, connected, event>>

(* Mutant: the loop goes on as long as the reader runs. *)
ReadLoopUnguarded ==
    /\ pc = "readLoop"
    /\ pc' = "reading"
    /\ UNCHANGED <<ser, alive, portBaud, openBaud, connected, event>>

(* _read_loop goes on while the port is open, else run opens it again. *)
ReadLoop ==
    /\ pc = "readLoop"
    /\ pc' = IF ser = "open" THEN "reading" ELSE "open"
    /\ UNCHANGED <<ser, alive, portBaud, openBaud, connected, event>>

(* A line was read, perhaps just before the port was closed: it is parsed, *)
(* or skipped; a time-out counts as an empty line.                         *)
LineRead ==
    /\ pc = "reading"
    /\ ser = "closed" \/ alive
    /\ pc' = "readLoop"
    /\ UNCHANGED <<ser, alive, portBaud, openBaud, connected, event>>

(* The line is a GGA sentence with a field that does not convert: run      *)
(* catches the ValueError, and opens the port again without closing it.    *)
LineRaises ==
    /\ pc = "reading"
    /\ ser = "closed" \/ alive
    /\ pc' = "sleep"
    /\ UNCHANGED <<ser, alive, portBaud, openBaud, connected, event>>

(* readline fails in another way, as it may on a port closed under it. *)
ReadReturnsNone ==
    /\ pc = "reading"
    /\ ser = "closed"
    /\ pc' = "pause"
    /\ UNCHANGED <<ser, alive, portBaud, openBaud, connected, event>>

(* Mutant: _readline_safe turns every exception into None. *)
ReadFailsSafely ==
    /\ pc = "reading"
    /\ ser = "closed" \/ ~alive
    /\ pc' = "pause"
    /\ UNCHANGED <<ser, alive, portBaud, openBaud, connected, event>>

ReadFails ==
    /\ pc = "reading"
    /\ ser = "closed" \/ ~alive
    /\ SerialError

ReaderStep ==
    /\ \/ NoPort \/ OpenPort \/ BaudRead \/ Opened \/ OpenFails \/ SleepEnds
       \/ ReadLoop \/ LineRead \/ LineRaises \/ ReadReturnsNone \/ ReadFails
    /\ UNCHANGED <<auto, plugged, baudrate, changes, unplugs>>

-----------------------------------------------------------------------------
(* Mutant: the reader is left to find out that its port was closed. *)
ChangeBaudrateQuietly(baud) ==
    /\ changes < MaxChanges
    /\ baudrate' = baud
    /\ ser' = IF ser = "open" THEN "closed" ELSE ser
    /\ event' = "baudrate_changed"
    /\ changes' = changes + 1
    /\ UNCHANGED <<auto, plugged, pc, alive, portBaud, openBaud, connected, unplugs>>

(* change_baudrate, in a task of its own *)
ChangeBaudrate(baud) ==
    /\ changes < MaxChanges
    /\ baudrate' = baud
    /\ ser' = IF ser = "open" THEN "closed" ELSE ser
    /\ connected' = IF ser = "open" THEN FALSE ELSE connected
    /\ event' = "baudrate_changed"
    /\ changes' = changes + 1
    /\ UNCHANGED <<auto, plugged, pc, alive, portBaud, openBaud, unplugs>>

Unplug ==
    /\ plugged /\ unplugs < MaxUnplugs
    /\ plugged' = FALSE
    /\ alive' = FALSE
    /\ unplugs' = unplugs + 1
    /\ UNCHANGED <<auto, pc, ser, portBaud, openBaud, baudrate, connected, event, changes>>

Plug ==
    /\ ~plugged
    /\ plugged' = TRUE
    /\ UNCHANGED <<auto, reader, baudrate, changes, unplugs>>

Next ==
    \/ ReaderStep
    \/ \E baud \in Bauds : ChangeBaudrate(baud)
    \/ Unplug \/ Plug

Spec == Init /\ [][Next]_vars

(* The reader's awaits end. *)
FairSpec == Spec /\ WF_vars(ReaderStep)

-----------------------------------------------------------------------------
TypeOK ==
    /\ auto \in BOOLEAN /\ plugged \in BOOLEAN /\ alive \in BOOLEAN
    /\ pc \in {"open", "noPort", "opening", "constructing", "readLoop", "reading",
               "pause", "sleep"}
    /\ ser \in {"none", "open", "closed"}
    /\ pc \in {"reading", "pause"} => ser # "none"
    /\ portBaud \in Bauds \cup {NoBaud} /\ openBaud \in Bauds \cup {NoBaud}
    /\ baudrate \in Bauds
    /\ connected \in BOOLEAN
    /\ event \in {"searching", "serial_connected", "serial_disconnected",
                  "baudrate_changed"}
    /\ changes \in 0 .. MaxChanges /\ unplugs \in 0 .. MaxUnplugs

(* The events tell the truth about the status: but for a search, the last  *)
(* event says "connected" exactly when the status does, and then the port  *)
(* is open, with the reader in whatever await and its device pulled,       *)
(* closed or opened a second time under it.                                *)
EventsTruthful ==
    /\ event # "searching" => (connected <=> event = "serial_connected")
    /\ connected => ser = "open"

(* When the device stays plugged in, the reader ends up reading it: no     *)
(* closed or dead port is held on to.                                      *)
Reconnects == <>[]plugged => <>[](connected /\ alive)
=============================================================================
