---------------------------- MODULE MgmtChannel -----------------------------
(***************************************************************************)
(* The management WebSocket between the Pi (pi-agent/mgmt_client) and the  *)
(* Mac (mac-backend/config_server): the client opens one connection after  *)
(* another, and the server lets each new one replace the one before.       *)
(*                                                                         *)
(* A connection outlives the client's interest in it: it may be abandoned  *)
(* while its handshake or its last reports are still under way, and the    *)
(* server learns of that later, through a close frame, its own keepalive,  *)
(* or the next connection.  The server runs one coroutine per connection,  *)
(* which waits for _conn_lock, closes its predecessor, and then reads.     *)
(*                                                                         *)
(* Reports and commands are numbered in the order they are sent, so a set  *)
(* of numbers, read from the smallest on, is a first-in-first-out buffer.  *)
(* Back-off times, payloads and the counter loop (see Delivery) are left   *)
(* out.                                                                    *)
(***************************************************************************)
EXTENDS Naturals, FiniteSetsExt

CONSTANTS
    MaxConns,     \* bound on the connections the client opens
    MaxStalls,    \* bound on the times the network stalls a connection
    MaxReports,   \* bound on the status reports sent
    MaxCommands   \* bound on the calls of send_command

ASSUME BoundsAssumption ==
    {MaxConns, MaxStalls, MaxReports, MaxCommands} \subseteq Nat

Conns == 1 .. MaxConns
NoConn == 0

VARIABLES
    (* client *)
    attempt,   \* the connection opened last
    stage,     \* of the client loop: "waiting", "opening" or "connected"
    piClosed,  \* the connections the client has closed
    piBlocked, \* does the send loop hold _send_lock in a send that blocks?
    piBuffer,  \* commands received and not dispatched yet
    applied,   \* the command dispatched last
    (* network *)
    link,      \* of each connection: "none", "up", "stalled", or "closed" by the server
    stalls,    \* stalls so far
    toMac,     \* reports under way or unread, per connection
    toPi,      \* commands under way, per connection
    (* server *)
    handler,   \* of each connection: "none", "arrived", "closing", "reading", "done"
    ticket,    \* of each handler: its place in the queue for _conn_lock
    tickets,   \* tickets given so far
    piWs,      \* _pi_ws
    old,       \* the connection whose close the holder of _conn_lock awaits
    macClosed, \* the connections the server has closed
    reportNo,  \* reports sent so far
    latest,    \* the report handled last
    cmdNo,     \* commands that got _send_lock so far
    pings,     \* those that are pings
    waiting,   \* callers of send_command waiting for _send_lock
    sending    \* the connection on which the holder of _send_lock is blocked

client  == <<attempt, stage, piClosed, piBlocked, piBuffer, applied>>
network == <<link, stalls, toMac, toPi>>
handlers == <<handler, ticket, tickets, piWs, old, macClosed, reportNo, latest>>
commands == <<cmdNo, pings, waiting, sending>>
vars == <<client, network, handlers, commands>>

(* self._ws *)
Ws == IF stage = "connected" THEN attempt ELSE NoConn

Init ==
    /\ attempt = NoConn /\ stage = "waiting" /\ piClosed = {}
    /\ piBlocked = FALSE /\ piBuffer = {} /\ applied = 0
    /\ link = [c \in Conns |-> "none"] /\ stalls = 0
    /\ toMac = [c \in Conns |-> {}] /\ toPi = [c \in Conns |-> {}]
    /\ handler = [c \in Conns |-> "none"] /\ ticket = [c \in Conns |-> 0] /\ tickets = 0
    /\ piWs = NoConn /\ old = NoConn /\ macClosed = {}
    /\ reportNo = 0 /\ latest = 0
    /\ cmdNo = 0 /\ pings = {} /\ waiting = 0 /\ sending = NoConn

-----------------------------------------------------------------------------
(* The client loop.  What was received on the previous connection has been *)
(* dispatched by now: that takes a few turns of the loop, the back-off at  *)
(* least a second.                                                         *)
Connect ==
    /\ stage = "waiting" /\ piBuffer = {}
    /\ attempt < MaxConns
    /\ attempt' = attempt + 1
    /\ stage' = "opening"
    /\ link' = [link EXCEPT ![attempt + 1] = "up"]
    /\ UNCHANGED <<piClosed, piBlocked, piBuffer, applied, stalls, toMac, toPi,
                   handlers, commands>>

(* The server has answered the opening handshake. *)
Opened ==
    /\ stage = "opening"
    /\ link[attempt] = "up" /\ handler[attempt] # "none"
    /\ stage' = "connected"
    /\ UNCHANGED <<attempt, piClosed, piBlocked, piBuffer, applied,
                   network, handlers, commands>>

(* websockets.connect fails or times out; the last connection does not. *)
GiveUp ==
    /\ stage = "opening"
    /\ attempt < MaxConns
    /\ stage' = "waiting"
    /\ piClosed' = piClosed \cup {attempt}
    /\ toPi' = [toPi EXCEPT ![attempt] = {}]
    /\ UNCHANGED <<attempt, piBlocked, piBuffer, applied, link, stalls, toMac,
                   handlers, commands>>

(* _send_loop takes a snapshot and sends it; when the network stalls, the  *)
(* send may block, with the message in the transport's buffer.             *)
SendReport ==
    /\ stage = "connected" /\ ~piBlocked
    /\ reportNo < MaxReports
    /\ reportNo' = reportNo + 1
    /\ toMac' = [toMac EXCEPT ![Ws] =
                     IF link[Ws] = "closed" THEN @ ELSE @ \cup {reportNo + 1}]
    /\ piBlocked' \in {FALSE, link[Ws] = "stalled"}
    /\ UNCHANGED <<attempt, stage, piClosed, piBuffer, applied, link, stalls, toPi,
                   handler, ticket, tickets, piWs, old, macClosed, latest, commands>>

Unblock ==
    /\ piBlocked
    /\ link[attempt] # "stalled"
    /\ piBlocked' = FALSE
    /\ UNCHANGED <<attempt, stage, piClosed, piBuffer, applied,
                   network, handlers, commands>>

(* A command reaches the client. *)
Arrive ==
    /\ stage = "connected" /\ link[Ws] # "stalled"
    /\ toPi[Ws] # {}
    /\ piBuffer' = piBuffer \cup {Min(toPi[Ws])}
    /\ toPi' = [toPi EXCEPT ![Ws] = @ \ {Min(@)}]
    /\ UNCHANGED <<attempt, stage, piClosed, piBlocked, applied, link, stalls, toMac,
                   handlers, commands>>

(* Mutant: each command is dispatched in a task of its own. *)
DispatchAnyOrder ==
    \E k \in piBuffer :
        /\ k \in pings => ~piBlocked
        /\ piBuffer' = piBuffer \ {k}
        /\ applied' = k
        /\ UNCHANGED <<attempt, stage, piClosed, piBlocked, network, handlers, commands>>

(* _recv_loop dispatches one command; a ping waits for _send_lock, and its *)
(* pong is lost when there is no connection any more.                      *)
Dispatch ==
    /\ piBuffer # {}
    /\ LET k == Min(piBuffer) IN
           /\ k \in pings => ~piBlocked
           /\ piBuffer' = piBuffer \ {k}
           /\ applied' = k
    /\ UNCHANGED <<attempt, stage, piClosed, piBlocked, network, handlers, commands>>

(* One of the loops raises: the client's keepalive expired, or the server  *)
(* closed and everything before its close frame has been received.         *)
Disconnect ==
    /\ stage = "connected"
    /\ \/ link[Ws] # "up"
       \/ Ws \in macClosed /\ toPi[Ws] = {}
    /\ stage' = "waiting"
    /\ piClosed' = piClosed \cup {Ws}
    /\ piBlocked' = FALSE
    /\ toPi' = [toPi EXCEPT ![Ws] = {}]
    /\ UNCHANGED <<attempt, piBuffer, applied, link, stalls, toMac, handlers, commands>>

-----------------------------------------------------------------------------
(* The network.  Faults end before the last connection is opened: it does  *)
(* not stall, and no abandoned handshake arrives after its own.            *)
Stall(c) ==
    /\ link[c] = "up"
    /\ stalls < MaxStalls /\ c < MaxConns
    /\ link' = [link EXCEPT ![c] = "stalled"]
    /\ stalls' = stalls + 1
    /\ UNCHANGED <<toMac, toPi, client, handlers, commands>>

Recover(c) ==
    /\ link[c] = "stalled"
    /\ link' = [link EXCEPT ![c] = "up"]
    /\ UNCHANGED <<stalls, toMac, toPi, client, handlers, commands>>

-----------------------------------------------------------------------------
(* The opening handshake of a connection reaches the server, perhaps after *)
(* the client gave it up; its handler queues for _conn_lock.               *)
Accept(c) ==
    /\ link[c] = "up" /\ handler[c] = "none"
    /\ c < MaxConns => handler[MaxConns] = "none"
    /\ handler' = [handler EXCEPT ![c] = "arrived"]
    /\ ticket' = [ticket EXCEPT ![c] = tickets + 1]
    /\ tickets' = tickets + 1
    /\ UNCHANGED <<piWs, old, macClosed, reportNo, latest, client, network, commands>>

(* Mutant: the handlers do not take _conn_lock. *)
TakeOverUnlocked(c) ==
    /\ handler[c] = "arrived"
    /\ piWs' = c
    /\ IF piWs = NoConn
       THEN /\ handler' = [handler EXCEPT ![c] = "reading"]
            /\ UNCHANGED <<old, macClosed>>
       ELSE /\ handler' = [handler EXCEPT ![c] = "closing"]
            /\ old' = piWs
            /\ macClosed' = macClosed \cup {piWs}
    /\ UNCHANGED <<ticket, tickets, reportNo, latest, client, network, commands>>

(* Mutant: the new handler reads at once, its predecessor still open. *)
TakeOverUnclosed(c) ==
    /\ old = NoConn /\ handler[c] = "arrived"
    /\ \A d \in Conns : handler[d] = "arrived" => ticket[c] <= ticket[d]
    /\ piWs' = c
    /\ handler' = [handler EXCEPT ![c] = "reading"]
    /\ UNCHANGED <<old, macClosed, ticket, tickets, reportNo, latest, client, network, commands>>

(* _handle_pi, under _conn_lock (asyncio locks are first come, first       *)
(* served): become _pi_ws, and close the predecessor if there is one.      *)
TakeOver(c) ==
    /\ old = NoConn /\ handler[c] = "arrived"
    /\ \A d \in Conns : handler[d] = "arrived" => ticket[c] <= ticket[d]
    /\ piWs' = c
    /\ IF piWs = NoConn
       THEN /\ handler' = [handler EXCEPT ![c] = "reading"]
            /\ UNCHANGED <<old, macClosed>>
       ELSE /\ handler' = [handler EXCEPT ![c] = "closing"]
            /\ old' = piWs
            /\ macClosed' = macClosed \cup {piWs}
    /\ UNCHANGED <<ticket, tickets, reportNo, latest, client, network, commands>>

(* await old.close() returns: the closing handshake is over, or timed out  *)
(* and the transport was aborted.                                          *)
CloseReturns(c) ==
    /\ handler[c] = "closing"
    /\ handler' = [handler EXCEPT ![c] = "reading"]
    /\ toMac' = [toMac EXCEPT ![old] = {}]
    /\ link' = [link EXCEPT ![old] = "closed"]
    /\ old' = NoConn
    /\ UNCHANGED <<ticket, tickets, piWs, macClosed, reportNo, latest, stalls, toPi,
                   client, commands>>

(* _handle_message: a report reaches the handler, which is reading; what   *)
(* arrives while the connection is being closed still counts.              *)
HandleReport(c) ==
    /\ handler[c] = "reading" /\ link[c] = "up"
    /\ toMac[c] # {}
    /\ latest' = Min(toMac[c])
    /\ toMac' = [toMac EXCEPT ![c] = @ \ {Min(@)}]
    /\ UNCHANGED <<handler, ticket, tickets, piWs, old, macClosed, reportNo, link, stalls, toPi,
                   client, commands>>

(* Mutant: the handler that ends clears _pi_ws whoever it belongs to. *)
HandlerEndsClearing(c) ==
    /\ handler[c] = "reading"
    /\ \/ c \in macClosed
       \/ c \in piClosed /\ link[c] = "up" /\ toMac[c] = {}
    /\ handler' = [handler EXCEPT ![c] = "done"]
    /\ macClosed' = macClosed \cup {c}
    /\ toMac' = [toMac EXCEPT ![c] = {}]
    /\ link' = [link EXCEPT ![c] = "closed"]
    /\ piWs' = NoConn
    /\ UNCHANGED <<ticket, tickets, old, reportNo, latest, stalls, toPi, client, commands>>

(* The loop over the messages ends, since one of the ends has closed; the  *)
(* finally clause clears _pi_ws only if it is still this connection.       *)
HandlerEnds(c) ==
    /\ handler[c] = "reading"
    /\ \/ c \in macClosed
       \/ c \in piClosed /\ link[c] = "up" /\ toMac[c] = {}
    /\ handler' = [handler EXCEPT ![c] = "done"]
    /\ macClosed' = macClosed \cup {c}
    /\ toMac' = [toMac EXCEPT ![c] = {}]
    /\ link' = [link EXCEPT ![c] = "closed"]
    /\ piWs' = IF piWs = c THEN NoConn ELSE piWs
    /\ UNCHANGED <<ticket, tickets, old, reportNo, latest, stalls, toPi, client, commands>>

(* The server's ping stays unanswered for ping_timeout: it closes. *)
Keepalive(c) ==
    /\ c \notin macClosed /\ handler[c] # "none"
    /\ link[c] = "stalled" \/ c \in piClosed
    /\ macClosed' = macClosed \cup {c}
    /\ UNCHANGED <<handler, ticket, tickets, piWs, old, reportNo, latest, client, network, commands>>

-----------------------------------------------------------------------------
(* POST /api/command calls send_command, which waits for _send_lock. *)
Call ==
    /\ cmdNo + waiting < MaxCommands
    /\ waiting' = waiting + 1
    /\ UNCHANGED <<cmdNo, pings, sending, client, network, handlers>>

(* send_command with the lock: raise at once, or write the command, which  *)
(* blocks when the network stalls and the transport's buffer is full.      *)
SendCommand ==
    /\ waiting > 0 /\ sending = NoConn
    /\ waiting' = waiting - 1
    /\ cmdNo' = cmdNo + 1
    /\ pings' \in {pings, pings \cup {cmdNo + 1}}
    /\ IF piWs = NoConn \/ piWs \in macClosed
       THEN UNCHANGED <<sending, toPi>>
       ELSE /\ toPi' = [toPi EXCEPT ![piWs] =
                            IF piWs \in piClosed THEN @ ELSE @ \cup {cmdNo + 1}]
            /\ sending' \in {NoConn, IF link[piWs] = "stalled" THEN piWs ELSE NoConn}
    /\ UNCHANGED <<link, stalls, toMac, client, handlers>>

(* Mutant: a send that raises leaves the lock taken. *)
SendReturnsUnlessClosed ==
    /\ sending # NoConn
    /\ link[sending] = "up"
    /\ sending' = NoConn
    /\ UNCHANGED <<cmdNo, pings, waiting, client, network, handlers>>

(* The blocked send returns, or raises since the connection was closed. *)
SendReturns ==
    /\ sending # NoConn
    /\ link[sending] = "up" \/ sending \in macClosed
    /\ sending' = NoConn
    /\ UNCHANGED <<cmdNo, pings, waiting, client, network, handlers>>

-----------------------------------------------------------------------------
ClientStep == Connect \/ Opened \/ Unblock \/ Arrive \/ Dispatch \/ Disconnect
ServerStep(c) ==
    Accept(c) \/ TakeOver(c) \/ CloseReturns(c) \/ HandleReport(c)
              \/ HandlerEnds(c) \/ Keepalive(c)

Next ==
    \/ Connect \/ Opened \/ GiveUp \/ SendReport \/ Unblock
    \/ Arrive \/ Dispatch \/ Disconnect
    \/ \E c \in Conns :
          \/ Stall(c) \/ Recover(c)
          \/ Accept(c) \/ TakeOver(c) \/ CloseReturns(c)
          \/ HandleReport(c) \/ HandlerEnds(c) \/ Keepalive(c)
    \/ Call \/ SendCommand \/ SendReturns

Spec == Init /\ [][Next]_vars

(* Both event loops run, their time-outs and keepalives expire, and a      *)
(* closing handshake ends; nothing is assumed of the network beyond the    *)
(* end of its faults.                                                      *)
FairSpec ==
    /\ Spec
    /\ WF_vars(ClientStep)
    /\ WF_vars(GiveUp) /\ WF_vars(Disconnect)
    /\ \A c \in Conns : WF_vars(ServerStep(c))
    /\ WF_vars(SendCommand)
    /\ WF_vars(SendReturns)

-----------------------------------------------------------------------------
TypeOK ==
    /\ attempt \in 0 .. MaxConns
    /\ stage \in {"waiting", "opening", "connected"}
    /\ stage # "waiting" => attempt # NoConn
    /\ piClosed \subseteq Conns /\ macClosed \subseteq Conns
    /\ piBlocked \in BOOLEAN
    /\ piBuffer \subseteq 1 .. cmdNo /\ pings \subseteq 1 .. cmdNo
    /\ link \in [Conns -> {"none", "up", "stalled", "closed"}]
    /\ stalls \in 0 .. MaxStalls
    /\ toMac \in [Conns -> SUBSET (1 .. reportNo)]
    /\ toPi \in [Conns -> SUBSET (1 .. cmdNo)]
    /\ handler \in [Conns -> {"none", "arrived", "closing", "reading", "done"}]
    /\ ticket \in [Conns -> Nat] /\ tickets \in Nat
    /\ piWs \in 0 .. MaxConns /\ old \in 0 .. MaxConns /\ sending \in 0 .. MaxConns
    /\ reportNo \in 0 .. MaxReports /\ latest \in 0 .. reportNo
    /\ \A c \in Conns : handler[c] = "closing" => old # NoConn /\ c = piWs
    /\ cmdNo \in 0 .. MaxCommands /\ applied \in 0 .. cmdNo
    /\ waiting \in 0 .. MaxCommands

(* A connection that is read, and that the server has not closed, is the   *)
(* one commands go to: the end of a superseded handler never cuts off the  *)
(* connection that replaced it.                                            *)
NoOrphan == \A c \in Conns : handler[c] = "reading" => c = piWs \/ c \in macClosed

(* The reports the Mac handles are handled in the order the Pi took them,  *)
(* across replaced, abandoned and half-open connections.                   *)
Reports == INSTANCE OrderedChannel
    WITH sent <- reportNo, pending <- UNION {toMac[c] : c \in Conns}, handled <- latest
ReportsInOrder == Reports!Spec

(* The commands the Pi dispatches are dispatched once, and in the order    *)
(* send_command wrote them, with a blocked ping and a break between them.  *)
Commands == INSTANCE OrderedChannel
    WITH sent <- cmdNo,
         pending <- piBuffer \cup UNION {toPi[c] : c \in Conns},
         handled <- applied
CommandsInOrder == Commands!Spec

(* Nobody waits for _send_lock for ever, although a send to a Pi that is   *)
(* gone blocks with the lock held.                                         *)
CommandsAnswered ==
    (waiting > 0 \/ sending # NoConn) ~> (waiting = 0 /\ sending = NoConn)

(* Once the network behaves, the Mac's idea of the connection is the Pi's. *)
Reconnected == <>[](Ws # NoConn /\ piWs = Ws /\ handler[Ws] = "reading")
=============================================================================
