-------------------------- MODULE MgmtChannelProofs --------------------------
(***************************************************************************)
(* Proofs about MgmtChannel, for any number of connections, stalls,        *)
(* reports and commands: both directions of the management channel are     *)
(* implementations of OrderedChannel.                                      *)
(*                                                                         *)
(* That reports are handled in order rests on how the server replaces a    *)
(* connection.  Only the current connection and the one being closed can   *)
(* be read; those that have just arrived queue for _conn_lock in the order *)
(* of their handshakes, which is the order of the connections as soon as a *)
(* report has been sent on them.  Commands stay in order since the client  *)
(* drops what it has not received when it gives a connection up.           *)
(***************************************************************************)
EXTENDS MgmtChannel, WellFoundedInduction, TLAPS

-----------------------------------------------------------------------------
(* The smallest of a nonempty set of numbers. *)
LEMMA SmallestExists ==
    ASSUME NEW S, S \subseteq Nat, S # {}
    PROVE  \E x \in S : \A y \in S : x <= y
<1> DEFINE R == {p \in Nat \X Nat : p[1] < p[2]}
<1>1. R = OpToRel(<, Nat)
  BY Zenon DEF OpToRel
<1>2. IsWellFoundedOn(R, Nat)
  BY <1>1, NatLessThanWellFounded, Zenon
<1>3. \E x \in S : \A y \in S : <<y, x>> \notin R
  <2> HIDE DEF R
  <2> QED BY <1>2, WFMin, Zenon
<1>4. \A x, y \in Nat : <<y, x>> \notin R => x <= y
  <2> SUFFICES ASSUME NEW x \in Nat, NEW y \in Nat, ~(y < x) PROVE x <= y
    BY SMT
  <2> QED BY SMT
<1> HIDE DEF R
<1> QED BY <1>3, <1>4

LEMMA MinIsSmallest ==
    ASSUME NEW S, S \subseteq Nat, S # {}
    PROVE  Min(S) \in S /\ \A y \in S : Min(S) <= y
<1>1. PICK x \in S : \A y \in S : x <= y
  BY SmallestExists
<1> QED BY <1>1, Zenon DEF Min

-----------------------------------------------------------------------------
(* The inductive invariant, in parts. *)

(* TypeOK, and that the calls of send_command are within their bound. *)
ClientType ==
    /\ attempt \in 0 .. MaxConns
    /\ stage \in {"waiting", "opening", "connected"}
    /\ stage # "waiting" => attempt # NoConn
    /\ piClosed \subseteq Conns
    /\ piBlocked \in BOOLEAN
NumberType ==
    /\ reportNo \in 0 .. MaxReports /\ latest \in 0 .. reportNo
    /\ cmdNo \in Nat /\ waiting \in Nat /\ cmdNo + waiting <= MaxCommands
    /\ applied \in 0 .. cmdNo
    /\ piBuffer \subseteq 1 .. cmdNo /\ pings \subseteq 1 .. cmdNo
LinkType ==
    /\ link \in [Conns -> {"none", "up", "stalled", "closed"}]
    /\ stalls \in 0 .. MaxStalls
ToMacType == toMac \in [Conns -> SUBSET (1 .. reportNo)]
ToPiType  == toPi \in [Conns -> SUBSET (1 .. cmdNo)]
HandlerType ==
    /\ handler \in [Conns -> {"none", "arrived", "closing", "reading", "done"}]
    /\ ticket \in [Conns -> Nat] /\ tickets \in Nat
CurrentType ==
    /\ macClosed \subseteq Conns
    /\ piWs \in 0 .. MaxConns /\ old \in 0 .. MaxConns /\ sending \in 0 .. MaxConns
    /\ \A c \in Conns : handler[c] = "closing" => old # NoConn /\ c = piWs
Types == ClientType /\ NumberType /\ LinkType /\ ToMacType /\ ToPiType
             /\ HandlerType /\ CurrentType

(* Connections the client has not opened leave no trace. *)
Unopened ==
    \A c \in Conns : c > attempt =>
        link[c] = "none" /\ handler[c] = "none" /\ toMac[c] = {}

(* A connection with reports has a handler that is not done. *)
Handlers ==
    /\ stage = "connected" => handler[attempt] # "none"
    /\ \A c \in Conns : handler[c] = "done" => link[c] = "closed"
    /\ \A c \in Conns : link[c] = "closed" => toMac[c] = {}
    /\ \A c \in Conns : toMac[c] # {} => handler[c] # "none"
    /\ \A c \in Conns : ticket[c] <= tickets

(* Only _pi_ws and the connection being closed are read. *)
Current ==
    /\ piWs # NoConn => handler[piWs] \in {"closing", "reading"}
    /\ old # NoConn => handler[old] # "none" /\ piWs # NoConn /\ handler[piWs] = "closing"
    /\ NoOrphan
    /\ \A c \in Conns : handler[c] \in {"closing", "reading"} /\ link[c] # "closed"
                            => c = piWs \/ c = old

(* Connections that carry reports queue for _conn_lock in their order. *)
QueueOrder ==
    /\ \A c, d \in Conns :
          toMac[c] # {} /\ handler[c] = "arrived" /\ c < d /\ handler[d] # "none"
              => handler[d] = "arrived" /\ ticket[c] < ticket[d]
    /\ old # NoConn /\ toMac[piWs] # {} => old <= piWs

(* Reports of an earlier connection are earlier, and all are yet to come. *)
ReportOrder ==
    /\ \A c, d \in Conns : c < d => \A m \in toMac[c], n \in toMac[d] : m < n
    /\ \A c \in Conns : \A m \in toMac[c] : m > latest

(* The client has closed every connection but the one it is using. *)
Closed ==
    /\ \A c \in Conns : c < attempt \/ (c = attempt /\ stage = "waiting") => c \in piClosed
    /\ \A c \in Conns : toPi[c] # {} => c = attempt /\ stage # "waiting"

(* Commands received come before those under way; all are yet to come. *)
CommandOrder ==
    /\ \A c \in Conns : \A k \in piBuffer, n \in toPi[c] : k < n
    /\ \A k \in piBuffer : k > applied
    /\ \A c \in Conns : \A n \in toPi[c] : n > applied

ServerInv == Types /\ Unopened /\ Handlers /\ Current
ReportInv == ServerInv /\ QueueOrder /\ ReportOrder
CommandInv == ServerInv /\ Closed /\ CommandOrder

LEMMA BoundsAreNat ==
    MaxConns \in Nat /\ MaxStalls \in Nat /\ MaxReports \in Nat /\ MaxCommands \in Nat
  BY BoundsAssumption

LEMMA NumbersAreNat ==
    ASSUME Types
    PROVE  /\ piBuffer \subseteq Nat
           /\ \A c \in Conns : toPi[c] \subseteq Nat /\ toMac[c] \subseteq Nat
  BY DEF Types, ClientType, NumberType, ToPiType, ToMacType

LEMMA ClientTypeStep ==
    ASSUME Types, [Next]_vars
    PROVE  ClientType'
<1> USE BoundsAreNat DEF Conns, NoConn, Types, ClientType
<1>1. CASE Connect
  BY <1>1 DEF Connect, client, network, handlers, commands
<1>2. CASE Opened
  BY <1>2 DEF Opened, client, network, handlers, commands
<1>3. CASE GiveUp
  BY <1>3 DEF GiveUp, client, network, handlers, commands
<1>4. CASE SendReport
  BY <1>4 DEF SendReport, client, network, handlers, commands, Ws
<1>5. CASE Unblock
  BY <1>5 DEF Unblock, client, network, handlers, commands
<1>6. CASE Disconnect
  <2>1. Ws = attempt /\ attempt \in Conns
    BY <1>6 DEF Disconnect, Ws
  <2> QED BY <1>6, <2>1 DEF Disconnect, handlers, commands
<1>7. CASE Arrive \/ Dispatch \/ Call \/ SendCommand \/ SendReturns \/
          UNCHANGED vars
          \/ \E c \in Conns : Stall(c) \/ Recover(c) \/ Accept(c) \/ TakeOver(c)
                              \/ CloseReturns(c) \/ HandleReport(c) \/
                              HandlerEnds(c) \/ Keepalive(c)
  BY <1>7 DEF Arrive, Dispatch, Call, SendCommand, SendReturns, Stall,
              Recover, Accept, TakeOver, CloseReturns, HandleReport,
              HandlerEnds, Keepalive,
              vars, client, network, handlers, commands
<1> QED BY <1>1, <1>2, <1>3, <1>4, <1>5, <1>6, <1>7 DEF Next

LEMMA NumberTypeStep ==
    ASSUME Types, [Next]_vars
    PROVE  NumberType'
<1> USE BoundsAreNat DEF Conns, NoConn, Types, NumberType
<1>1. CASE SendReport
  BY <1>1 DEF SendReport, client, network, handlers, commands, Ws
<1>2. CASE Arrive
  <2>1. attempt \in Conns /\ Ws = attempt
    BY <1>2 DEF Arrive, Ws, ClientType
  <2>2. Min(toPi[attempt]) \in toPi[attempt]
    BY <1>2, <2>1, MinIsSmallest, NumbersAreNat DEF Arrive
  <2>3. toPi[attempt] \subseteq 1 .. cmdNo
    BY <2>1 DEF ToPiType
  <2>4. piBuffer' \subseteq 1 .. cmdNo
    BY <1>2, <2>1, <2>2, <2>3 DEF Arrive
  <2> QED BY <1>2, <2>4 DEF Arrive, handlers, commands
<1>3. CASE Dispatch
  <2>1. Min(piBuffer) \in piBuffer
    BY <1>3, MinIsSmallest, NumbersAreNat DEF Dispatch
  <2>2. applied' = Min(piBuffer) /\ piBuffer' = piBuffer \ {Min(piBuffer)}
    BY <1>3 DEF Dispatch
  <2>3. applied' \in 0 .. cmdNo /\ piBuffer' \subseteq 1 .. cmdNo
    <3> DEFINE k == Min(piBuffer)
    <3>1. k \in 1 .. cmdNo
      BY <2>1
    <3> HIDE DEF k
    <3>2. applied' = k /\ piBuffer' \subseteq piBuffer
      BY <2>2 DEF k
    <3> QED BY <3>1, <3>2
  <2> QED BY <1>3, <2>3 DEF Dispatch, handlers, commands
<1>4. CASE Call
  BY <1>4 DEF Call, client, network, handlers, commands
<1>5. CASE SendCommand
  BY <1>5 DEF SendCommand, client, network, handlers, commands
<1>6. ASSUME NEW c \in Conns, HandleReport(c) PROVE NumberType'
  <2>1. Min(toMac[c]) \in toMac[c]
    BY <1>6, MinIsSmallest, NumbersAreNat DEF HandleReport
  <2> QED BY <1>6, <2>1 DEF ToMacType, HandleReport, client, commands
<1>7. CASE Connect \/ Opened \/ GiveUp \/ Unblock \/ Disconnect \/
          SendReturns \/ UNCHANGED vars
          \/ \E c \in Conns : Stall(c) \/ Recover(c) \/ Accept(c) \/ TakeOver(c)
                              \/ CloseReturns(c) \/ HandlerEnds(c) \/
                              Keepalive(c)
  BY <1>7 DEF Connect, Opened, GiveUp, Unblock, Disconnect, SendReturns,
              Stall, Recover, Accept, TakeOver, CloseReturns, HandlerEnds,
              Keepalive, vars, client, network, handlers, commands
<1> QED BY <1>1, <1>2, <1>3, <1>4, <1>5, <1>6, <1>7 DEF Next

LEMMA LinkTypeStep ==
    ASSUME Types, [Next]_vars
    PROVE  LinkType'
<1> USE BoundsAreNat DEF Conns, NoConn, Types, LinkType, ClientType, CurrentType
<1>1. CASE Connect
  BY <1>1 DEF Connect, client, network, handlers, commands
<1>2. ASSUME NEW c \in Conns, Stall(c) PROVE LinkType'
  BY <1>2 DEF Stall, client, network, handlers, commands
<1>3. ASSUME NEW c \in Conns, Recover(c) PROVE LinkType'
  BY <1>3 DEF Recover, client, network, handlers, commands
<1>4. ASSUME NEW c \in Conns, CloseReturns(c) PROVE LinkType'
  BY <1>4 DEF CloseReturns, client, network, handlers, commands
<1>5. ASSUME NEW c \in Conns, HandlerEnds(c) PROVE LinkType'
  BY <1>5 DEF HandlerEnds, client, network, handlers, commands
<1>6. CASE Opened \/ GiveUp \/ SendReport \/ Unblock \/ Arrive \/
          Dispatch \/ Disconnect \/ Call \/ SendCommand \/ SendReturns \/
          UNCHANGED vars
          \/ \E c \in Conns : Accept(c) \/ TakeOver(c) \/ HandleReport(c) \/
                              Keepalive(c)
  BY <1>6 DEF Opened, GiveUp, SendReport, Unblock, Arrive, Dispatch,
              Disconnect, Call, SendCommand, SendReturns, Accept, TakeOver,
              HandleReport, Keepalive,
              vars, client, network, handlers, commands
<1> QED BY <1>1, <1>2, <1>3, <1>4, <1>5, <1>6 DEF Next

LEMMA ToMacTypeStep ==
    ASSUME Types, [Next]_vars
    PROVE  ToMacType'
<1> USE BoundsAreNat
        DEF Conns, NoConn, Types, ToMacType, ClientType, NumberType, CurrentType
<1>1. CASE SendReport
  BY <1>1 DEF SendReport, client, network, handlers, commands, Ws
<1>2. ASSUME NEW c \in Conns, CloseReturns(c) PROVE ToMacType'
  BY <1>2 DEF CloseReturns, client, network, handlers, commands
<1>3. ASSUME NEW c \in Conns, HandleReport(c) PROVE ToMacType'
  BY <1>3 DEF HandleReport, client, network, handlers, commands
<1>4. ASSUME NEW c \in Conns, HandlerEnds(c) PROVE ToMacType'
  BY <1>4 DEF HandlerEnds, client, network, handlers, commands
<1>5. CASE Connect \/ Opened \/ GiveUp \/ Unblock \/ Arrive \/ Dispatch \/
          Disconnect \/ Call \/ SendCommand \/ SendReturns \/ UNCHANGED vars
          \/ \E c \in Conns : Stall(c) \/ Recover(c) \/ Accept(c) \/ TakeOver(c)
                              \/ Keepalive(c)
  BY <1>5 DEF Connect, Opened, GiveUp, Unblock, Arrive, Dispatch,
              Disconnect, Call, SendCommand, SendReturns, Stall, Recover,
              Accept, TakeOver, Keepalive,
              vars, client, network, handlers, commands
<1> QED BY <1>1, <1>2, <1>3, <1>4, <1>5 DEF Next

LEMMA ToPiTypeStep ==
    ASSUME Types, [Next]_vars
    PROVE  ToPiType'
<1> USE BoundsAreNat
        DEF Conns, NoConn, Types, ToPiType, ClientType, NumberType, CurrentType
<1>1. CASE GiveUp
  BY <1>1 DEF GiveUp, client, network, handlers, commands
<1>2. CASE Arrive
  BY <1>2 DEF Arrive, client, network, handlers, commands, Ws
<1>3. CASE Disconnect
  BY <1>3 DEF Disconnect, client, network, handlers, commands, Ws
<1>4. CASE SendCommand
  BY <1>4 DEF SendCommand, client, network, handlers, commands
<1>5. CASE Connect \/ Opened \/ SendReport \/ Unblock \/ Dispatch \/
          Call \/ SendReturns \/ UNCHANGED vars
          \/ \E c \in Conns : Stall(c) \/ Recover(c) \/ Accept(c) \/ TakeOver(c)
                              \/ CloseReturns(c) \/ HandleReport(c) \/
                              HandlerEnds(c) \/ Keepalive(c)
  BY <1>5 DEF Connect, Opened, SendReport, Unblock, Dispatch, Call,
              SendReturns, Stall, Recover, Accept, TakeOver, CloseReturns,
              HandleReport, HandlerEnds, Keepalive,
              vars, client, network, handlers, commands
<1> QED BY <1>1, <1>2, <1>3, <1>4, <1>5 DEF Next

LEMMA HandlerTypeStep ==
    ASSUME Types, [Next]_vars
    PROVE  HandlerType'
<1> USE BoundsAreNat DEF Conns, NoConn, Types, HandlerType
<1>1. ASSUME NEW c \in Conns, Accept(c) PROVE HandlerType'
  BY <1>1 DEF Accept, client, network, handlers, commands
<1>2. ASSUME NEW c \in Conns, TakeOver(c) PROVE HandlerType'
  BY <1>2 DEF TakeOver, client, network, handlers, commands
<1>3. ASSUME NEW c \in Conns, CloseReturns(c) PROVE HandlerType'
  BY <1>3 DEF CloseReturns, client, network, handlers, commands
<1>4. ASSUME NEW c \in Conns, HandlerEnds(c) PROVE HandlerType'
  BY <1>4 DEF HandlerEnds, client, network, handlers, commands
<1>5. CASE Connect \/ Opened \/ GiveUp \/ SendReport \/ Unblock \/
          Arrive \/ Dispatch \/ Disconnect \/ Call \/ SendCommand \/
          SendReturns \/ UNCHANGED vars
          \/ \E c \in Conns : Stall(c) \/ Recover(c) \/ HandleReport(c) \/
                              Keepalive(c)
  BY <1>5 DEF Connect, Opened, GiveUp, SendReport, Unblock, Arrive,
              Dispatch, Disconnect, Call, SendCommand, SendReturns, Stall,
              Recover, HandleReport, Keepalive,
              vars, client, network, handlers, commands
<1> QED BY <1>1, <1>2, <1>3, <1>4, <1>5 DEF Next

LEMMA CurrentTypeStep ==
    ASSUME Types, [Next]_vars
    PROVE  CurrentType'
<1> USE BoundsAreNat DEF Conns, NoConn, Types, HandlerType, CurrentType
<1>1. CASE SendCommand
  BY <1>1 DEF SendCommand, client, network, handlers, commands
<1>2. CASE SendReturns
  BY <1>2 DEF SendReturns, client, network, handlers, commands
<1>3. ASSUME NEW c \in Conns, Accept(c) PROVE CurrentType'
  BY <1>3 DEF Accept, client, network, handlers, commands
<1>4. ASSUME NEW c \in Conns, TakeOver(c) PROVE CurrentType'
  <2>1. \A d \in Conns : handler[d] # "closing"
    BY <1>4 DEF TakeOver
  <2>2. CASE piWs = NoConn
    <3>1. UNCHANGED <<old, macClosed, sending>> /\ piWs' = c
      BY <1>4, <2>2 DEF TakeOver, commands
    <3>2. \A d \in Conns : handler'[d] # "closing"
      BY <1>4, <2>1, <2>2 DEF TakeOver
    <3> QED BY <3>1, <3>2
  <2>3. CASE piWs # NoConn
    <3>1. old' = piWs /\ macClosed' = macClosed \cup {piWs} /\ piWs' = c /\ sending' = sending
      BY <1>4, <2>3 DEF TakeOver, commands
    <3>2. \A d \in Conns : handler'[d] = "closing" => d = c
      BY <1>4, <2>1, <2>3 DEF TakeOver
    <3> QED BY <2>3, <3>1, <3>2
  <2> QED BY <2>2, <2>3
<1>5. ASSUME NEW c \in Conns, CloseReturns(c) PROVE CurrentType'
  BY <1>5 DEF CloseReturns, client, network, handlers, commands
<1>6. ASSUME NEW c \in Conns, HandlerEnds(c) PROVE CurrentType'
  BY <1>6 DEF HandlerEnds, client, network, handlers, commands
<1>7. ASSUME NEW c \in Conns, Keepalive(c) PROVE CurrentType'
  BY <1>7 DEF Keepalive, client, network, handlers, commands
<1>8. CASE Connect \/ Opened \/ GiveUp \/ SendReport \/ Unblock \/
          Arrive \/ Dispatch \/ Disconnect \/ Call \/ UNCHANGED vars
          \/ \E c \in Conns : Stall(c) \/ Recover(c) \/ HandleReport(c)
  BY <1>8 DEF Connect, Opened, GiveUp, SendReport, Unblock, Arrive,
              Dispatch, Disconnect, Call, Stall, Recover, HandleReport,
              vars, client, network, handlers, commands
<1> QED BY <1>1, <1>2, <1>3, <1>4, <1>5, <1>6, <1>7, <1>8 DEF Next

LEMMA TypesStep ==
    ASSUME Types, [Next]_vars
    PROVE  Types'
  BY ClientTypeStep, NumberTypeStep, LinkTypeStep, ToMacTypeStep, ToPiTypeStep,
     HandlerTypeStep, CurrentTypeStep DEF Types

LEMMA UnopenedStep ==
    ASSUME Types, Unopened, Current, [Next]_vars
    PROVE  Unopened'
<1> USE BoundsAreNat
        DEF Conns, NoConn, Types, ClientType, NumberType, LinkType, ToMacType, ToPiType,
            HandlerType, CurrentType, Unopened, Current
<1>1. CASE Connect
  BY <1>1 DEF Connect, client, network, handlers, commands
<1>2. CASE SendReport
  BY <1>2 DEF SendReport, client, network, handlers, commands, Ws
<1>3. ASSUME NEW c \in Conns, Stall(c) PROVE Unopened'
  BY <1>3 DEF Stall, client, network, handlers, commands
<1>4. ASSUME NEW c \in Conns, Recover(c) PROVE Unopened'
  BY <1>4 DEF Recover, client, network, handlers, commands
<1>5. ASSUME NEW c \in Conns, Accept(c) PROVE Unopened'
  BY <1>5 DEF Accept, client, network, handlers, commands
<1>6. ASSUME NEW c \in Conns, TakeOver(c) PROVE Unopened'
  BY <1>6 DEF TakeOver, client, network, handlers, commands
<1>7. ASSUME NEW c \in Conns, CloseReturns(c) PROVE Unopened'
  BY <1>7 DEF CloseReturns, client, network, handlers, commands
<1>8. ASSUME NEW c \in Conns, HandleReport(c) PROVE Unopened'
  BY <1>8 DEF HandleReport, client, network, handlers, commands
<1>9. ASSUME NEW c \in Conns, HandlerEnds(c) PROVE Unopened'
  BY <1>9 DEF HandlerEnds, client, network, handlers, commands
<1>10. CASE Opened \/ GiveUp \/ Unblock \/ Arrive \/ Dispatch \/
          Disconnect \/ Call \/ SendCommand \/ SendReturns \/ UNCHANGED vars
          \/ \E c \in Conns : Keepalive(c)
  BY <1>10 DEF Opened, GiveUp, Unblock, Arrive, Dispatch, Disconnect, Call,
              SendCommand, SendReturns, Keepalive,
              vars, client, network, handlers, commands
<1> QED BY <1>1, <1>2, <1>3, <1>4, <1>5, <1>6, <1>7, <1>8, <1>9,
       <1>10 DEF Next

LEMMA HandlersStep ==
    ASSUME Types, Unopened, Handlers, [Next]_vars
    PROVE  Handlers'
<1> USE BoundsAreNat
        DEF Conns, NoConn, Types, ClientType, NumberType, LinkType, ToMacType, ToPiType,
            HandlerType, CurrentType, Unopened, Handlers
<1>1. CASE Connect
  BY <1>1 DEF Connect, client, network, handlers, commands
<1>2. CASE Opened
  BY <1>2 DEF Opened, client, network, handlers, commands
<1>3. CASE GiveUp
  BY <1>3 DEF GiveUp, client, network, handlers, commands
<1>4. CASE SendReport
  BY <1>4 DEF SendReport, client, network, handlers, commands, Ws
<1>5. CASE Disconnect
  BY <1>5 DEF Disconnect, client, network, handlers, commands, Ws
<1>6. ASSUME NEW c \in Conns, Stall(c) PROVE Handlers'
  BY <1>6 DEF Stall, client, network, handlers, commands
<1>7. ASSUME NEW c \in Conns, Recover(c) PROVE Handlers'
  BY <1>7 DEF Recover, client, network, handlers, commands
<1>8. ASSUME NEW c \in Conns, Accept(c) PROVE Handlers'
  <2>1. \A d \in Conns : ticket'[d] <= tickets'
    BY <1>8 DEF Accept
  <2> QED BY <1>8, <2>1 DEF Accept, client, network, commands
<1>9. ASSUME NEW c \in Conns, TakeOver(c) PROVE Handlers'
  <2>1. UNCHANGED <<link, toMac, attempt, stage, ticket, tickets>>
    BY <1>9 DEF TakeOver, client, network
  <2>2. handler[c] = "arrived" /\ handler'[c] \in {"closing", "reading"}
    BY <1>9 DEF TakeOver
  <2>3. \A d \in Conns : d # c => handler'[d] = handler[d]
    BY <1>9 DEF TakeOver
  <2> QED BY <2>1, <2>2, <2>3
<1>10. ASSUME NEW c \in Conns, CloseReturns(c) PROVE Handlers'
  BY <1>10 DEF CloseReturns, client, network, handlers, commands
<1>11. ASSUME NEW c \in Conns, HandleReport(c) PROVE Handlers'
  BY <1>11 DEF HandleReport, client, network, handlers, commands
<1>12. ASSUME NEW c \in Conns, HandlerEnds(c) PROVE Handlers'
  BY <1>12 DEF HandlerEnds, client, network, handlers, commands
<1>13. CASE Unblock \/ Arrive \/ Dispatch \/ Call \/ SendCommand \/
          SendReturns \/ UNCHANGED vars
          \/ \E c \in Conns : Keepalive(c)
  BY <1>13 DEF Unblock, Arrive, Dispatch, Call, SendCommand, SendReturns,
              Keepalive, vars, client, network, handlers, commands
<1> QED BY <1>1, <1>2, <1>3, <1>4, <1>5, <1>6, <1>7, <1>8, <1>9, <1>10,
       <1>11, <1>12, <1>13 DEF Next

LEMMA CurrentStep ==
    ASSUME Types, Unopened, Handlers, Current, [Next]_vars
    PROVE  Current'
<1> USE BoundsAreNat
        DEF Conns, NoConn, Types, ClientType, NumberType, LinkType, ToMacType, ToPiType,
            HandlerType, CurrentType, Unopened, Handlers, Current, NoOrphan
<1>1. CASE Connect
  BY <1>1 DEF Connect, client, network, handlers, commands
<1>2. ASSUME NEW c \in Conns, Stall(c) PROVE Current'
  BY <1>2 DEF Stall, client, network, handlers, commands
<1>3. ASSUME NEW c \in Conns, Recover(c) PROVE Current'
  BY <1>3 DEF Recover, client, network, handlers, commands
<1>4. ASSUME NEW c \in Conns, Accept(c) PROVE Current'
  BY <1>4 DEF Accept, client, network, handlers, commands
<1>5. ASSUME NEW c \in Conns, TakeOver(c) PROVE Current'
  BY <1>5 DEF TakeOver, client, network, handlers, commands
<1>6. ASSUME NEW c \in Conns, CloseReturns(c) PROVE Current'
  BY <1>6 DEF CloseReturns, client, network, handlers, commands
<1>7. ASSUME NEW c \in Conns, HandlerEnds(c) PROVE Current'
  BY <1>7 DEF HandlerEnds, client, network, handlers, commands
<1>8. ASSUME NEW c \in Conns, Keepalive(c) PROVE Current'
  BY <1>8 DEF Keepalive, client, network, handlers, commands
<1>9. CASE Opened \/ GiveUp \/ SendReport \/ Unblock \/ Arrive \/
          Dispatch \/ Disconnect \/ Call \/ SendCommand \/ SendReturns \/
          UNCHANGED vars
          \/ \E c \in Conns : HandleReport(c)
  BY <1>9 DEF Opened, GiveUp, SendReport, Unblock, Arrive, Dispatch,
              Disconnect, Call, SendCommand, SendReturns, HandleReport,
              vars, client, network, handlers, commands
<1> QED BY <1>1, <1>2, <1>3, <1>4, <1>5, <1>6, <1>7, <1>8, <1>9 DEF Next

LEMMA QueueOrderStep ==
    ASSUME ReportInv, [Next]_vars
    PROVE  QueueOrder'
<1> USE BoundsAreNat
        DEF Conns, NoConn, ReportInv, ServerInv, Types, ClientType, NumberType,
            LinkType, ToMacType, ToPiType, HandlerType, CurrentType, Unopened, Handlers,
            Current, QueueOrder
<1>1. CASE Connect
  BY <1>1 DEF Connect, client, network, handlers, commands
<1>2. CASE SendReport
  BY <1>2 DEF SendReport, client, network, handlers, commands, Ws
<1>3. ASSUME NEW c \in Conns, Accept(c) PROVE QueueOrder'
  <2>1. toMac[c] = {} /\ UNCHANGED <<toMac, old, piWs>>
    BY <1>3 DEF Accept, network
  <2>2. ASSUME NEW d \in Conns, NEW e \in Conns, toMac[d] # {},
               handler'[d] = "arrived", d < e, handler'[e] # "none"
        PROVE  handler'[e] = "arrived" /\ ticket'[d] < ticket'[e]
    <3>1. handler[d] = "arrived" /\ ticket'[d] = ticket[d] /\ ticket[d] <= tickets
      BY <1>3, <2>1, <2>2 DEF Accept
    <3>2. CASE e = c
      BY <1>3, <3>1, <3>2 DEF Accept
    <3>3. CASE e # c
      BY <1>3, <2>2, <3>1, <3>3 DEF Accept
    <3> QED BY <3>2, <3>3
  <2> QED BY <2>1, <2>2
<1>4. ASSUME NEW c \in Conns, TakeOver(c) PROVE QueueOrder'
  <2>1. UNCHANGED <<toMac, ticket>> /\ piWs' = c
    BY <1>4 DEF TakeOver, network
  <2>2. handler'[c] \in {"closing", "reading"}
    BY <1>4 DEF TakeOver
  <2>3. \A d \in Conns : d # c => handler'[d] = handler[d]
    BY <1>4 DEF TakeOver
  <2>4. ASSUME NEW d \in Conns, NEW e \in Conns, toMac[d] # {},
               handler'[d] = "arrived", d < e, handler'[e] # "none"
        PROVE  handler'[e] = "arrived" /\ ticket[d] < ticket[e]
    <3>1. d # c /\ handler[d] = "arrived"
      BY <2>2, <2>3, <2>4
    <3>2. ticket[c] <= ticket[d] /\ handler[c] = "arrived"
      BY <1>4, <3>1 DEF TakeOver
    <3>3. handler[e] # "none" => ticket[d] < ticket[e]
      BY <2>4, <3>1
    <3>4. ticket[c] \in Nat /\ ticket[d] \in Nat
      OBVIOUS
    <3>5. e # c
      BY <3>2, <3>3, <3>4
    <3> QED BY <2>3, <2>4, <3>1, <3>5
  <2>5. ASSUME old' # NoConn, toMac[c] # {} PROVE old' <= c
    <3>1. handler[c] = "arrived" /\ old' = piWs /\ piWs \in Conns
      BY <1>4, <2>5 DEF TakeOver
    <3>2. handler[piWs] \in {"closing", "reading"}
      BY <3>1
    <3>3. ~(c < piWs)
      BY <2>5, <3>1, <3>2
    <3> QED BY <3>1, <3>3
  <2> QED BY <2>1, <2>4, <2>5
<1>5. ASSUME NEW c \in Conns, CloseReturns(c) PROVE QueueOrder'
  BY <1>5 DEF CloseReturns, client, network, handlers, commands
<1>6. ASSUME NEW c \in Conns, HandleReport(c) PROVE QueueOrder'
  BY <1>6 DEF HandleReport, client, network, handlers, commands
<1>7. ASSUME NEW c \in Conns, HandlerEnds(c) PROVE QueueOrder'
  BY <1>7 DEF HandlerEnds, client, network, handlers, commands
<1>8. CASE Opened \/ GiveUp \/ Unblock \/ Arrive \/ Dispatch \/
          Disconnect \/ Call \/ SendCommand \/ SendReturns \/ UNCHANGED vars
          \/ \E c \in Conns : Stall(c) \/ Recover(c) \/ Keepalive(c)
  BY <1>8 DEF Opened, GiveUp, Unblock, Arrive, Dispatch, Disconnect, Call,
              SendCommand, SendReturns, Stall, Recover, Keepalive,
              vars, client, network, handlers, commands
<1> QED BY <1>1, <1>2, <1>3, <1>4, <1>5, <1>6, <1>7, <1>8 DEF Next

(* A handler that reads a report reads the oldest there is. *)
LEMMA ReadInOrder ==
    ASSUME ReportInv, NEW c \in Conns, HandleReport(c),
           NEW d \in Conns, d # c, NEW m \in toMac[c], NEW n \in toMac[d]
    PROVE  m < n
<1> USE DEF ReportInv, ServerInv, Types, ClientType, CurrentType, HandlerType, LinkType, Conns, NoConn
<1>1. handler[c] = "reading" /\ link[c] = "up" /\ toMac[c] # {}
  BY DEF HandleReport
<1>2. CASE c < d
  BY <1>2 DEF ReportOrder
<1>3. CASE d < c
  <2>1. handler[d] \notin {"none", "done"} /\ link[d] # "closed"
    BY DEF Handlers
  <2>2. handler[d] # "arrived"
    BY <1>1, <1>3 DEF QueueOrder
  <2>3. (c = piWs \/ c = old) /\ (d = piWs \/ d = old)
    BY <1>1, <2>1, <2>2 DEF Current
  <2>4. c = old /\ d = piWs
    BY <1>1, <1>3, <2>3 DEF Current
  <2> QED BY <1>3, <2>4 DEF QueueOrder
<1> QED BY <1>2, <1>3

LEMMA ReportOrderStep ==
    ASSUME ReportInv, [Next]_vars
    PROVE  ReportOrder'
<1> USE BoundsAreNat
        DEF Conns, NoConn, ReportInv, ServerInv, Types, ClientType, NumberType,
            LinkType, ToMacType, ToPiType, HandlerType, CurrentType, Unopened,
            ReportOrder
<1>1. CASE SendReport
  BY <1>1 DEF SendReport, client, network, handlers, commands, Ws
<1>2. ASSUME NEW c \in Conns, CloseReturns(c) PROVE ReportOrder'
  BY <1>2 DEF CloseReturns, client, network, handlers, commands
<1>3. ASSUME NEW c \in Conns, HandleReport(c) PROVE ReportOrder'
  <2> DEFINE m == Min(toMac[c])
  <2>1. m \in toMac[c] /\ \A n \in toMac[c] : m <= n
    BY <1>3, MinIsSmallest, NumbersAreNat DEF HandleReport
  <2>2. \A d \in Conns : \A n \in toMac[d] : d # c => m < n
    BY <1>3, <2>1, ReadInOrder
  <2>3. latest' = m /\ toMac' = [toMac EXCEPT ![c] = @ \ {m}]
    BY <1>3 DEF HandleReport
  <2> HIDE DEF m
  <2>4. \A d \in Conns : \A n \in toMac'[d] : n \in toMac[d] /\ n > m
    BY <2>1, <2>2, <2>3, NumbersAreNat
  <2> QED BY <2>3, <2>4
<1>4. ASSUME NEW c \in Conns, HandlerEnds(c) PROVE ReportOrder'
  BY <1>4 DEF HandlerEnds, client, network, handlers, commands
<1>5. CASE Connect \/ Opened \/ GiveUp \/ Unblock \/ Arrive \/ Dispatch \/
          Disconnect \/ Call \/ SendCommand \/ SendReturns \/ UNCHANGED vars
          \/ \E c \in Conns : Stall(c) \/ Recover(c) \/ Accept(c) \/ TakeOver(c)
                              \/ Keepalive(c)
  BY <1>5 DEF Connect, Opened, GiveUp, Unblock, Arrive, Dispatch,
              Disconnect, Call, SendCommand, SendReturns, Stall, Recover,
              Accept, TakeOver, Keepalive,
              vars, client, network, handlers, commands
<1> QED BY <1>1, <1>2, <1>3, <1>4, <1>5 DEF Next

LEMMA ClosedStep ==
    ASSUME CommandInv, [Next]_vars
    PROVE  Closed'
<1> USE BoundsAreNat
        DEF Conns, NoConn, CommandInv, ServerInv, Types, ClientType, NumberType,
            LinkType, ToMacType, ToPiType, HandlerType, CurrentType, Unopened, Current,
            Closed
<1>1. CASE Connect
  BY <1>1 DEF Connect, client, network, handlers, commands
<1>2. CASE Opened
  BY <1>2 DEF Opened, client, network, handlers, commands
<1>3. CASE GiveUp
  BY <1>3 DEF GiveUp, client, network, handlers, commands
<1>4. CASE Arrive
  BY <1>4 DEF Arrive, client, network, handlers, commands, Ws
<1>5. CASE Disconnect
  BY <1>5 DEF Disconnect, client, network, handlers, commands, Ws
<1>6. CASE SendCommand
  BY <1>6 DEF SendCommand, client, network, handlers, commands
<1>7. CASE SendReport \/ Unblock \/ Dispatch \/ Call \/ SendReturns \/
          UNCHANGED vars
          \/ \E c \in Conns : Stall(c) \/ Recover(c) \/ Accept(c) \/ TakeOver(c)
                              \/ CloseReturns(c) \/ HandleReport(c) \/
                              HandlerEnds(c) \/ Keepalive(c)
  BY <1>7 DEF SendReport, Unblock, Dispatch, Call, SendReturns, Stall,
              Recover, Accept, TakeOver, CloseReturns, HandleReport,
              HandlerEnds, Keepalive,
              vars, client, network, handlers, commands
<1> QED BY <1>1, <1>2, <1>3, <1>4, <1>5, <1>6, <1>7 DEF Next

LEMMA CommandOrderStep ==
    ASSUME CommandInv, [Next]_vars
    PROVE  CommandOrder'
<1> USE BoundsAreNat
        DEF Conns, NoConn, CommandInv, ServerInv, Types, ClientType, NumberType,
            LinkType, ToMacType, ToPiType, HandlerType, CurrentType, CommandOrder
<1>1. CASE GiveUp
  BY <1>1 DEF GiveUp, client, network, handlers, commands
<1>2. CASE Arrive
  <2> DEFINE k == Min(toPi[attempt])
  <2>1. attempt \in Conns /\ Ws = attempt
    BY <1>2 DEF Arrive, Ws
  <2>2. k \in toPi[attempt] /\ \A n \in toPi[attempt] : k <= n
    BY <1>2, <2>1, MinIsSmallest, NumbersAreNat DEF Arrive
  <2>3. piBuffer' = piBuffer \cup {k} /\ toPi' = [toPi EXCEPT ![attempt] = @ \ {k}]
        /\ applied' = applied
    BY <1>2, <2>1 DEF Arrive
  <2> HIDE DEF k
  <2>4. \A c \in Conns : \A n \in toPi'[c] : c = attempt /\ n \in toPi[attempt] /\ n > k
    BY <2>1, <2>2, <2>3, NumbersAreNat DEF Closed
  <2> QED BY <2>1, <2>2, <2>3, <2>4
<1>3. CASE Dispatch
  <2> DEFINE k == Min(piBuffer)
  <2>1. k \in piBuffer /\ \A n \in piBuffer : k <= n
    BY <1>3, MinIsSmallest, NumbersAreNat DEF Dispatch
  <2>2. applied' = k /\ piBuffer' = piBuffer \ {k} /\ toPi' = toPi
    BY <1>3 DEF Dispatch, network
  <2> HIDE DEF k
  <2> QED BY <2>1, <2>2, NumbersAreNat
<1>4. CASE Disconnect
  BY <1>4 DEF Disconnect, client, network, handlers, commands, Ws
<1>5. CASE SendCommand
  <2>1. applied' = applied /\ piBuffer' = piBuffer
    BY <1>5 DEF SendCommand, client
  <2>2. \A c \in Conns : \A n \in toPi'[c] : n \in toPi[c] \/ n = cmdNo + 1
    BY <1>5 DEF SendCommand
  <2>3. applied <= cmdNo /\ \A k \in piBuffer : k \in Nat /\ k <= cmdNo
    OBVIOUS
  <2>4. ASSUME NEW c \in Conns, NEW n \in toPi'[c]
        PROVE  n > applied /\ \A k \in piBuffer : k < n
    <3>1. CASE n \in toPi[c]
      BY <3>1
    <3>2. CASE n = cmdNo + 1
      BY <2>3, <3>2
    <3> QED BY <2>2, <2>4, <3>1, <3>2
  <2> QED BY <2>1, <2>4
<1>6. CASE Connect \/ Opened \/ SendReport \/ Unblock \/ Call \/
          SendReturns \/ UNCHANGED vars
          \/ \E c \in Conns : Stall(c) \/ Recover(c) \/ Accept(c) \/ TakeOver(c)
                              \/ CloseReturns(c) \/ HandleReport(c) \/
                              HandlerEnds(c) \/ Keepalive(c)
  BY <1>6 DEF Connect, Opened, SendReport, Unblock, Call, SendReturns,
              Stall, Recover, Accept, TakeOver, CloseReturns, HandleReport,
              HandlerEnds, Keepalive,
              vars, client, network, handlers, commands
<1> QED BY <1>1, <1>2, <1>3, <1>4, <1>5, <1>6 DEF Next

LEMMA ServerInvariant ==
    /\ Init => ServerInv
    /\ ServerInv /\ [Next]_vars => ServerInv'
<1>1. Init => ServerInv
  <2> SUFFICES ASSUME Init PROVE ServerInv
    OBVIOUS
  <2> USE BoundsAreNat DEF Init, Conns, NoConn
  <2>1. ClientType
    <3>1. piBlocked \in BOOLEAN
      BY Zenon
    <3> QED BY <3>1 DEF ClientType
  <2>5. NumberType
    BY DEF NumberType
  <2>2. LinkType /\ ToMacType /\ ToPiType /\ HandlerType
    BY DEF LinkType, ToMacType, ToPiType, HandlerType
  <2>3. CurrentType
    BY DEF CurrentType
  <2>4. Unopened /\ Handlers /\ Current
    BY DEF Unopened, Handlers, Current, NoOrphan
  <2> QED BY <2>1, <2>2, <2>3, <2>4, <2>5 DEF ServerInv, Types
<1>2. ServerInv /\ [Next]_vars => ServerInv'
  BY TypesStep, UnopenedStep, HandlersStep, CurrentStep DEF ServerInv
<1> QED BY <1>1, <1>2

LEMMA ReportInvariance == Spec => []ReportInv
<1>1. Init => ReportInv
  BY ServerInvariant DEF Init, ReportInv, QueueOrder, ReportOrder, Conns, NoConn
<1>2. ReportInv /\ [Next]_vars => ReportInv'
  BY ServerInvariant, QueueOrderStep, ReportOrderStep DEF ReportInv
<1> QED BY <1>1, <1>2, PTL DEF Spec

LEMMA CommandInvariance == Spec => []CommandInv
<1>1. Init => CommandInv
  BY ServerInvariant, BoundsAreNat
     DEF Init, CommandInv, Closed, CommandOrder, Conns, NoConn
<1>2. CommandInv /\ [Next]_vars => CommandInv'
  BY ServerInvariant, ClosedStep, CommandOrderStep DEF CommandInv
<1> QED BY <1>1, <1>2, PTL DEF Spec

-----------------------------------------------------------------------------
(* Every attribute of both ends and of the connections between them keeps its
   type; in particular a handler that closes its predecessor is _pi_ws, and has
   a predecessor: nothing overtakes the holder of _conn_lock. *)
THEOREM TypeCorrect == Spec => []TypeOK
<1>1. ServerInv => TypeOK
  BY BoundsAreNat
     DEF ServerInv, TypeOK, Types, ClientType, NumberType, LinkType, ToMacType, ToPiType,
         HandlerType, CurrentType
<1>2. ReportInv => ServerInv
  BY DEF ReportInv
<1> QED BY <1>1, <1>2, ReportInvariance, PTL

(* However many connections replace one another, a connection that is read
   and that the server has not closed is _pi_ws. *)
THEOREM NeverOrphaned == Spec => []NoOrphan
<1>1. ReportInv => NoOrphan
  BY DEF ReportInv, ServerInv, Current
<1> QED BY <1>1, ReportInvariance, PTL

-----------------------------------------------------------------------------
(* Refinement *)

(* A number is pending if it is pending on some connection. *)
LEMMA UnionOverConns ==
    ASSUME NEW f
    PROVE  \A n : n \in UNION {f[c] : c \in Conns} <=> \E c \in Conns : n \in f[c]
  OBVIOUS

(* The reports the Mac handles are handled once and in the order in which the
   Pi took them, whatever happens to the connections that carry them. *)
THEOREM ReportsHandledInOrder == Spec => ReportsInOrder
<1> DEFINE P == UNION {toMac[c] : c \in Conns}
<1>1. Init => Reports!Init
  BY UnionOverConns DEF Init, Reports!Init
<1>2. ReportInv /\ [Next]_vars => [Reports!Next]_Reports!vars
  <2> SUFFICES ASSUME ReportInv, [Next]_vars PROVE [Reports!Next]_Reports!vars
    OBVIOUS
  <2>1. /\ \A n : n \in P <=> \E c \in Conns : n \in toMac[c]
        /\ \A n : n \in P' <=> \E c \in Conns : n \in toMac'[c]
    BY UnionOverConns
  <2>2. toMac \in [Conns -> SUBSET Nat] /\ attempt \in Nat
    BY DEF ReportInv, ServerInv, Types, ToMacType, ClientType
  <2>3. CASE SendReport
    <3>1. reportNo' = reportNo + 1 /\ latest' = latest
      BY <2>3 DEF SendReport
    <3>2. \/ \A c \in Conns : toMac'[c] = toMac[c]
          \/ /\ Ws \in Conns
             /\ toMac' = [toMac EXCEPT ![Ws] = @ \cup {reportNo + 1}]
      BY <2>2, <2>3 DEF SendReport
    <3>3. P' = P \/ P' = P \cup {reportNo + 1}
      <4> HIDE DEF P
      <4>1. CASE \A c \in Conns : toMac'[c] = toMac[c]
        <5>1. \A n : n \in P' <=> n \in P
          BY <2>1, <4>1
        <5> QED BY <5>1
      <4>2. CASE Ws \in Conns /\ toMac' = [toMac EXCEPT ![Ws] = @ \cup {reportNo + 1}]
        <5>1. \A n : n \in P' <=> n \in P \/ n = reportNo + 1
          BY <2>1, <2>2, <4>2
        <5> QED BY <5>1
      <4> QED BY <3>2, <4>1, <4>2
    <3> QED BY <3>1, <3>3 DEF Reports!Next, Reports!Send
  <2>4. ASSUME NEW c \in Conns, HandleReport(c) PROVE Reports!Next
    <3>1. PICK m \in toMac[c] : m = Min(toMac[c]) /\ \A n \in toMac[c] : m <= n
      BY <2>2, <2>4, MinIsSmallest DEF HandleReport
    <3>2. latest' = m /\ toMac' = [toMac EXCEPT ![c] = @ \ {m}] /\ reportNo' = reportNo
      BY <2>4, <3>1 DEF HandleReport
    <3>3. \A d \in Conns : \A n \in toMac[d] : d # c => m < n
      BY <2>4, <3>1, ReadInOrder
    <3>4. m > latest
      BY <3>1 DEF ReportInv, ReportOrder
    <3> HIDE DEF P
    <3>5. m \in P /\ P' \subseteq {n \in P : n > m}
      BY <2>1, <2>2, <3>1, <3>2, <3>3
    <3>6. Reports!Handle(m)
      BY <3>2, <3>4, <3>5 DEF Reports!Handle, P
    <3> QED BY <3>5, <3>6 DEF Reports!Next, P
  <2>5. ASSUME NEW c \in Conns, CloseReturns(c) \/ HandlerEnds(c) PROVE Reports!Next
    <3>1. UNCHANGED <<reportNo, latest>> /\ \A d \in Conns : toMac'[d] \subseteq toMac[d]
      BY <2>2, <2>5 DEF CloseReturns, HandlerEnds
    <3>2. P' \subseteq P
      <4> HIDE DEF P
      <4> QED BY <2>1, <3>1
    <3> QED BY <3>1, <3>2 DEF Reports!Next, Reports!Lose
  <2>6. CASE UNCHANGED <<reportNo, toMac, latest>>
    BY <2>6 DEF Reports!vars
  <2> QED
    BY <2>3, <2>4, <2>5, <2>6
       DEF Next, Connect, Opened, GiveUp, Unblock, Arrive, Dispatch, Disconnect, Stall,
           Recover, Accept, TakeOver, Keepalive, Call, SendCommand, SendReturns,
           vars, client, network, handlers, commands
<1> QED BY <1>1, <1>2, ReportInvariance, PTL DEF Spec, ReportsInOrder, Reports!Spec

(* The commands the Pi dispatches are dispatched once and in the order in
   which send_command wrote them, across breaks and blocked pings. *)
THEOREM CommandsDispatchedInOrder == Spec => CommandsInOrder
<1> DEFINE P == piBuffer \cup UNION {toPi[c] : c \in Conns}
<1>1. Init => Commands!Init
  BY UnionOverConns DEF Init, Commands!Init
<1>2. CommandInv /\ [Next]_vars => [Commands!Next]_Commands!vars
  <2> SUFFICES ASSUME CommandInv, [Next]_vars PROVE [Commands!Next]_Commands!vars
    OBVIOUS
  <2>1. /\ \A n : n \in P <=> n \in piBuffer \/ \E c \in Conns : n \in toPi[c]
        /\ \A n : n \in P' <=> n \in piBuffer' \/ \E c \in Conns : n \in toPi'[c]
    BY UnionOverConns
  <2>2. /\ toPi \in [Conns -> SUBSET Nat] /\ piBuffer \subseteq Nat
        /\ attempt \in 0 .. MaxConns /\ piWs \in 0 .. MaxConns
        /\ stage # "waiting" => attempt # NoConn
    BY DEF CommandInv, ServerInv, Types, ToPiType, ClientType, CurrentType, NumberType
  <2>3. CASE SendCommand
    <3>1. cmdNo' = cmdNo + 1 /\ applied' = applied /\ piBuffer' = piBuffer
      BY <2>3 DEF SendCommand, client
    <3>2. \/ \A c \in Conns : toPi'[c] = toPi[c]
          \/ /\ piWs \in Conns
             /\ toPi' = [toPi EXCEPT ![piWs] = @ \cup {cmdNo + 1}]
      BY <2>2, <2>3, BoundsAreNat DEF SendCommand, Conns, NoConn
    <3>3. P' = P \/ P' = P \cup {cmdNo + 1}
      <4> HIDE DEF P
      <4> QED BY <2>1, <2>2, <3>1, <3>2
    <3> QED BY <3>1, <3>3 DEF Commands!Next, Commands!Send
  <2>4. CASE Arrive
    <3>1. attempt \in Conns /\ Ws = attempt
      BY <2>2, <2>4, BoundsAreNat DEF Arrive, Ws, Conns, NoConn
    <3>2. Min(toPi[attempt]) \in toPi[attempt]
      BY <2>2, <2>4, <3>1, MinIsSmallest DEF Arrive
    <3>3. /\ piBuffer' = piBuffer \cup {Min(toPi[attempt])}
          /\ toPi' = [toPi EXCEPT ![attempt] = @ \ {Min(toPi[attempt])}]
          /\ UNCHANGED <<cmdNo, applied>>
      BY <2>4, <3>1 DEF Arrive, commands
    <3>4. P' = P
      <4> HIDE DEF P
      <4> QED BY <2>1, <2>2, <3>1, <3>2, <3>3
    <3> QED BY <3>3, <3>4 DEF Commands!vars
  <2>5. CASE Dispatch
    <3>1. PICK k \in piBuffer : k = Min(piBuffer) /\ \A n \in piBuffer : k <= n
      BY <2>2, <2>5, MinIsSmallest DEF Dispatch
    <3>2. applied' = k /\ piBuffer' = piBuffer \ {k} /\ UNCHANGED <<toPi, cmdNo>>
      BY <2>5, <3>1 DEF Dispatch, network, commands
    <3> HIDE DEF P
    <3>3. k > applied /\ \A c \in Conns : \A n \in toPi[c] : k < n
      BY <3>1 DEF CommandInv, CommandOrder
    <3>4. k \in P /\ P' \subseteq {n \in P : n > k}
      <4>1. \A n \in P' : n \in P /\ n > k
        <5>1. \A n \in piBuffer' : n \in piBuffer /\ n > k
          BY <2>2, <3>1, <3>2
        <5>2. \A c \in Conns : \A n \in toPi'[c] : n \in toPi[c] /\ n > k
          BY <2>2, <3>1, <3>2, <3>3
        <5> QED BY <2>1, <5>1, <5>2
      <4> QED BY <2>1, <3>1, <4>1
    <3>5. Commands!Handle(k)
      BY <3>2, <3>3, <3>4 DEF Commands!Handle, P
    <3> QED BY <3>4, <3>5 DEF Commands!Next, P
  <2>6. CASE GiveUp \/ Disconnect
    <3>1. UNCHANGED <<cmdNo, applied, piBuffer>>
      BY <2>6 DEF GiveUp, Disconnect, commands
    <3>2. \A c \in Conns : toPi'[c] \subseteq toPi[c]
      BY <2>2, <2>6 DEF GiveUp, Disconnect
    <3>3. P' \subseteq P
      <4> HIDE DEF P
      <4> QED BY <2>1, <3>1, <3>2
    <3> QED BY <3>1, <3>3 DEF Commands!Next, Commands!Lose
  <2>7. CASE UNCHANGED <<cmdNo, toPi, piBuffer, applied>>
    BY <2>7 DEF Commands!vars
  <2> QED
    BY <2>3, <2>4, <2>5, <2>6, <2>7
       DEF Next, Connect, Opened, SendReport, Unblock, Stall, Recover, Accept, TakeOver,
           CloseReturns, HandleReport, HandlerEnds, Keepalive, Call, SendReturns,
           vars, client, network, handlers, commands
<1> QED BY <1>1, <1>2, CommandInvariance, PTL DEF Spec, CommandsInOrder, Commands!Spec
=============================================================================
