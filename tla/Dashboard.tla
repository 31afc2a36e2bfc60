------------------------------ MODULE Dashboard ------------------------------
(***************************************************************************)
(* The dashboard and its feeds: the API server's /ws endpoint and broadcast*)
(* (mac-backend/api_server), the WebSocket client with its reconnects, and *)
(* the merging of what REST and WebSocket bring (useDashboardData).        *)
(*                                                                         *)
(* Of the store two things are shown, which stand for the two ways data is *)
(* merged: the status, replaced by each message, reduced to the session it *)
(* announces; and the results of that session, merged by key.  A broadcast *)
(* is a task that writes to the socket later, while the endpoint may still *)
(* be writing its snapshot to the same socket, and REST answers read       *)
(* before may arrive after.  Of the results, the snapshot and a REST load  *)
(* bring only the most recent, and the view keeps a limited number.        *)
(***************************************************************************)
EXTENDS Naturals, Sequences

CONSTANTS
    MaxSession,   \* bound on the sessions of the store
    MaxRows,      \* bound on the results of each session
    MaxBreaks,    \* bound on the breaks of the WebSocket
    MaxLoads,     \* bound on the REST loads in flight
    SnapshotRows, \* how many results the snapshot sends: 20 in ws_endpoint
    LoadRows,     \* how many a REST load asks for: 200 in load
    BufferRows    \* RESULTS_BUFFER_MAX: 500 in useDashboardData

ASSUME BoundsAssumption ==
    /\ {MaxSession, MaxBreaks, MaxLoads} \subseteq Nat
    /\ MaxRows \in [1 .. MaxSession -> Nat]
ASSUME LimitsAssumption == {SnapshotRows, LoadRows, BufferRows} \subseteq Nat \ {0}

VARIABLES
    (* Store *)
    session,   \* the session the latest status report announced
    count,     \* its results: <<session, 1>> to <<session, count>>
    (* APIServer, and the one socket of this dashboard *)
    conn,      \* "closed", or what ws_endpoint does: "list", "rows", "open"
    listed,    \* results of the snapshot that are still to be sent, in order
    tasks,     \* the broadcasts whose task has not run yet
    wire,      \* messages written and not received
    told,      \* the last status, and the results of this session, written to the
               \* socket (auxiliary)
    since,     \* the first result that was stored in this session while the
               \* socket was there (auxiliary)
    breaks,
    (* useDashboardData *)
    viewStatus,
    viewRows,  \* results, a list of them
    loads      \* the REST loads: what each has read, and has still to do

storeVars == <<session, count>>
wsVars    == <<conn, listed, tasks, wire, told, since, breaks>>
viewVars  == <<viewStatus, viewRows>>
vars == <<storeVars, wsVars, viewVars, loads>>

Nothing == [status |-> 0, rows |-> {}]
Idle    == [status |-> 0, rows |-> << >>, todo |-> {}]

(* Store.get_recent_results(limit) *)
Recent(limit) ==
    LET k == IF count < limit THEN count ELSE limit
    IN  [i \in 1 .. k |-> <<session, count - k + i>>]

Init ==
    /\ session = 0 /\ count = 0
    /\ conn = "closed" /\ listed = << >> /\ tasks = << >> /\ wire = << >>
    /\ told = Nothing /\ since = 1 /\ breaks = 0
    /\ viewStatus = 0 /\ viewRows = << >>
    /\ loads = [i \in 1 .. MaxLoads |-> Idle]

StatusMsg(s) == [kind |-> "status", status |-> s]
RowMsg(r)    == [kind |-> "row", row |-> r]

-----------------------------------------------------------------------------
(* Mutant: a client is registered when its snapshot has been sent. *)
BroadcastToServed(msg) ==
    tasks' = IF conn = "open" THEN Append(tasks, msg) ELSE tasks

(* APIServer.broadcast: a task for each registered client. *)
Broadcast(msg) ==
    tasks' = IF conn # "closed" THEN Append(tasks, msg) ELSE tasks

(* Store.update_pi_status with a new session: its results start empty. *)
NewSession ==
    /\ session < MaxSession
    /\ session' = session + 1
    /\ count' = 0
    /\ Broadcast(StatusMsg(session + 1))
    /\ told' = [told EXCEPT !.rows = {}]
    /\ since' = 1
    /\ UNCHANGED <<conn, listed, wire, breaks, viewVars, loads>>

(* Mutant: a report that brings nothing new is not broadcast. *)
HeartbeatSilent ==
    /\ session > 0
    /\ tasks = << >> /\ wire = << >>
    /\ UNCHANGED vars

(* Store.update_pi_status with nothing new.  (A report every few seconds:  *)
(* here, when those before it have got through.)                           *)
Heartbeat ==
    /\ session > 0
    /\ tasks = << >> /\ wire = << >>
    /\ Broadcast(StatusMsg(session))
    /\ UNCHANGED <<storeVars, conn, listed, wire, told, since, breaks, viewVars,
                   loads>>

(* Store.ingest_bundle *)
NewRow ==
    /\ session > 0 /\ count < MaxRows[session]
    /\ count' = count + 1
    /\ Broadcast(RowMsg(<<session, count + 1>>))
    /\ UNCHANGED <<session, conn, listed, wire, told, since, breaks, viewVars,
                   loads>>

-----------------------------------------------------------------------------
Write(msg) ==
    /\ wire' = Append(wire, msg)
    /\ told' = IF msg.kind = "status" THEN [told EXCEPT !.status = msg.status]
               ELSE [told EXCEPT !.rows = @ \cup {n \in 1 .. count : msg.row = <<session, n>>}]

(* The client connects, or its back-off ends: the endpoint registers it,   *)
(* and sends the snapshot.  Each part is read when it is sent, the results *)
(* as a list at once, and every send may suspend once it has written.      *)
Connect ==
    /\ conn = "closed"
    /\ conn' = "list"
    /\ since' = count + 1
    /\ IF session > 0 THEN Write(StatusMsg(session)) ELSE UNCHANGED <<wire, told>>
    /\ UNCHANGED <<storeVars, listed, tasks, breaks, viewVars, loads>>

ListRows ==
    /\ conn = "list"
    /\ conn' = "rows"
    /\ listed' = Recent(SnapshotRows)
    /\ UNCHANGED <<storeVars, tasks, wire, told, since, breaks, viewVars, loads>>

SendRow ==
    /\ conn = "rows"
    /\ IF listed = << >>
       THEN /\ conn' = "open"
            /\ UNCHANGED <<wire, told, listed>>
       ELSE /\ Write(RowMsg(Head(listed)))
            /\ listed' = Tail(listed)
            /\ UNCHANGED conn
    /\ UNCHANGED <<storeVars, tasks, since, breaks, viewVars, loads>>

(* _send_to_client: tasks run in the order they were created. *)
RunTask ==
    /\ tasks # << >>
    /\ Write(Head(tasks))
    /\ tasks' = Tail(tasks)
    /\ UNCHANGED <<storeVars, conn, listed, since, breaks, viewVars, loads>>

(* The socket breaks; its tasks raise, and the client is discarded. *)
WsBreak ==
    /\ conn # "closed" /\ breaks < MaxBreaks
    /\ breaks' = breaks + 1
    /\ conn' = "closed" /\ listed' = << >> /\ tasks' = << >> /\ wire' = << >>
    /\ told' = Nothing /\ since' = 1
    /\ UNCHANGED <<storeVars, viewVars, loads>>

-----------------------------------------------------------------------------
(* The case telemetry_result of onMessage: a result that is there already is *)
(* replaced where it is, another one is added, and the last ones are kept. *)
Merged(r) ==
    IF \E i \in DOMAIN viewRows : viewRows[i] = r THEN viewRows
    ELSE LET next   == Append(viewRows, r)
             excess == IF Len(next) > BufferRows THEN Len(next) - BufferRows ELSE 0
         IN  SubSeq(next, excess + 1, Len(next))

(* onMessage *)
Receive ==
    /\ wire # << >>
    /\ wire' = Tail(wire)
    /\ LET msg == Head(wire) IN
           IF msg.kind = "status"
           THEN viewStatus' = msg.status /\ UNCHANGED viewRows
           ELSE viewRows' = Merged(msg.row) /\ UNCHANGED viewStatus
    /\ UNCHANGED <<storeVars, conn, listed, tasks, told, since, breaks, loads>>

(* load, at mount or by refresh: requests whose answers are read at the    *)
(* server one by one, and applied together.                                *)
StartLoad ==
    /\ \E i \in DOMAIN loads :
          /\ loads[i] = Idle
          /\ loads' = [loads EXCEPT ![i].todo = {"status", "rows", "apply"}]
    /\ UNCHANGED <<storeVars, wsVars, viewVars>>

ReadLoad ==
    /\ \E i \in DOMAIN loads :
          \/ /\ "status" \in loads[i].todo
             /\ loads' = [loads EXCEPT ![i].status = session, ![i].todo = @ \ {"status"}]
          \/ /\ "rows" \in loads[i].todo
             /\ loads' = [loads EXCEPT ![i].rows = Recent(LoadRows),
                                      ![i].todo = @ \ {"rows"}]
    /\ UNCHANGED <<storeVars, wsVars, viewVars>>

(* GET /api/status fails before the first report, and is then skipped. *)
ApplyLoad ==
    /\ \E i \in DOMAIN loads :
          /\ loads[i].todo = {"apply"}
          /\ viewStatus' = IF loads[i].status > 0 THEN loads[i].status ELSE viewStatus
          /\ viewRows' = loads[i].rows
          /\ loads' = [loads EXCEPT ![i] = Idle]
    /\ UNCHANGED <<storeVars, wsVars>>

Next ==
    \/ NewSession \/ Heartbeat \/ NewRow
    \/ Connect \/ ListRows \/ SendRow \/ RunTask \/ WsBreak
    \/ Receive \/ StartLoad \/ ReadLoad \/ ApplyLoad

Spec == Init /\ [][Next]_vars

(* The Pi keeps reporting, both event loops run, the client reconnects,    *)
(* and REST calls return.                                                  *)
FairSpec ==
    /\ Spec
    /\ WF_vars(Heartbeat)
    /\ WF_vars(Connect \/ ListRows \/ SendRow)
    /\ WF_vars(RunTask) /\ WF_vars(Receive)
    /\ WF_vars(ReadLoad) /\ WF_vars(ApplyLoad)

-----------------------------------------------------------------------------
(* Nothing falls between the snapshot and the broadcasts: when the former  *)
(* has been sent and no task is pending, the last status the socket has    *)
(* been given is the latest; and of the results of the session it has been *)
(* given the last ones, as many as a snapshot holds, every one since it    *)
(* connected, and, from the first it was given on, all.                    *)
Owed(i) ==
    \/ i + SnapshotRows > count
    \/ i >= since
    \/ \E j \in 1 .. i : j \in told.rows
FanOutComplete ==
    conn = "open" /\ tasks = << >>
        => /\ told.status = session
           /\ \A i \in 1 .. count : Owed(i) => i \in told.rows

(* Broken sockets, and answers overtaken by newer messages, are made good  *)
(* for: when the session stays the same, the dashboard ends up showing it; *)
(* and so it does the last of its results, as many as a load asks for, if  *)
(* the operator keeps refreshing until no more come.                       *)
Loading == \E i \in DOMAIN loads : loads[i] # Idle
ShowsRecent ==
    \A i \in DOMAIN Recent(LoadRows) :
        \E j \in DOMAIN viewRows : viewRows[j] = Recent(LoadRows)[i]
ViewConverges ==
    <>[](session > 0) =>
        /\ <>[](viewStatus = session)
        /\ []<>Loading => <>[]ShowsRecent
=============================================================================
