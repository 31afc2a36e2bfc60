-------------------------- MODULE DashboardProofs ---------------------------
(***************************************************************************)
(* Proofs about Dashboard, for any number of sessions, results, breaks of  *)
(* the socket and REST loads, and any limit on the snapshot.               *)
(*                                                                         *)
(* FanOutComplete speaks of the moments at which nothing is under way.     *)
(* What makes it true then holds throughout: of the results of the session *)
(* all from some first one on, and none before it, have been given to the  *)
(* socket or are on their way, in a task or in the snapshot; and that first*)
(* one is never later than the first stored since the client connected.    *)
(***************************************************************************)
EXTENDS Dashboard, SequenceTheorems, TLAPS

Msgs == [kind : {"status"}, status : Nat] \cup [kind : {"row"}, row : Nat \X Nat]

FeedType ==
    /\ session \in Nat /\ count \in Nat
    /\ conn \in {"closed", "list", "rows", "open"}
    /\ tasks \in Seq(Msgs)
    /\ listed \in Seq(Nat \X Nat)
    /\ told \in [status : Nat, rows : SUBSET Nat]
    /\ since \in 1..(count + 1)

(* A closed socket has no tasks, and has been told nothing yet; only while the
   snapshot's results are sent there are some to send. *)
ClosedEmpty ==
    /\ conn = "closed" => tasks = << >> /\ told.status = 0 /\ told.rows = {}
    /\ conn # "rows" => listed = << >>

(* The last status is the latest: among the tasks, or told already. *)
LastStatus(i) ==
    /\ i \in 1..Len(tasks) /\ tasks[i] = StatusMsg(session)
    /\ \A j \in 1..Len(tasks) : i < j => tasks[j].kind = "row"
StatusOnItsWay ==
    conn # "closed" =>
        \/ \E i \in 1..Len(tasks) : LastStatus(i)
        \/ told.status = session /\ \A i \in 1..Len(tasks) : tasks[i].kind = "row"

(* The results from the n-th on, and no others, are told, listed or in a task. *)
Listed(i)   == \E k \in 1..Len(listed) : listed[k] = <<session, i>>
InTask(i)   == \E k \in 1..Len(tasks) : tasks[k] = RowMsg(<<session, i>>)
OnItsWay(i) == i \in told.rows \/ Listed(i) \/ InTask(i)
From(n)     == \A i \in 1..count : i >= n <=> OnItsWay(i)

(* There is such an n, and once the results are listed it is low enough. *)
LowEnough(n) == n <= 1 \/ n + SnapshotRows <= count + 1
RowsOnTheirWay ==
    conn # "closed" =>
        \E n \in Nat : /\ n <= since
                       /\ From(n)
                       /\ conn \in {"rows", "open"} => LowEnough(n)

IInv == FeedType /\ ClosedEmpty /\ StatusOnItsWay /\ RowsOnTheirWay

LEMMA InvariantInit == Init => IInv
BY DEF Init, Nothing, IInv, FeedType, ClosedEmpty, StatusOnItsWay, RowsOnTheirWay

LEMMA MsgTypes ==
    /\ \A s \in Nat : StatusMsg(s) \in Msgs /\ StatusMsg(s).kind = "status"
                      /\ StatusMsg(s).status = s
    /\ \A r \in Nat \X Nat : RowMsg(r) \in Msgs /\ RowMsg(r).kind = "row"
                             /\ RowMsg(r).row = r
BY DEF StatusMsg, RowMsg, Msgs

(* The most recent results, as many as the limit allows. *)
LEMMA RecentRows ==
    ASSUME session \in Nat, count \in Nat, NEW limit \in Nat \ {0}
    PROVE  /\ Recent(limit) \in Seq(Nat \X Nat)
           /\ \A i \in 1..count :
                  (\E k \in 1..Len(Recent(limit)) : Recent(limit)[k] = <<session, i>>)
                      <=> i + limit > count
<1> DEFINE size == IF count < limit THEN count ELSE limit
<1>1. size \in Nat /\ size <= count /\ (size = count \/ size = limit)
      /\ (count - size) + size = count
  OBVIOUS
<1>2. Recent(limit) = [k \in 1..size |-> <<session, count - size + k>>]
  BY DEF Recent
<1>3. \A k \in 1..size : <<session, count - size + k>> \in Nat \X Nat
  BY <1>1
<1>4. (size = count /\ count <= limit) \/ (size = limit /\ limit <= count)
  OBVIOUS
<1> HIDE DEF size
<1>5. Recent(limit) \in Seq(Nat \X Nat) /\ Len(Recent(limit)) = size
  BY <1>1, <1>2, <1>3, IsASeq, LenProperties
<1>6. ASSUME NEW i \in 1..count
      PROVE  (\E k \in 1..Len(Recent(limit)) : Recent(limit)[k] = <<session, i>>)
                 <=> i + limit > count
  <2>1. ASSUME NEW k \in 1..size, Recent(limit)[k] = <<session, i>>
        PROVE  i + limit > count
    <3>1. i = count - size + k
      BY <1>2, <2>1
    <3> QED BY <1>1, <1>4, <3>1
  <2>2. ASSUME i + limit > count
        PROVE  \E k \in 1..size : Recent(limit)[k] = <<session, i>>
    <3>1. PICK k \in 1..size : count - size + k = i
      <4>1. i - (count - size) \in 1..size
        BY <1>1, <1>4, <2>2
      <4>2. count - size + (i - (count - size)) = i
        BY <1>1
      <4> QED BY <4>1, <4>2
    <3>2. Recent(limit)[k] = <<session, i>>
      BY <1>2, <3>1
    <3> QED BY <3>2
  <2> QED BY <1>5, <2>1, <2>2
<1> QED BY <1>5, <1>6

LEMMA TasksLength == FeedType => Len(tasks) \in Nat /\ \A i \in 1..Len(tasks) : tasks[i] \in Msgs
<1> SUFFICES ASSUME FeedType PROVE Len(tasks) \in Nat /\ \A i \in 1..Len(tasks) : tasks[i] \in Msgs
  OBVIOUS
<1> QED BY ElementOfSeq, LenProperties DEF FeedType

LEMMA Appended ==
    ASSUME FeedType, NEW msg \in Msgs, tasks' = Append(tasks, msg)
    PROVE  /\ tasks' \in Seq(Msgs) /\ Len(tasks') = Len(tasks) + 1
           /\ \A i \in 1..Len(tasks) : tasks'[i] = tasks[i]
           /\ tasks'[Len(tasks) + 1] = msg
BY AppendProperties DEF FeedType

(* A step that leaves the feed alone. *)
LEMMA FeedKept ==
    ASSUME IInv, UNCHANGED <<session, count, conn, tasks, listed, told, since>>
    PROVE  IInv'
BY DEF IInv, FeedType, ClosedEmpty, StatusOnItsWay, RowsOnTheirWay, LastStatus,
       LowEnough, From, OnItsWay, Listed, InTask

-----------------------------------------------------------------------------
(* The store's updates. *)

LEMMA StatusBroadcast ==
    ASSUME IInv, session' \in Nat, Broadcast(StatusMsg(session')), UNCHANGED conn,
           UNCHANGED listed, told'.status = told.status, told'.rows \subseteq told.rows
    PROVE  tasks' \in Seq(Msgs) /\ ClosedEmpty' /\ StatusOnItsWay'
<1>1. CASE conn = "closed"
  <2>1. tasks' = tasks
    BY <1>1 DEF Broadcast
  <2> QED BY <1>1, <2>1 DEF IInv, FeedType, ClosedEmpty, StatusOnItsWay
<1>2. CASE conn # "closed"
  <2>1. tasks' = Append(tasks, StatusMsg(session'))
    BY <1>2 DEF Broadcast
  <2>2. StatusMsg(session') \in Msgs
    BY MsgTypes
  <2>3. /\ tasks' \in Seq(Msgs) /\ Len(tasks') = Len(tasks) + 1
        /\ tasks'[Len(tasks) + 1] = StatusMsg(session')
    BY <2>1, <2>2, Appended DEF IInv
  <2>4. Len(tasks) \in Nat
    BY TasksLength DEF IInv
  <2>5. PICK n \in 1..Len(tasks') : n = Len(tasks) + 1
    BY <2>3, <2>4
  <2>6. LastStatus(n)'
    BY <2>3, <2>4, <2>5 DEF LastStatus, StatusMsg
  <2>7. StatusOnItsWay'
    BY <2>5, <2>6 DEF StatusOnItsWay
  <2>8. ClosedEmpty'
    BY <1>2 DEF IInv, ClosedEmpty
  <2> QED BY <2>3, <2>7, <2>8
<1> QED BY <1>1, <1>2

LEMMA NewSessionInvariant ==
    ASSUME IInv, NewSession
    PROVE  IInv'
<1>1. /\ session' = session + 1 /\ count' = 0 /\ Broadcast(StatusMsg(session'))
      /\ told' = [told EXCEPT !.rows = {}] /\ UNCHANGED <<conn, listed>> /\ since' = 1
  BY DEF NewSession
<1>2. /\ session' \in Nat /\ told' \in [status : Nat, rows : SUBSET Nat]
      /\ told'.status = told.status /\ told'.rows = {} /\ told'.rows \subseteq told.rows
  <2>1. session \in Nat /\ told \in [status : Nat, rows : SUBSET Nat]
    BY DEF IInv, FeedType
  <2>2. told' = [status |-> told.status, rows |-> {}]
    BY <1>1, <2>1
  <2> QED BY <1>1, <2>1, <2>2
<1>3. tasks' \in Seq(Msgs) /\ ClosedEmpty' /\ StatusOnItsWay'
  <2>1. UNCHANGED conn /\ UNCHANGED listed /\ Broadcast(StatusMsg(session'))
    BY <1>1
  <2> QED BY <1>2, <2>1, StatusBroadcast, Zenon
<1>4. RowsOnTheirWay'
  <2>1. From(1)' /\ LowEnough(1)'
    BY <1>1 DEF From, LowEnough
  <2> QED BY <1>1, <2>1 DEF RowsOnTheirWay
<1> QED BY <1>1, <1>2, <1>3, <1>4 DEF IInv, FeedType

(* A broadcast adds its own result to the tasks, if it is one. *)
LEMMA AppendKeepsInTask ==
    ASSUME IInv, NEW msg \in Msgs, Broadcast(msg), UNCHANGED <<conn, session>>,
           conn # "closed"
    PROVE  /\ tasks' = Append(tasks, msg)
           /\ \A i : InTask(i)' <=> InTask(i) \/ msg = RowMsg(<<session, i>>)
<1>1. tasks' = Append(tasks, msg)
  BY DEF Broadcast
<1>2. /\ Len(tasks) \in Nat /\ Len(tasks') = Len(tasks) + 1
      /\ \A k \in 1..Len(tasks) : tasks'[k] = tasks[k]
      /\ tasks'[Len(tasks) + 1] = msg
  BY <1>1, Appended, TasksLength DEF IInv
<1>3. \A k : k \in 1..Len(tasks') <=> k \in 1..Len(tasks) \/ k = Len(tasks) + 1
  BY <1>2
<1>4. ASSUME NEW i PROVE InTask(i)' <=> InTask(i) \/ msg = RowMsg(<<session, i>>)
  BY <1>2, <1>3 DEF InTask, RowMsg
<1> QED BY <1>1, <1>4

LEMMA HeartbeatInvariant ==
    ASSUME IInv, Heartbeat
    PROVE  IInv'
<1>1. /\ Broadcast(StatusMsg(session))
      /\ UNCHANGED <<session, count, conn, listed, told, since>>
  BY DEF Heartbeat, storeVars
<1>2. tasks' \in Seq(Msgs) /\ ClosedEmpty' /\ StatusOnItsWay'
  BY <1>1, StatusBroadcast DEF IInv, FeedType
<1>3. RowsOnTheirWay'
  <2> SUFFICES ASSUME conn # "closed" PROVE RowsOnTheirWay'
    BY <1>1 DEF RowsOnTheirWay
  <2>1. StatusMsg(session) \in Msgs
    BY MsgTypes DEF IInv, FeedType
  <2>2. \A i : InTask(i)' <=> InTask(i)
    BY <1>1, <2>1, AppendKeepsInTask DEF StatusMsg, RowMsg
  <2>3. \A i : OnItsWay(i)' <=> OnItsWay(i)
    BY <1>1, <2>2 DEF OnItsWay, Listed
  <2> QED BY <1>1, <2>3 DEF IInv, RowsOnTheirWay, From, LowEnough
<1> QED BY <1>1, <1>2, <1>3 DEF IInv, FeedType

LEMMA NewRowInvariant ==
    ASSUME IInv, NewRow
    PROVE  IInv'
<1>0. PICK r0 : r0 = <<session, count + 1>>
  OBVIOUS
<1>1. /\ count' = count + 1 /\ Broadcast(RowMsg(r0))
      /\ UNCHANGED <<session, conn, listed, told, since>>
  BY <1>0 DEF NewRow
<1>2. /\ r0 \in Nat \X Nat /\ session \in Nat /\ count \in Nat /\ count' \in Nat
      /\ since' \in 1..(count' + 1)
  BY <1>0, <1>1 DEF IInv, FeedType
<1>3. RowMsg(r0) \in Msgs /\ RowMsg(r0).kind = "row"
  BY <1>2, MsgTypes
<1>4. CASE conn = "closed"
  <2>1. tasks' = tasks
    BY <1>1, <1>4 DEF Broadcast
  <2> QED BY <1>1, <1>2, <1>4, <2>1 DEF IInv, FeedType, ClosedEmpty, StatusOnItsWay,
                                        RowsOnTheirWay
<1>5. CASE conn # "closed"
  <2>1. /\ tasks' = Append(tasks, RowMsg(r0))
        /\ \A i : InTask(i)' <=> InTask(i) \/ RowMsg(r0) = RowMsg(<<session, i>>)
    BY <1>1, <1>3, <1>5, AppendKeepsInTask
  <2>2. /\ tasks' \in Seq(Msgs) /\ Len(tasks') = Len(tasks) + 1 /\ Len(tasks) \in Nat
        /\ \A i \in 1..Len(tasks) : tasks'[i] = tasks[i]
        /\ tasks'[Len(tasks) + 1] = RowMsg(r0)
    BY <1>3, <2>1, Appended, TasksLength DEF IInv
  <2>3. \A i \in 1..Len(tasks') : i \in 1..Len(tasks) \/ i = Len(tasks) + 1
    BY <2>2
  <2>4. StatusOnItsWay'
    <3>1. CASE \E i \in 1..Len(tasks) : LastStatus(i)
      <4>1. PICK i \in 1..Len(tasks) : LastStatus(i)
        BY <3>1
      <4>2. i \in 1..Len(tasks') /\ tasks'[i] = StatusMsg(session)
        BY <2>2, <4>1 DEF LastStatus
      <4>3. \A j \in 1..Len(tasks') : i < j => tasks'[j].kind = "row"
        BY <1>3, <2>2, <2>3, <4>1 DEF LastStatus
      <4> QED BY <1>1, <4>2, <4>3 DEF StatusOnItsWay, LastStatus, StatusMsg
    <3>2. CASE told.status = session /\ \A i \in 1..Len(tasks) : tasks[i].kind = "row"
      <4>1. \A i \in 1..Len(tasks') : tasks'[i].kind = "row"
        BY <1>3, <2>2, <2>3, <3>2
      <4> QED BY <1>1, <3>2, <4>1 DEF StatusOnItsWay
    <3> QED BY <1>5, <3>1, <3>2 DEF IInv, StatusOnItsWay
  <2>5. RowsOnTheirWay'
    <3>1. PICK n \in Nat : /\ n <= since /\ From(n)
                           /\ conn \in {"rows", "open"} => LowEnough(n)
      BY <1>5 DEF IInv, RowsOnTheirWay
    <3>2. n <= count + 1
      BY <1>2, <3>1 DEF IInv, FeedType
    <3>3. ASSUME NEW i \in 1..count' PROVE i >= n <=> OnItsWay(i)'
      <4>1. OnItsWay(i)' <=> OnItsWay(i) \/ i = count + 1
        <5>1. RowMsg(r0) = RowMsg(<<session, i>>) <=> i = count + 1
          BY <1>0 DEF RowMsg
        <5>2. Listed(i)' <=> Listed(i)
          BY <1>1 DEF Listed
        <5> QED BY <1>1, <2>1, <5>1, <5>2 DEF OnItsWay
      <4>2. i \in 1..count \/ i = count + 1
        BY <1>1, <1>2
      <4> QED BY <1>2, <3>1, <3>2, <4>1, <4>2 DEF From
    <3>4. LowEnough(n) => LowEnough(n)'
      BY <1>1, <1>2, LimitsAssumption DEF LowEnough
    <3> QED BY <1>1, <3>1, <3>3, <3>4 DEF RowsOnTheirWay, From
  <2>6. ClosedEmpty'
    BY <1>1, <1>5 DEF IInv, ClosedEmpty
  <2> QED BY <1>1, <1>2, <2>2, <2>4, <2>5, <2>6 DEF IInv, FeedType
<1> QED BY <1>4, <1>5
-----------------------------------------------------------------------------
(* The socket. *)

(* What a write of msg makes of told. *)
LEMMA WriteTells ==
    ASSUME FeedType, NEW msg \in Msgs, Write(msg)
    PROVE  /\ told' \in [status : Nat, rows : SUBSET Nat]
           /\ msg.kind = "status" => /\ told'.status = msg.status
                                     /\ told'.rows = told.rows
           /\ msg.kind = "row" =>
                  /\ told'.status = told.status
                  /\ \A i \in 1..count : i \in told'.rows
                                           <=> i \in told.rows \/ msg.row = <<session, i>>
<1>1. CASE msg.kind = "status"
  <2>1. told' = [told EXCEPT !.status = msg.status] /\ msg.status \in Nat
    BY <1>1 DEF Write, Msgs
  <2> QED BY <1>1, <2>1 DEF FeedType
<1>2. CASE msg.kind # "status"
  <2>1. told' = [told EXCEPT !.rows = @ \cup {n \in 1 .. count : msg.row = <<session, n>>}]
    BY <1>2 DEF Write
  <2>2. /\ told'.status = told.status /\ told.status \in Nat
        /\ told'.rows = told.rows \cup {n \in 1 .. count : msg.row = <<session, n>>}
        /\ told' = [status |-> told'.status, rows |-> told'.rows]
    BY <2>1 DEF FeedType
  <2>3. told'.rows \in SUBSET Nat
    BY <2>2 DEF FeedType
  <2>4. told' \in [status : Nat, rows : SUBSET Nat]
    BY <2>2, <2>3
  <2>5. \A i \in 1..count : i \in told'.rows
                            <=> i \in told.rows \/ msg.row = <<session, i>>
    BY <2>2
  <2> QED BY <1>2, <2>2, <2>4, <2>5
<1> QED BY <1>1, <1>2

LEMMA ConnectInvariant ==
    ASSUME IInv, Connect
    PROVE  IInv'
<1>1. /\ conn = "closed" /\ conn' = "list" /\ since' = count + 1
      /\ UNCHANGED <<session, count, listed, tasks>>
      /\ IF session > 0 THEN Write(StatusMsg(session)) ELSE UNCHANGED <<wire, told>>
  BY DEF Connect, storeVars
<1>2. /\ tasks = << >> /\ listed = << >> /\ told.status = 0 /\ told.rows = {}
      /\ session \in Nat /\ count \in Nat
  BY <1>1 DEF IInv, ClosedEmpty, FeedType
<1>3. /\ told' \in [status : Nat, rows : SUBSET Nat] /\ told'.status = session
      /\ told'.rows = {}
  <2>1. CASE session > 0
    <3>1. /\ StatusMsg(session) \in Msgs /\ StatusMsg(session).kind = "status"
          /\ StatusMsg(session).status = session
      BY <1>2, MsgTypes
    <3> QED BY <1>1, <1>2, <2>1, <3>1, WriteTells DEF IInv
  <2>2. CASE ~(session > 0)
    BY <1>1, <1>2, <2>2 DEF IInv, FeedType
  <2> QED BY <2>1, <2>2
<1>4. Len(tasks') = 0 /\ Len(listed') = 0
  BY <1>1, <1>2
<1>5. ClosedEmpty' /\ StatusOnItsWay'
  BY <1>1, <1>2, <1>3, <1>4 DEF ClosedEmpty, StatusOnItsWay
<1>6. RowsOnTheirWay'
  <2>1. PICK n \in Nat : n = count + 1
    BY <1>2
  <2>2. \A i : ~OnItsWay(i)'
    BY <1>3, <1>4 DEF OnItsWay, Listed, InTask
  <2>3. From(n)'
    BY <1>1, <1>2, <2>1, <2>2 DEF From
  <2> QED BY <1>1, <1>2, <2>1, <2>3 DEF RowsOnTheirWay
<1> QED BY <1>1, <1>2, <1>3, <1>5, <1>6 DEF IInv, FeedType

LEMMA ListRowsInvariant ==
    ASSUME IInv, ListRows
    PROVE  IInv'
<1>1. /\ conn = "list" /\ conn' = "rows" /\ listed' = Recent(SnapshotRows)
      /\ UNCHANGED <<session, count, tasks, told, since>>
  BY DEF ListRows, storeVars
<1>2. /\ session \in Nat /\ count \in Nat /\ SnapshotRows \in Nat \ {0}
      /\ since \in Nat /\ since >= 1
  BY LimitsAssumption DEF IInv, FeedType
<1>3. /\ listed' \in Seq(Nat \X Nat)
      /\ \A i \in 1..count : Listed(i)' <=> i + SnapshotRows > count
  BY <1>1, <1>2, RecentRows DEF Listed
<1>4. RowsOnTheirWay'
  <2>1. PICK n \in Nat : n <= since /\ From(n)
    BY <1>1 DEF IInv, RowsOnTheirWay
  <2>2. ASSUME NEW i \in 1..count
        PROVE  OnItsWay(i)' <=> i >= n \/ i + SnapshotRows > count
    <3>1. ~Listed(i)
      <4>1. listed = << >>
        BY <1>1 DEF IInv, ClosedEmpty
      <4>2. Len(listed) = 0
        BY <4>1
      <4> QED BY <4>2 DEF Listed
    <3>2. i \in told.rows \/ InTask(i) <=> i >= n
      BY <2>1, <3>1 DEF From, OnItsWay
    <3>3. InTask(i)' <=> InTask(i)
      BY <1>1 DEF InTask
    <3> QED BY <1>1, <1>3, <3>2, <3>3 DEF OnItsWay
  <2>3. PICK m \in Nat : /\ m <= since /\ (m <= 1 \/ m + SnapshotRows <= count + 1)
                         /\ \A i \in 1..count : i >= m <=> i >= n \/ i + SnapshotRows > count
    <3>1. CASE count <= SnapshotRows
      <4> WITNESS 1 \in Nat
      <4> QED BY <1>2, <3>1
    <3>2. CASE count > SnapshotRows /\ n + SnapshotRows <= count + 1
      <4> WITNESS n \in Nat
      <4> QED BY <1>2, <2>1, <3>2
    <3>3. CASE count > SnapshotRows /\ n + SnapshotRows > count + 1
      <4>1. count + 1 - SnapshotRows \in Nat
        BY <1>2, <3>3
      <4> WITNESS count + 1 - SnapshotRows \in Nat
      <4> QED BY <1>2, <2>1, <3>3, <4>1
    <3> QED BY <1>2, <2>1, <3>1, <3>2, <3>3
  <2>4. From(m)' /\ LowEnough(m)'
    BY <1>1, <2>2, <2>3 DEF From, LowEnough
  <2> QED BY <1>1, <2>3, <2>4 DEF RowsOnTheirWay
<1>5. StatusOnItsWay' /\ ClosedEmpty'
  BY <1>1 DEF IInv, StatusOnItsWay, LastStatus, ClosedEmpty
<1> QED BY <1>1, <1>3, <1>4, <1>5 DEF IInv, FeedType

(* A message that is written moves from where it was to what the socket has
   been told; nothing else changes. *)
LEMMA Moved ==
    ASSUME IInv, UNCHANGED <<session, count, since>>, conn # "closed",
           conn' = conn \/ (conn = "rows" /\ conn' = "open"),
           \A i \in 1..count : OnItsWay(i)' <=> OnItsWay(i)
    PROVE  RowsOnTheirWay'
BY DEF IInv, RowsOnTheirWay, From, LowEnough

LEMMA SendRowInvariant ==
    ASSUME IInv, SendRow
    PROVE  IInv'
<1>1. conn = "rows" /\ UNCHANGED <<session, count, tasks, since>>
  BY DEF SendRow, storeVars
<1>2. CASE listed = << >>
  <2>1. conn' = "open" /\ UNCHANGED <<told, listed>>
    BY <1>2 DEF SendRow
  <2>2. \A i \in 1..count : OnItsWay(i)' <=> OnItsWay(i)
    BY <1>1, <2>1 DEF OnItsWay, Listed, InTask
  <2>3. StatusOnItsWay' /\ ClosedEmpty'
    BY <1>1, <1>2, <2>1 DEF IInv, StatusOnItsWay, LastStatus, ClosedEmpty
  <2>4. RowsOnTheirWay'
    BY <1>1, <2>1, <2>2, Moved
  <2> QED BY <1>1, <2>1, <2>3, <2>4 DEF IInv, FeedType
<1>3. CASE listed # << >>
  <2>1. Write(RowMsg(Head(listed))) /\ listed' = Tail(listed) /\ conn' = conn
    BY <1>3 DEF SendRow
  <2>2. /\ listed' \in Seq(Nat \X Nat) /\ Head(listed) \in Nat \X Nat
        /\ Head(listed) = listed[1]
        /\ Len(listed) \in Nat \ {0} /\ Len(listed') = Len(listed) - 1
        /\ \A k \in 1..Len(listed') : listed'[k] = listed[k + 1]
    BY <1>3, <2>1, HeadTailProperties, EmptySeq DEF IInv, FeedType
  <2>3. PICK msg \in Msgs : /\ msg = RowMsg(Head(listed)) /\ msg.kind = "row"
                            /\ msg.row = listed[1]
    BY <2>2, MsgTypes
  <2>4. /\ told' \in [status : Nat, rows : SUBSET Nat] /\ told'.status = told.status
        /\ \A i \in 1..count : i \in told'.rows
                                 <=> i \in told.rows \/ listed[1] = <<session, i>>
    BY <2>1, <2>3, WriteTells DEF IInv
  <2>5. \A i : Listed(i) <=> Listed(i)' \/ listed[1] = <<session, i>>
    <3>2. ASSUME NEW i, Listed(i) PROVE Listed(i)' \/ listed[1] = <<session, i>>
      <4>1. PICK k \in 1..Len(listed) : listed[k] = <<session, i>>
        BY <3>2 DEF Listed
      <4>2. CASE k # 1
        <5>1. PICK h \in 1..Len(listed') : h + 1 = k
          <6>1. k - 1 \in 1..Len(listed') /\ (k - 1) + 1 = k
            BY <2>2, <4>2
          <6> QED BY <6>1
        <5>2. listed'[h] = <<session, i>>
          BY <2>2, <4>1, <5>1
        <5> QED BY <1>1, <5>2 DEF Listed
      <4> QED BY <4>1, <4>2
    <3>3. ASSUME NEW i, Listed(i)' PROVE Listed(i)
      <4>1. PICK k \in 1..Len(listed') : listed'[k] = <<session, i>>
        BY <1>1, <3>3 DEF Listed
      <4>2. k + 1 \in 1..Len(listed) /\ listed[k + 1] = <<session, i>>
        BY <2>2, <4>1
      <4> QED BY <4>2 DEF Listed
    <3>4. 1 \in 1..Len(listed)
      BY <2>2
    <3> QED BY <3>2, <3>3, <3>4 DEF Listed
  <2>6. \A i \in 1..count : OnItsWay(i)' <=> OnItsWay(i)
    BY <1>1, <2>4, <2>5 DEF OnItsWay, InTask
  <2>7. StatusOnItsWay' /\ ClosedEmpty'
    BY <1>1, <2>1, <2>4 DEF IInv, StatusOnItsWay, LastStatus, ClosedEmpty
  <2>8. RowsOnTheirWay'
    BY <1>1, <2>1, <2>6, Moved
  <2> QED BY <1>1, <2>1, <2>2, <2>4, <2>7, <2>8 DEF IInv, FeedType
<1> QED BY <1>2, <1>3

LEMMA RunTaskInvariant ==
    ASSUME IInv, RunTask
    PROVE  IInv'
<1>1. /\ tasks # << >> /\ Write(Head(tasks)) /\ tasks' = Tail(tasks)
      /\ UNCHANGED <<session, count, conn, listed, since>>
  BY DEF RunTask, storeVars
<1>2. /\ tasks' \in Seq(Msgs) /\ Len(tasks') = Len(tasks) - 1 /\ Len(tasks) \in Nat \ {0}
      /\ \A i \in 1..Len(tasks') : tasks'[i] = tasks[i + 1]
  BY <1>1, HeadTailProperties, EmptySeq DEF IInv, FeedType
<1>3. PICK msg \in Msgs : msg = Head(tasks) /\ msg = tasks[1]
  BY <1>1, HeadTailProperties DEF IInv, FeedType
<1>4. /\ told' \in [status : Nat, rows : SUBSET Nat]
      /\ msg.kind = "status" => told'.status = msg.status /\ told'.rows = told.rows
      /\ msg.kind = "row" =>
             /\ told'.status = told.status
             /\ \A i \in 1..count : i \in told'.rows
                                      <=> i \in told.rows \/ msg.row = <<session, i>>
  BY <1>1, <1>3, WriteTells DEF IInv
<1>5. conn # "closed"
  BY <1>1 DEF IInv, ClosedEmpty
<1>6. StatusOnItsWay'
  <2>1. CASE \E i \in 1..Len(tasks) : LastStatus(i)
    <3>1. PICK i \in 1..Len(tasks) : LastStatus(i)
      BY <2>1
    <3>2. CASE i = 1
      <4>1. msg.kind = "status" /\ msg.status = session
        BY <1>3, <3>1, <3>2 DEF LastStatus, StatusMsg
      <4>2. \A j \in 1..Len(tasks') : tasks'[j].kind = "row"
        BY <1>2, <3>1, <3>2 DEF LastStatus
      <4> QED BY <1>1, <1>4, <4>1, <4>2 DEF StatusOnItsWay
    <3>3. CASE i # 1
      <4>1. PICK k \in 1..Len(tasks') : k + 1 = i
        <5>1. i - 1 \in 1..Len(tasks') /\ (i - 1) + 1 = i
          BY <1>2, <3>3
        <5> QED BY <5>1
      <4>2. tasks'[k] = StatusMsg(session)
        BY <1>2, <3>1, <4>1 DEF LastStatus
      <4>3. \A j \in 1..Len(tasks') : k < j => tasks'[j].kind = "row"
        BY <1>2, <3>1, <4>1 DEF LastStatus
      <4>4. LastStatus(k)'
        BY <1>1, <4>2, <4>3 DEF LastStatus, StatusMsg
      <4> QED BY <4>4 DEF StatusOnItsWay
    <3> QED BY <3>2, <3>3
  <2>2. CASE told.status = session /\ \A i \in 1..Len(tasks) : tasks[i].kind = "row"
    <3>1. msg.kind = "row"
      BY <1>2, <1>3, <2>2
    <3>2. \A i \in 1..Len(tasks') : tasks'[i].kind = "row"
      BY <1>2, <2>2
    <3> QED BY <1>1, <1>4, <2>2, <3>1, <3>2 DEF StatusOnItsWay
  <2> QED BY <1>5, <2>1, <2>2 DEF IInv, StatusOnItsWay
<1>7. RowsOnTheirWay'
  <2>1. ASSUME NEW i, InTask(i) PROVE InTask(i)' \/ msg = RowMsg(<<session, i>>)
    <3>1. PICK k \in 1..Len(tasks) : tasks[k] = RowMsg(<<session, i>>)
      BY <2>1 DEF InTask
    <3>2. CASE k = 1
      BY <1>3, <3>1, <3>2
    <3>3. CASE k # 1
      <4>1. PICK h \in 1..Len(tasks') : h + 1 = k
        <5>1. k - 1 \in 1..Len(tasks') /\ (k - 1) + 1 = k
          BY <1>2, <3>3
        <5> QED BY <5>1
      <4>2. tasks'[h] = RowMsg(<<session, i>>)
        BY <1>2, <3>1, <4>1
      <4> QED BY <1>1, <4>2 DEF InTask, RowMsg
    <3> QED BY <3>2, <3>3
  <2>2. ASSUME NEW i, InTask(i)' PROVE InTask(i)
    <3>1. PICK k \in 1..Len(tasks') : tasks'[k] = RowMsg(<<session, i>>)
      BY <1>1, <2>2 DEF InTask, RowMsg
    <3>2. k + 1 \in 1..Len(tasks) /\ tasks[k + 1] = RowMsg(<<session, i>>)
      BY <1>2, <3>1
    <3> QED BY <3>2 DEF InTask
  <2>3. ASSUME NEW i, msg = RowMsg(<<session, i>>) PROVE InTask(i)
    <3>1. 1 \in 1..Len(tasks)
      BY <1>2
    <3> QED BY <1>3, <2>3, <3>1 DEF InTask
  <2>4. ASSUME NEW i \in 1..count PROVE OnItsWay(i)' <=> OnItsWay(i)
    <3>1. Listed(i)' <=> Listed(i)
      BY <1>1 DEF Listed
    <3>2. CASE msg = RowMsg(<<session, i>>)
      <4>1. msg.kind = "row" /\ msg.row = <<session, i>>
        BY <3>2 DEF RowMsg
      <4> QED BY <1>4, <2>3, <3>2, <4>1 DEF OnItsWay
    <3>3. CASE msg # RowMsg(<<session, i>>)
      <4>1. i \in told'.rows <=> i \in told.rows
        <5>1. CASE msg.kind = "row"
          <6>1. msg = RowMsg(msg.row)
            BY <5>1 DEF Msgs, RowMsg
          <6> QED BY <1>4, <3>3, <5>1, <6>1
        <5>2. CASE msg.kind = "status"
          BY <1>4, <5>2
        <5> QED BY <5>1, <5>2 DEF Msgs
      <4> QED BY <2>1, <2>2, <3>1, <3>3, <4>1 DEF OnItsWay
    <3> QED BY <3>2, <3>3
  <2> QED BY <1>1, <1>5, <2>4, Moved
<1>8. ClosedEmpty'
  BY <1>1, <1>5 DEF IInv, ClosedEmpty
<1> QED BY <1>1, <1>2, <1>4, <1>6, <1>7, <1>8 DEF IInv, FeedType

LEMMA WsBreakInvariant ==
    ASSUME IInv, WsBreak
    PROVE  IInv'
<1>1. /\ conn' = "closed" /\ listed' = << >> /\ tasks' = << >> /\ told' = Nothing
      /\ since' = 1 /\ UNCHANGED <<session, count>>
  BY DEF WsBreak, storeVars
<1> QED BY <1>1 DEF Nothing, IInv, FeedType, ClosedEmpty, StatusOnItsWay, RowsOnTheirWay

-----------------------------------------------------------------------------
LEMMA InvariantStep ==
    ASSUME IInv, [Next]_vars
    PROVE  IInv'
<1>1. CASE NewSession \/ Heartbeat \/ NewRow
  BY <1>1, NewSessionInvariant, HeartbeatInvariant, NewRowInvariant
<1>2. CASE Connect \/ ListRows \/ SendRow
  BY <1>2, ConnectInvariant, ListRowsInvariant, SendRowInvariant
<1>3. CASE RunTask \/ WsBreak
  BY <1>3, RunTaskInvariant, WsBreakInvariant
<1>4. CASE Receive \/ StartLoad \/ ReadLoad \/ ApplyLoad \/ UNCHANGED vars
  <2>1. UNCHANGED <<session, count, conn, tasks, listed, told, since>>
    BY <1>4 DEF Receive, StartLoad, ReadLoad, ApplyLoad, vars, storeVars, wsVars
  <2> QED BY <2>1, FeedKept
<1> QED BY <1>1, <1>2, <1>3, <1>4 DEF Next

(* Between the snapshot and the broadcasts nothing is lost, for any number   *)
(* of sessions, results and breaks, and any limit on the snapshot: whenever  *)
(* a client has had its snapshot and no task is pending, it has been given   *)
(* the latest status, and of the session's results the most recent ones      *)
(* without a gap: as many as a snapshot holds, and at least all that came    *)
(* since it connected.                                                       *)
THEOREM FanOutAlwaysComplete == Spec => []FanOutComplete
<1>1. IInv /\ [Next]_vars => IInv'
  BY InvariantStep
<1>2. IInv => FanOutComplete
  <2> SUFFICES ASSUME IInv, conn = "open", tasks = << >>
               PROVE  /\ told.status = session
                      /\ \A i \in 1..count : Owed(i) => i \in told.rows
    BY DEF FanOutComplete
  <2>1. listed = << >>
    BY DEF IInv, ClosedEmpty
  <2>2. Len(tasks) = 0 /\ Len(listed) = 0
    BY <2>1
  <2>3. told.status = session
    BY <2>2 DEF IInv, StatusOnItsWay
  <2>4. PICK n \in Nat : n <= since /\ From(n) /\ LowEnough(n)
    BY DEF IInv, RowsOnTheirWay
  <2>5. \A i \in 1..count : i >= n <=> i \in told.rows
    BY <2>2, <2>4 DEF From, OnItsWay, Listed, InTask
  <2>6. ASSUME NEW i \in 1..count, Owed(i) PROVE i >= n
    <3>1. count \in Nat /\ since \in Nat /\ SnapshotRows \in Nat
      BY LimitsAssumption DEF IInv, FeedType
    <3>2. CASE i + SnapshotRows > count
      BY <2>4, <3>1, <3>2 DEF LowEnough
    <3>3. CASE i >= since
      BY <2>4, <3>1, <3>3
    <3>4. CASE \E j \in 1..i : j \in told.rows
      BY <2>5, <3>1, <3>4
    <3> QED BY <2>6, <3>2, <3>3, <3>4 DEF Owed
  <2> QED BY <2>3, <2>5, <2>6
<1> QED BY <1>1, <1>2, InvariantInit, PTL DEF Spec
=============================================================================
