# A formal model of the DTN Test Bed

TLA+ modules for the program in `src/`: a Raspberry Pi agent that streams GPS
telemetry through uD3TN over WiFi and LTE, and a Mac backend that receives it,
accounts for it and steers the experiment. The modules are translated from the
source and model-checked with TLC on small instances. The safety properties
that hold are also proved with TLAPS, for every value of the constants.

Contents: [1 the system](#1-the-system), [2 the modules](#2-the-modules-and-the-code),
[3 the runs](#3-the-runs), [4 where code and documentation part](#4-where-code-and-documentation-part),
[5 the proofs](#5-the-proofs), [6 what is left out](#6-what-is-left-out),
[7 the plan](#7-the-plan).

## 1 The system

```
 GPSReader --emit--> QueueManager --get--> DTNSender ==AAP==> uD3TN ~~bundles~~> uD3TN ==AAP==> bridge
                                              ^    \                                              |
                        mode, link, event     |     \ send counters                               v
                 LinkManager -----------------+      \                                          Store
                      ^  \                            v                                           ^
            set_mode  |   +--status--> build_status --> MgmtClient <==WebSocket==> ConfigServer --+
                      +------ commands ------------------/                 ^                      |
                                                                           +-- APIServer <--------+
                                                                                   |
                                                                    dashboard, dtn-mcp
```

The Pi agent and the Mac backend are each one asyncio process. On the Pi the
components share one event loop: a coroutine is interrupted only where it
awaits, so everything between two awaits is one step, and the awaits are where
the operator's commands, the link manager and the sender interleave. Blocking
calls (AAP, probes) run in executor threads; the coroutine waits for them. On
the Mac every public method of `Store` holds one lock.

| component | state | operations | what is hard about it | what makes it correct |
|---|---|---|---|---|
| **QueueManager** (`pi-agent/queue_manager`) | queue, `_accepting`, counters, asyncio's unfinished-task count | `put_nowait`, `get`, `task_done`, `clear` | clear under a message in flight; status messages that bypass the cap; pausing with hysteresis | the cap; paused only under a backlog, and not for ever; `task_done` never raises |
| **LinkManager** (`pi-agent/link_manager`) | mode, session, active link, reason, probe history, scores, candidate and streak, hold timer, routes on record, routes in the kernel | check cycle, `set_mode`, `set_runtime_config`, restart | commands between the two probes of a cycle; `ip route` failing; interfaces that go away; streaks and timers | a link that answered is used; no flapping; convergence; routes match the record; the sender is always woken |
| **DTNSender** (`pi-agent/dtn_sender`) | message in flight, AAP clients, per-link counters, the await it is at | one coroutine, `run` | mode and link change at each await; half-failed pairs; confirmations lost after acceptance | nothing lost, nothing overtaken, no lost wake-up, per-link counters that bracket the truth and miss little, the queue drains |
| **MgmtClient / ConfigServer** | connection, counter queue, last payload, back-off; current Pi socket, two locks | status loop, counter loop, command loop; handler per connection, `send_command` | breaks with messages under way; a connection replaced by another; a counter loop that outlives its connection; a send that blocks with its lock held | reports and commands are handled once and in order; no caller waits for ever; both ends agree on the connection; the Mac ends up with what the Pi says |
| **Store** (`mac-backend/shared/store.py`) | latest status, DTN counters, the current run, deduplication cache, recent results, distribution buckets, SQLite rows | `update_pi_status`, `ingest_dtn_send_counter`, `ingest_bundle`, expiry | the two channels are not ordered with respect to each other; the cache expires, is cleared and is lost at a restart, and outlives the window of recent results; inserts may fail | a pair of session and packet is counted once in a run; count, cache, results and marks agree; a discarded copy has a saved original; metrics are those of the announced run |
| **DTN receiver bridge** | two AAP connections | receive loop per agent id | a bundle whose handling raises is gone | hands each bundle to the store |
| **uD3TN** (external) | bundles | accept, deliver | delay, reordering, duplication, loss, late confirmations | – |
| **NetemAgent** (`pi-agent/netem_agent`) | settings on record, qdiscs in the kernel, names of the WiFi and the LTE interface | `apply`, `revert`, the two commands that call them | `tc` failing half way, its result not looked at; restart; a configured name that is protected | no protected interface (`eth*`, `enp*`, `eno*`, `lo*`) is ever shaped; a command that goes through puts record and kernel right |
| **GPSReader** (`pi-agent/gps_reader`) | serial port, baud rate, connection status, fix state, send interval | read loop, `change_baudrate`, `change_send_frequency` | port closed under the reading thread, or while it is being opened; a device pulled out | the events tell the truth; the loop reconnects |
| **APIServer, dashboard** | set of sockets; snapshot and merged lists in the browser; recording state | REST, `/ws`, broadcast; effects of `App.tsx` | snapshot against concurrent broadcasts; limits on what a snapshot, a load and the view hold; REST answers overtaken by newer messages; recording against session changes | nothing falls between snapshot and broadcasts; the view converges to the end of what the store has; one recording per run |
| **dtn-mcp, scripts, config, schemas** | none, or constants | – | – | – |

`PROJECT.json` lists every component with its sources and status, and every
hazard at its line with the properties that would notice it going wrong.

## 2 The modules and the code

| module | models | composes / relates |
|---|---|---|
| `QueueManager` | `queue_manager.py`, whole | – |
| `LinkService` | what the rest of the agent may assume of the link manager: mode, session, active link, wake-up event | abstract specification |
| `LinkManager` | `link_manager.py` | implements `LinkService` (`ImplementsService`) |
| `SenderService` | what uD3TN and the Mac may assume of the DTN sender: which message is handed over when, and under which session | abstract specification |
| `DTNSender` | `dtn_sender.py`, with the queue as a sequence | runs against `LinkService`, implements `SenderService` (`ImplementsHandOver`) |
| `OrderedChannel` | what one direction of the management channel promises: loss, but neither repetition nor reordering | abstract specification |
| `MgmtChannel` | the connections between `mgmt_client.py` and `config_server/server.py` | implements `OrderedChannel` twice (`ReportsInOrder`, `CommandsInOrder`) |
| `Store`, `MCStore` | the accounting of `shared/store.py` | – |
| `Delivery`, `MCDelivery` | the Pi's reports, counters and bundles on their two ways to the Mac | EXTENDS `Store`, uses `LinkService` and a sender reduced to what `DTNSender` shows |
| `NetemAgent`, `MCNetemAgent` | `netem_agent.py`, its command handlers, and the interface names of `link_manager.py` | – |
| `GPSReader` | the port in `gps_reader.py`: open, read, reconnect, change of the baud rate | – |
| `Dashboard`, `MCDashboard` | `api_server/server.py` (`/ws`, `broadcast`) and `useDashboardData.ts` | – |
| `QueueManagerProofs`, `LinkManagerProofs`, `DTNSenderProofs`, `MgmtChannelProofs`, `DeliveryProofs`, `NetemAgentProofs`, `GPSReaderProofs`, `DashboardProofs` | theorems | each EXTENDS its component; `DeliveryProofs` is about `Store` as well |

The map in `PROJECT.json` gives, for every definition, the lines it stands for.
A definition whose comment begins with "Mutant" is no part of a specification:
it is the form a plausible bug would give the definition after it.

**QueueManager.** One action per method, as none of them awaits in the middle.
`put_nowait` has three outcomes, `DropPaused`, `DropFull` and `Admit`; `Resumed`
is the re-evaluation that both `put_nowait` and `get` end with. `unfinished` is
the counter inside `asyncio.Queue`, which `clear` does not touch.

**LinkManager.** `_check_cycle` is cut at its probes: `StartCycle` runs up to the
first probe, or to the end when no interface is up; `WifiProbed` and
`LteProbed` each run from the end of a probe to the next await. A cycle ends with
`Decide`, which refreshes the link of the last probe and decides in the same step
as the code does: `SingleLink`, `Adaptive` (its five cases in the order of the
code's returns) or `Redundant`. Mode and configuration changes, the sender's
`clear()` and a restart may come between any two steps. Scores are in
hundredths of a percent. The EWMA is not computed: a successful probe may lead
to any RTT score of `RttScores`, which covers every value the filter could
produce. The time since the last switch counts `Tick`s up to `HoldTime`. A host
route is the set of links it uses; `routes` is what the agent has on record
and `kernel` what is installed, and every `ip route replace` may fail.
`InterfaceLost` takes routes out of the kernel without telling the agent.

**DTNSender.** `pc` names the await the coroutine is at: `waitLink`, `get`,
`single`, `redundant` (the AAP calls of one dispatch) and `backoff` (the sleep of
two seconds). `loopMode` is the local `mode`, read at the top of the loop and
used after the awaits; the link and the session are read again when the bundle is
tagged, as in the code. A bundle may therefore go out on the link "none", which has
no counter; `offLink` counts those per message. `SenderService` forgets all that and keeps what is
visible from outside: messages produced, bundles handed over with their sessions,
messages done and messages cleared. An AAP call returns, or raises with the bundle accepted
or not, since the confirmation may be what got lost.

**MgmtChannel.** The client opens one connection after another. Each lives on
after the client has given it up, until the server learns of it: by a close
frame, by its own keepalive, or because the next connection takes its place. On
the server every connection has a coroutine (`handler`), which waits for
`_conn_lock`, becomes `_pi_ws`, closes its predecessor (`closing`, until
`CloseReturns`) and then reads. The lock is first come, first served, hence
`ticket`. `piBlocked` and `sending` are the two send locks, held over a send that
blocks on a stalled connection. Reports and commands are numbered in the order
they are sent, so that a set of numbers read from the smallest on is a buffer.

**Store.** One action per public method, whole: `UpdatePiStatus` sets the
counters, starts a run or continues it, trims the list of switch-overs and
counts overflows; `IngestTelemetry` is a duplicate or a unique bundle, with
cache, results, bucket and database. `results` is `_recent_results`, a window of
`MemWindow` entries with their duplicate marks: `Remember` drops the oldest, and
`MarkDuplicate` finds nothing to mark when the window has dropped the result but the
cache still has its key. `expired` counts the keys that age took out of the
cache in this run. Failure and retry counters and byte counts go the way of the bundle
counters and are not repeated.

**Delivery.** `PushStatus`, `PushCounter` and `Break` are the management
connection, reduced to the ordered channel that `MgmtChannel` shows it to be,
which loses a suffix when it breaks; a set of bundles is uD3TN's network, from
which `BridgeReceives` may take any element any number of times. `Send` is one
dispatch, as `DTNSender` allows it: on any link or none, with any part of the copies
accepted and any part of those confirmed, each confirmed copy counted and
published by itself. `CacheExpires` is the store's `Expire`.

**NetemAgent.** A command handler never awaits between its first look at the
interfaces and its last `tc` call, so it is one action; within it `Shaped` is the
sequence of `tc` calls, each of which may fail without anyone noticing. `config`,
`present` and `iface` are the three notions of an interface: the configured
name, what the kernel has, and what `_detect_interfaces` last found. Delay,
jitter and loss are one number. `Unplug` takes the qdisc along, as the kernel
does; `Restart` loses the record and leaves the kernel as it was.

**GPSReader.** `pc` names the await. Opening the port takes two steps of the
executor thread, since it reads `self._baudrate` before it blocks in the open.
`ChangeBaudrate` runs in between any two steps. A `serial.Serial` whose device is
gone stays open (`ser`) and dead (`alive`) until a read raises.

**Dashboard.** One browser and its socket. `Broadcast` creates a task, which
writes later; `Connect`, `ListRows` and `SendRow` are `ws_endpoint` from send to
send, already registered for broadcasts. `loads` are the REST loads, whose
answers are read one by one and applied together, by then perhaps older than what
the socket has brought. Of the merged lists, the results stand for all, and the
status for everything that each message replaces. The limits of the code are
constants: `Recent(SnapshotRows)` is what the snapshot sends (20), `Recent(LoadRows)`
what a REST load brings (200), with which `ApplyLoad` replaces the list, and
`Merged` keeps the last `BufferRows` (500). `since` is the first result that was
stored while the socket was there.

## 3 The runs

Passing runs:

| run | module | distinct states | shows |
|---|---|---|---|
| `queue` | `QueueManager` | 7.9 thousand | The cap holds for telemetry although status messages bypass it (`TelemetryCap`), telemetry is refused only under a real backlog (`PausedOnlyUnderBacklog`), a paused queue resumes when the sender drains it (`CollectionResumes`), and `task_done` never raises although `clear` throws messages away (`UnfinishedAccount`). |
| `link` | `LinkManager` | 0.21 million | All four modes, commands in the middle of a cycle, failing route commands, lost interfaces, restarts, with a streak and a hold time of three. A decision uses a link that answered whenever a permitted one did (`LinkChosenWhenAnyUp`), no traffic goes over links off the record (`KernelWithinRecord`), the reason is one of the mode (`ReasonFitsMode`), adaptive mode does not flap (`NoFlapping`) and converges to a link that stays better (`AdaptiveConverges`), and the manager implements `LinkService`. |
| `sender` | `DTNSender` | 1.3 million | No lost wake-up (`NoLostWakeup`), no message lost or finished without acceptance (`NoMessageLost`); the sender implements `SenderService` (`ImplementsHandOver`): none overtaken, none finished or cleared at the wrong moment, and the sessions in the bundles never go back; per-link counters that bracket what uD3TN took, with at most one bundle of a telemetry message on no link and in no counter, and every other finished message counted (`CountersBracketAccepted`); no deadlock; the queue drains (`Drains`). |
| `mgmt` | `MgmtChannel` | 0.24 million | Reports and commands are each handled once and in order across replaced, abandoned and half-open connections (`ReportsInOrder`, `CommandsInOrder`), the end of a superseded handler never cuts off its successor (`NoOrphan`), no caller of `send_command` waits for ever (`CommandsAnswered`), and both ends come to agree on the connection (`Reconnected`). |
| `store` | `MCStore` | 1.6 million | The store fed in any order, with expiry, a full window of results, failed inserts and restarts: a duplicate has a saved original (`DiscardedIsSaved`), a run's count is what its cache holds or lost to age, its window has the latest of it, and no result is marked without a duplicate (`RunAccount`), and the buckets partition the traffic (`BucketsPartitionTraffic`). |
| `delivery` | `MCDelivery` | 1.2 million | End to end: a run counts each pair of session and packet that was handed to uD3TN once, but for what expired from the cache (`CountedOncePerSession`), no run left but for a later session (`RunsMoveForward`), and after any loss, break or restart the Mac's counters and run become the Pi's (`CountersConverge`, `ContextConverges`). |
| `netem` | `MCNetemAgent` | 47 thousand | No interface whose name the code protects is ever shaped, whatever the configuration calls WiFi or LTE (`EthernetUntouched`), and a command whose `tc` calls went through leaves kernel and record in agreement, whatever came before (`CommandHeals`). |
| `gps` | `GPSReader` | 9.6 thousand | The events about the port tell the truth although a command closes it under the reading thread (`EventsTruthful`); the loop never reads a missing port; and when the device stays plugged in, the reader ends up reading it (`Reconnects`). |
| `dashboard` | `MCDashboard` | 0.94 million | A client with its snapshot has the last status and, of the results, the last ones, every one since it connected, and no gap after its first (`FanOutComplete`). In spite of broken sockets and late answers the view ends up with the store's session and, if the operator refreshes until no more results come, with the last of its results (`ViewConverges`). |

The runs `link_route`, `sender_session` and `delivery_own` end in a violation:
see section 4.

**Bounds, and why they are enough.** Bounds on what may happen in a behaviour
(`MaxAccepted`, `MaxDropped`, `MaxSession`, `MaxMessages`, `MaxFaults`,
`MaxReceived`, `MaxOverflows`, `MaxWire`, `MaxConns`, `MaxStalls`, `MaxReports`,
`MaxCommands`, `MaxChanges`, `MaxUnplugs`, `MaxBreaks`, `MaxRows`, `MaxLoads`) only
stop behaviours; every one is large enough for the events that must meet.

- Queue: `MaxSize` 4 has the resume mark 3, below the maximum and above 0, so
  that pausing and resuming are distinct; eight messages fill the queue twice.
- Link manager: a window of two probes holds the `FailoverFailures` = 2 failures
  in a row; two RTT scores lie on the two sides of the hysteresis; `WinStreak`
  and `HoldTime` of 3 leave room for a streak or a timer to be interrupted by any other
  step; `MaxSession` 2 lets a mode be left and come back, and a restart follow.
- Sender: a status message between two telemetry messages is enough for one to
  overtake the other, for either kind, takes the two different dispatches of
  redundant mode, and leaves two messages that carry a session to compare; two
  faults fail both copies of a pair; two sessions change the mode there and back.
- Management channel: three connections are a predecessor, a current one and a
  late handshake; one stall blocks either send lock; two messages each way can
  overtake each other.
- Store: two sessions and two modes make all kinds of report change; three bundles
  of two packets under two sessions fill, expire and duplicate the cache; with
  `MemWindow` 1 the second unique bundle already pushes out the result of the
  first, whose key is still in the cache. Packets are symmetric: the store only
  compares them, and the run has no liveness property.
- Delivery: one packet in two copies, two messages on the wire and one mode
  change or restart let every pair of a bundle, a report and a counter overtake each
  other across the border of two runs; two faults of any kind, at any point, let
  one strike while the Mac has not yet recovered from the other. A key that expires is
  one of those faults. The counter queue has room for one (`MaxCounters`), and
  a redundant pair publishes two, so that it overflows.
- Network emulation: nothing is bounded but the constants. Two WiFi names let the
  preferred one come and go; the LTE interface may be configured to be the Ethernet port;
  the three settings are the three ways through `apply` that differ in the
  number of `tc` calls.
- GPS: three changes and two unpluggings, so that one can strike in each await
  of the recovery from another.
- Dashboard: two sessions separate old results from new ones. `SnapshotRows` 1,
  `LoadRows` 2, `BufferRows` 3 and `MCMaxRows` (one result, then three) make every
  limit bite: the second session is longer than a snapshot and than a load, and
  with the result of the first it overflows the buffer. One break and one load meet at
  any point of each other.

**Fairness, and why the code justifies it.** All of it is weak. No fault and no
outcome is fair.

- `queue`: `Get`, `TaskDone`. The sender loop never ends, and each send ends, by the
  socket timeout at the latest.
- `link`: `CheckCycle`, `Tick`. Each probe has a timeout, each sleep ends, and
  time passes. Which outcome a probe has is not fair.
- `sender`: `Sender`. asyncio resumes a coroutine whose await is over. `MaxFaults`
  bounds the failures, so `Drains` says: once failures stop.
- `delivery`: `PushStatus`, `MacReceives`. The status loop sends at least once per
  heartbeat, reconnects for ever (back-off at most a minute), and the config server
  handles each message it reads. Nothing is assumed of bundles or counters.
- `mgmt`: the steps of both loops and of each handler, and `SendCommand`,
  `SendReturns`. Both event loops run; keepalives, the open timeout and the close timeout
  of `websockets` expire. The network's faults end before the last
  connection (`MaxStalls`, and the guards on `MaxConns`).
- `gps`: `ReaderStep`. Every await ends: reading has a timeout of two seconds.
  `Reconnects` is for a device that stays plugged in.
- `dashboard`: `Heartbeat`, the client's connecting and the endpoint's
  sends, the tasks, the receiving, and the two ends of a REST call.

Three configurations switch the deadlock check off, each because a bound stops
the model where the program would go on: `MCQueueManager.cfg` (all messages
accepted, drained and dropped), `MCMgmtChannel.cfg` (all reports and commands sent, on a
last connection that stays up) and `MCDashboard.cfg` (the last session with all
its results, and no break left). All other runs check it.

## 4 Where code and documentation part

Three are runs in which TLC finds the behaviour; `PROJECT.json` quotes the line
that says otherwise.

| run | what TLC finds |
|---|---|
| `link_route` | Redundant with both links, then `single_link_wifi` while WiFi is active: `_apply` sees the same link and returns, so the multipath route over LTE stays. |
| `sender_session` | The mode changes while the sender waits for the queue: a bundle dispatched for the old mode carries the new session. |
| `delivery_own` | A bundle of the previous session arrives after the report of the new one: it is counted in the new run. |

Others came up in the translation, and have no run of their own:

- `link_manager.py:532`: a challenger leads, goes down for a cycle and leads again.
  The streak is continued, since `_apply` to the same link returns before it
  resets it; `docs/architecture.md:130` speaks of a lead "for
  `ADAPTIVE_WIN_STREAK` probes".
- `link_manager.py:513`: the same line promises immediate failover "after
  `IMMEDIATE_FAILOVER_FAILURES` hard failures", but reachability is tested first: a single
  failed probe moves the link and the run of failures never decides. This one is
  proved (`UnhealthyIsDown` in `LinkManagerProofs`).
- `dtn_sender.py:172`: the link is lost while the sender waits for the queue, and
  the bundle goes out tagged "none" and counted on no link; the docstring
  (line 24) says that the sender waits while there is none, and line 5 calls the
  per-link counters the "source of truth for DTN accounting". `CountersBracketAccepted`
  says how much they can miss: at most one bundle of each telemetry message, and any number
  of those of a status message, which redundant mode sends on the active link
  without looking at it.
- `dtn_sender.py:179`: the session is read anew at every attempt. A packet that uD3TN
  accepted without a confirmation in time, and that is retried after the
  session has changed, has two keys (`store.py:419`), and a run that gets both counts
  it twice. At most one packet of each session is concerned
  (`RetriedUnderOneMoreKey`).
- `store.py:288`: a run starts between the two copies of a packet. The cache was
  cleared, so the second copy is stored again.
- `server.py:192` (`api_server`) and `useDashboardData.ts:79`, `:109`, `:182`: after a reconnect the snapshot
  brings the last 20 results, so that a longer gap is closed only by a refresh; and
  a refresh replaces the list by the last 200, whatever it held. The limits are in
  the code and nothing contradicts them, but the dashboard does not show a long session whole.
- `gps_reader.py:145`: a new baud rate that comes while the port is being opened
  (line 202) finds no open port to close, and the open under way wins: the port keeps the
  old rate until it is opened again, whereas the docstring says that the command
  reopens the port. `portBaud` against `baudrate` shows it.
- `queue_manager.py:133`: the resume mark is `int(max_size * 0.90)`, rounded down,
  and the comparison is strict. With `MAX_QUEUE_SIZE=1` the mark is 0, and after the
  first drop telemetry is refused until the operator clears the queue.
  `CollectionResumes` is therefore checked for a size whose mark is positive.
- `App.tsx` (not modelled): a recording that is stopped while the previous one is being
  saved is not saved, and `latestExperimentRunRef` is never cleared, so that a
  recording without any result saves the rows of the one before again.

## 5 The proofs

All theorems are about the component's specification with arbitrary constants
that satisfy the `ASSUME`s of its module; TLC evaluates the assumptions in the
runs. `PROJECT.json` lists the theorems.

**QueueManagerProofs.** `TypeCorrect`; `PausedBacklog`: inductive as it stands,
since each way to shorten the queue re-evaluates the pause; `TaskDoneNeverRaises`:
`unfinished = Len(q) + Held + cleared`, inductive, whose right side is at least one
whenever a message is held; `TelemetryNeverExceedsCap`: telemetry is admitted
only below `MaxSize` total, and the positions of telemetry in a tail inject into
those of the whole queue (`TailPositions`).

**LinkManagerProofs.** The invariant `IInv` joins the types, `NoLinkNoRoute`,
`KernelWithinRecord` and `ReasonFitsMode`. They are proved together: types are
needed to know what a decision may choose, and a reason fits only as long as
the mode it was given under is the mode now, which a command in mid-cycle changes
with the reason in one step. The proof splits a step as the code is split. A step of a
cycle is an `Observe` followed by `NoDecision` or by `Decide`; `DecideOutcome`
says that every decision is an `Apply`, a `Stay` or `Redundant`, and the lemmas
`SingleRoute`, `RedundantRoutes`, `ApplyOutcome`, `StayOutcome` say what each of
these does to each group of variables, so that no theorem looks into
the scores. `Implementation` proves `Spec => ImplementsService`, that is, every
step of the link manager is a step of `LinkService` or a stutter. The two
action properties (`AlwaysChoosesAnswering`, `NeverFlaps`) need one fact more,
`LastIsUp`: a link that counts as reachable has a success as the latest entry of its
history, or an empty history, which `set_runtime_config` leaves behind in mid-cycle.
From it `UnhealthyIsDown` shows that the run of failures never moves a link that
answers, and the rest is the five cases of `Adaptive`.

**DTNSenderProofs.** `NeverSleepsThrough`: `NoLostWakeup` is inductive, because the
sender clears the event in the very step in which it saw no usable link, and
every change of mode or link sets it. `DoneOnlyAccepted`: not inductive, as a
redundant dispatch may end with the failure of its second call; the
strengthening `CopySent` says that once one call has returned, uD3TN has a
bundle of the message in flight. `AlwaysSentInOrder` and `NothingLost` rest on
`Places`, which says where every message is: the queue holds the newest ones
without a gap (`Lined`), those before them are in flight, done or cleared
(`Left`), and those older than the one in flight are gone (`OlderGone`). For the
sessions, `TagsBehind` says that neither the tags of the calls under way nor those of
an accepted bundle are ahead of the session now, and that no accepted one is
ahead of the calls. `Implementation` proves `Spec => ImplementsHandOver`: the
invariants say which message is the oldest outstanding one, and `AcceptedHeld`,
that what uD3TN has is in flight or done, makes `clear` harmless to it.
`CountersAlwaysBracket` needs three more facts. The bracket of each link is proved with
the types, by groups of variables and by the ways in which a call can end
(`CallEnds`). `Escapes` says that a message of which a bundle went out off link is
still in flight or done, and that, if it is telemetry, it does not go off link
again: a retry of it starts at the top of the loop, which waits for a link, so only
the first attempt can lose its link in the wait for the queue. `DoneCounted`
compares the finished messages that stayed on the links with the sum of the counters, which in
a redundant dispatch is one ahead once the first copy returned (`OneAhead`); it rests
on `Places`, since a message is finished once.

**MgmtChannelProofs.** Both `ReportsHandledInOrder` and `CommandsDispatchedInOrder`
show a refinement of `OrderedChannel`: a step that sends is `Send`, one that
handles is `Handle`, one that drops a buffer is `Lose`. That the number handled is
larger than the last is the invariant's work. For reports: only `_pi_ws` and the connection being
closed can be read (`Current`), the connections that carry reports wait for the
lock in the order in which they were opened (`QueueOrder`), so the reports of a
connection that is read are older than all others (`ReportOrder`). For commands:
the client has closed every connection but the one it uses (`Closed`), and what
it has received comes before what is under way (`CommandOrder`). That a
nonempty set of numbers has a smallest (`SmallestExists`) is the well-foundedness of
`<` from the library. `NeverOrphaned` is a conjunct of `Current`.

**DeliveryProofs.** First the store alone, under any report, counter and bundle.
`StoreInv` joins the types, `DiscardedIsSaved`, `RunAccount`,
`BucketsPartitionTraffic` and the finiteness of the sets they count.
`RunAlwaysAccounted` holds for any length of the window: a unique bundle adds a key to
the cache and a result to the window, and what the window drops for it is made up for
by the count; a duplicate marks at most one result (`MarkedOnce`); an expiry moves one key
from the cache to `expired`. A report that starts a run empties cache and results together and never the
database, which is why a discarded copy has a saved original in spite of the
restarts and the cleared cache. The partition of the traffic is stated without a
recursive sum: what is charged to the buckets is a set, with one element
`<<bucket, i>>` per count (`Charged`), and its cardinality is the traffic received. To count a
bundle is to add one element (`ChargeAddsOne`), so that the theorem needs the library's
facts on cardinalities and no induction over data.

The invariant is proved for `StoreStep`, a store step with *any* report or counter.
`DeliveryStepIsStoreStep` shows that every step of `Delivery` is one, or leaves
the store alone; `StoreSoundEndToEnd` is therefore the same theorem for a store
fed by the Pi, the channel and the network.

`RunsOnlyMoveForward` is not inductive as it stands: what the Mac does depends on
what is on the wire, and that on what the Pi was when it sent. `InOrder` is the
strengthening. Every counter waiting to be sent is at most the Pi's own
(`CountersBelow`). The reports on the wire are in the order of their sessions,
none is later than the Pi's, and two of the same session name the same mode
(`WireInOrder`). The Mac's run is not later than any of them (`RunInOrder`). Its
proof has one lemma for each way in which the order could be disturbed: the Pi
counts, the Pi speaks, the connection breaks, the Mac reads. Every
mode change and every restart of the agent draws a fresh session id; the model
numbers them in the order in which they are drawn, so that "later" has a meaning.
`RunAgrees` follows: once the Mac is in the run of the current session, it
has the run's mode, and its send counters do not exceed the Pi's.

`CountedOnce` combines `RunAccount`, by which a run's count is the size of its cache and
what expired, with `OffersInOrder`, by which all that the cache knows was handed to
uD3TN. The same invariant says that the packets handed over and the sessions in their
bundles go up together, from which `RetriedUnderOneMoreKey` follows: of
the packets of one session only the last, the one in flight when the session
ended, can be handed over again in a later one.

**NetemAgentProofs.** The key is `ApplyOverwrites`: whatever tree the kernel has,
tc calls that all succeed leave exactly the tree of the settings, since the
first of them deletes the root. `EthernetNeverShaped` holds because the targets of
a command exclude protected names, whatever the configuration.

**GPSReaderProofs.** Types and `EventsTruthful` are inductive together: that the
status and the last event agree takes `connected => ser = "open"`, which each of
the three ways to close or lose a port keeps.

**DashboardProofs.** `FanOutComplete` speaks of the moments at which no task is
pending. `StatusOnItsWay` and `RowsOnTheirWay` say what holds at all others: the
last status on its way is the latest; and of the results those that are given, in the rest
of the snapshot or in a task are the results from some number on, without a gap
(`From`), a number that is low enough for the snapshot once that has been read (`LowEnough`).
The broadcasts prolong this suffix while the snapshot may lengthen it at its start. The theorem
holds for any limits.

**Only model-checked.** All liveness (`CollectionResumes`, `AdaptiveConverges`,
`Drains`, `CommandsAnswered`, `Reconnected`, `CountersConverge`, `ContextConverges`,
`Reconnects`, `ViewConverges`), which rests on fairness and `ENABLED`. Every
invariant, action property and refinement that a passing run checks is proved.

## 6 What is left out

- Contents: NMEA parsing, AAP framing, JSON, latency and byte values, wording.
- `stop()` of the components: they end with the process, which is a restart.
- Of the store: latency windows, derived metrics, events, the generated, enqueued
  and dropped totals of a bucket, and saved recording runs. The enqueue baseline
  is kept but no property is about it.
- Of the bridge: its two AAP receive loops. They reconnect and hand over one bundle
  after the other; `Delivery` allows any order and number already. A bundle whose
  handling raises is gone, which is a loss among others.
- Of the GPS reader: fix events, the telemetry cadence, `change_send_frequency`.
- Of the agent wiring: writing the `.env` file, signals, shutdown.
- Of the dashboard: the recording state machine of `App.tsx` and the rendering. The
  REST reads that are not modelled go the way of the two that are.
- Stateless parts: `dtn-mcp`, scripts, schemas.
- The real sizes of the windows (1000 results in the store, 20 in a snapshot, 200 in a
  load, 500 in the view) are constants, small in the runs and arbitrary in the proofs. A load
  of the model never asks for more than the store's window holds, as in the code.
- `Delivery` reports no queue numbers; the enqueue count and the overflow flag of a report
  take any value in the run of `Store`.
- What the properties do not say. `KernelWithinRecord` says nothing while the record
  of a restarted agent is empty; the kernel then has the routes of the process
  before it. `DiscardedIsSaved` exempts a packet whose insert failed.
  `BucketsPartitionTraffic` counts each bundle in one bucket, that of the latest
  report, which need not be the one it was sent under. In `MgmtChannel` the client
  connects again once it has handled what it had received, since the back-off is at least a
  second.

## 7 The plan

Done, in this order: `QueueManager`, `LinkService` and `LinkManager`, `DTNSender`
and `SenderService`, `Store`, `Delivery`, `OrderedChannel` and `MgmtChannel`,
`NetemAgent`, `GPSReader`, `Dashboard`, and theorems for each.

What remains worth proving is the safety half of the liveness properties, that
is, what must hold in the states in which they have converged: that an idle
management channel with a connection has nothing left to read (`MgmtChannel`), that
an empty wire and an empty counter queue leave the Mac with the Pi's last counters
(`Delivery`), and that a view with nothing under way is the store's (`Dashboard`).

Worth modelling: the enqueue baseline and delivery rate of the store
(a run that starts before anything was enqueued takes its baseline from the
second report), and the recording of `App.tsx` with `save_experiment_recording_run`.
