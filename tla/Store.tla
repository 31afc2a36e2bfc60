------------------------------- MODULE Store --------------------------------
(***************************************************************************)
(* The accounting of the Mac backend, mac-backend/shared/store.py: what    *)
(* each message from the Pi does to the physical DTN counters, to the      *)
(* metrics of the current experiment run, to the deduplication cache, to   *)
(* the distribution buckets and to the telemetry table.                    *)
(*                                                                         *)
(* Every public method holds the store's lock for all its state changes,   *)
(* so each is one action.  Its callers are the config server (status       *)
(* reports and send counters) and the DTN receiver bridge (bundles).  Here *)
(* they may come in any order and with any content; Delivery composes the  *)
(* store with a Pi and with the two channels.                              *)
(*                                                                         *)
(* Abstractions: byte counts, failure and retry counters go the way of the *)
(* bundle counters; latencies, samples, events and broadcasts are left     *)
(* out.  Messages carry a session and a packet id, as everything the agent *)
(* sends does.                                                             *)
(***************************************************************************)
EXTENDS Naturals, Sequences, FiniteSets

CONSTANTS
    Modes,            \* experiment modes
    Sessions,         \* experiment session ids
    Packets,          \* packet ids of telemetry messages
    Emulations,       \* emulation signatures
    Reports,          \* status reports, a set of PiStatusReport
    Counts,           \* contents of the Pi's sent counters, per link
    MaxSwitchEvents,  \* _MAX_SW_EVENTS
    MemWindow,        \* _MEM_WINDOW, the length of _recent_results
    MaxOverflows,     \* bound on the queue overflows counted in one run
    MaxReceived       \* bound on the bundles and rows in one behaviour

Links == {"wifi", "lte"}
None  == "none"

PiStatusReport ==
    [mode : Modes, session : Sessions, link : Links \cup {None},
     emulation : Emulations, enqueued : Nat, full : BOOLEAN]
Bundles == [id : Packets, session : Sessions, mode : Modes,
            link : Links \cup {None}]

ASSUME BoundsAssumption ==
    /\ MaxSwitchEvents \in Nat /\ MaxOverflows \in Nat /\ MaxReceived \in Nat
    /\ MemWindow \in Nat \ {0}
ASSUME ReportsAssumption ==
    Reports # {} /\ Reports \subseteq PiStatusReport /\ Counts \subseteq [Links -> Nat]
ASSUME SessionsAssumption == Sessions # {}

VARIABLES
    known,        \* is there a _pi_status?
    status,       \* _pi_status, meaningful when known
    sent,         \* _dtn_counters.bundles_sent_*
    received,     \* _dtn_counters.bundles_received
    expMode,      \* _exp.mode
    expSession,   \* _exp.session_id, meaningful when known
    baseline,     \* _exp.enqueued_baseline
    unique,       \* _exp.unique_received
    duplicates,   \* _exp.total_duplicates
    first,        \* _exp.first_wifi, _exp.first_lte
    switchovers,  \* len(_exp.switchover_events)
    overflows,    \* _exp.queue_overflow_count
    seen,         \* the keys of _dedup_seen
    results,      \* _recent_results: keys, and had_duplicate
    expired,      \* keys of this run that the cache dropped for age (auxiliary)
    buckets,      \* _distribution_buckets
    rows,         \* telemetry rows per packet in the database
    unsaved,      \* packets with an insert that failed (auxiliary)
    uncharged     \* bundles received that belong to no bucket (auxiliary)

run      == <<expMode, expSession, baseline, unique, duplicates, first,
              switchovers, overflows>>
dedup    == <<seen, results, expired>>
database == <<rows, unsaved>>
storeVars == <<known, status, sent, received, run, dedup, buckets, database,
               uncharged>>

Zero == [l \in Links |-> 0]

(* A new Store; the database is what it was. *)
Fresh ==
    [sent |-> Zero, baseline |-> 0, session |-> CHOOSE s \in Sessions : TRUE,
     buckets |-> [k \in Modes \X Emulations |-> [unique |-> 0, duplicates |-> 0]]]

StoreInit ==
    /\ known = FALSE
    /\ status \in {CHOOSE s \in Reports : TRUE}
    /\ sent = Zero
    /\ received = 0
    /\ expMode = "single_link_wifi"
    /\ expSession = Fresh.session
    /\ baseline = 0
    /\ unique = 0
    /\ duplicates = 0
    /\ first = Zero
    /\ switchovers = 0
    /\ overflows = 0
    /\ seen = {}
    /\ results = << >>
    /\ expired = 0
    /\ buckets = Fresh.buckets
    /\ rows = [p \in Packets |-> 0]
    /\ unsaved = {}
    /\ uncharged = 0

(* The backend process is restarted: all but the database starts again. *)
StoreRestart ==
    /\ known' = FALSE
    /\ sent' = Zero /\ received' = 0
    /\ expMode' = "single_link_wifi" /\ expSession' = Fresh.session
    /\ baseline' = 0 /\ unique' = 0 /\ duplicates' = 0 /\ first' = Zero
    /\ switchovers' = 0 /\ overflows' = 0
    /\ seen' = {} /\ results' = << >> /\ expired' = 0
    /\ buckets' = Fresh.buckets
    /\ uncharged' = 0
    /\ UNCHANGED <<status, database>>

-----------------------------------------------------------------------------
(* update_pi_status *)

(* Mutant: a run is known by its mode alone. *)
NewContextByMode(s) == ~known \/ s.mode # expMode

NewContext(s) == ~known \/ s.mode # expMode \/ s.session # expSession

(* Both reports of one session, on different links. *)
Switched(s) ==
    /\ known
    /\ status.session = s.session
    /\ {status.link, s.link} = Links

Overflowed(s) == known /\ ~status.full /\ s.full

(* Mutant: the list of switch-overs is never trimmed. *)
CountSwitchUntrimmed(n, s) == IF Switched(s) THEN n + 1 ELSE n

(* The list of switch-overs drops its oldest entry when it is full. *)
CountSwitch(n, s) ==
    IF Switched(s) /\ n < MaxSwitchEvents THEN n + 1 ELSE n
CountOverflow(n, s) == IF Overflowed(s) THEN n + 1 ELSE n

(* Mutant: the recent results outlive the run. *)
ForgetSeenOnly == seen' = {} /\ expired' = 0 /\ UNCHANGED results

Forget == seen' = {} /\ expired' = 0 /\ results' = << >>

StartRun(s) ==
    /\ expMode' = s.mode
    /\ expSession' = s.session
    /\ baseline' = s.enqueued
    /\ unique' = 0
    /\ duplicates' = 0
    /\ first' = Zero
    /\ switchovers' = CountSwitch(0, s)
    /\ overflows' = CountOverflow(0, s)
    /\ Forget

ContinueRun(s) ==
    /\ baseline' = IF baseline = 0 THEN s.enqueued ELSE baseline
    /\ switchovers' = CountSwitch(switchovers, s)
    /\ overflows' = CountOverflow(overflows, s)
    /\ UNCHANGED <<expMode, expSession, unique, duplicates, first, dedup>>

(* Mutant: the sent counters may only grow. *)
UpdateOnlyUpwards(s, counts) ==
    /\ known' = TRUE
    /\ status' = s
    /\ sent' = [l \in Links |-> IF counts[l] > sent[l] THEN counts[l] ELSE sent[l]]
    /\ IF NewContext(s) THEN StartRun(s) ELSE ContinueRun(s)
    /\ UNCHANGED <<received, buckets, database, uncharged>>

UpdatePiStatus(s, counts) ==
    /\ known' = TRUE
    /\ status' = s
    /\ sent' = counts
    /\ IF NewContext(s) THEN StartRun(s) ELSE ContinueRun(s)
    /\ UNCHANGED <<received, buckets, database, uncharged>>

(* ingest_dtn_send_counter *)
IngestSendCounter(counts) ==
    /\ sent' = [l \in Links |-> IF counts[l] > sent[l] THEN counts[l] ELSE sent[l]]
    /\ UNCHANGED <<known, status, received, run, dedup, buckets, database,
                   uncharged>>

-----------------------------------------------------------------------------
(* ingest_bundle *)

(* Mutant: packets are told apart by the session alone. *)
KeyOfSession(b) == <<b.session, CHOOSE p \in Packets : TRUE>>

Key(b) == <<b.session, b.id>>

(* Mutant: only unique bundles are charged to a bucket. *)
ChargeUnique(field) ==
    IF ~known
    THEN uncharged' = uncharged + 1 /\ UNCHANGED buckets
    ELSE /\ buckets' = IF field = "duplicates" THEN buckets
             ELSE [buckets EXCEPT ![<<status.mode, status.emulation>>][field] = @ + 1]
         /\ UNCHANGED uncharged

(* The bucket of the latest status report; there is none before the first. *)
Charge(field) ==
    IF ~known
    THEN uncharged' = uncharged + 1 /\ UNCHANGED buckets
    ELSE /\ buckets' =
               [buckets EXCEPT ![<<status.mode, status.emulation>>][field] = @ + 1]
         /\ UNCHANGED uncharged

Received ==
    /\ received < MaxReceived
    /\ received' = received + 1
    /\ UNCHANGED <<known, status, sent, expMode, expSession, baseline,
                   switchovers, overflows>>

(* _mark_recent_result_duplicate: the newest result with this key, if the
   window still has one. *)
MarkDuplicate(k) ==
    results' = [i \in 1..Len(results) |->
                   IF /\ results[i].key = k
                      /\ \A j \in i + 1..Len(results) : results[j].key # k
                   THEN [results[i] EXCEPT !.dup = TRUE] ELSE results[i]]

(* A key in the cache makes the bundle a duplicate, which is discarded. *)
IngestDuplicate(b) ==
    /\ Key(b) \in seen
    /\ Received
    /\ duplicates' = duplicates + 1
    /\ MarkDuplicate(Key(b))
    /\ Charge("duplicates")
    /\ UNCHANGED <<unique, first, seen, expired, database>>

(* _persist_telemetry, whose errors are logged and swallowed *)
Persist(p) ==
    \/ /\ rows[p] < MaxReceived
       /\ rows' = [rows EXCEPT ![p] = @ + 1]
       /\ UNCHANGED unsaved
    \/ /\ unsaved' = unsaved \cup {p}
       /\ UNCHANGED rows

(* _recent_results.append: a deque of bounded length drops its oldest. *)
Remember(k) ==
    LET all == Append(results, [key |-> k, dup |-> FALSE])
    IN  results' = IF Len(all) > MemWindow THEN Tail(all) ELSE all

(* Mutant: only the copies of the redundant mode are put in the cache. *)
IngestUniqueUncached(b) ==
    /\ Key(b) \notin seen
    /\ Received
    /\ unique' = unique + 1
    /\ first' = IF b.mode = "redundant" /\ b.link \in Links
                THEN [first EXCEPT ![b.link] = @ + 1] ELSE first
    /\ seen' = IF b.mode = "redundant" THEN seen \cup {Key(b)} ELSE seen
    /\ Remember(Key(b))
    /\ Charge("unique")
    /\ Persist(b.id)
    /\ UNCHANGED <<duplicates, expired>>

IngestUnique(b) ==
    /\ Key(b) \notin seen
    /\ Received
    /\ unique' = unique + 1
    /\ first' = IF b.mode = "redundant" /\ b.link \in Links
                THEN [first EXCEPT ![b.link] = @ + 1] ELSE first
    /\ seen' = seen \cup {Key(b)}
    /\ Remember(Key(b))
    /\ Charge("unique")
    /\ Persist(b.id)
    /\ UNCHANGED <<duplicates, expired>>

IngestTelemetry(b) == IngestDuplicate(b) \/ IngestUnique(b)

(* A GPS status message is received traffic, but of no run and no bucket. *)
IngestGPSStatus ==
    /\ Received
    /\ uncharged' = uncharged + 1
    /\ UNCHANGED <<unique, duplicates, first, dedup, buckets, database>>

(* _prune_dedup_entries: DEDUP_TTL_S after its first copy, a key is gone. *)
Expire ==
    /\ \E k \in seen : seen' = seen \ {k}
    /\ expired' = expired + 1
    /\ UNCHANGED <<known, status, sent, received, run, results, buckets,
                   database, uncharged>>

StoreNext ==
    \/ \E s \in Reports, counts \in Counts :
          (Overflowed(s) => overflows < MaxOverflows) /\ UpdatePiStatus(s, counts)
    \/ \E counts \in Counts : IngestSendCounter(counts)
    \/ \E b \in Bundles : IngestTelemetry(b)
    \/ IngestGPSStatus
    \/ Expire
    \/ StoreRestart

StoreSpec == StoreInit /\ [][StoreNext]_storeVars

-----------------------------------------------------------------------------
(* Every variable keeps its type, and the list of switch-overs its cap. *)
StoreTypeOK ==
    /\ known \in BOOLEAN
    /\ status \in PiStatusReport
    /\ sent \in [Links -> Nat]
    /\ received \in Nat
    /\ expMode \in Modes \cup {"single_link_wifi"}
    /\ expSession \in Sessions
    /\ baseline \in Nat
    /\ unique \in Nat
    /\ duplicates \in Nat
    /\ first \in [Links -> Nat]
    /\ switchovers \in 0..MaxSwitchEvents
    /\ overflows \in Nat
    /\ seen \in SUBSET (Sessions \X Packets)
    /\ results \in Seq([key : Sessions \X Packets, dup : BOOLEAN])
    /\ expired \in Nat
    /\ buckets \in [Modes \X Emulations -> [unique : Nat, duplicates : Nat]]
    /\ rows \in [Packets -> Nat]
    /\ unsaved \in SUBSET Packets
    /\ uncharged \in Nat

(* Discarding a duplicate loses no data: its original is in the database,
   across runs and restarts, unless SQLite refused it. *)
DiscardedIsSaved == \A k \in seen : rows[k[2]] > 0 \/ k[2] \in unsaved

(* The account of a run.  Whatever it has counted as unique is in the cache,
   or was there and expired: so no key is counted again unless DEDUP_TTL_S
   passed in between.  The recent results are the latest of what it counted,
   as many as their window holds; whatever the cache recognises has one to be
   marked as duplicated, unless the window dropped it; and none is marked
   without a duplicate.  Each report, bundle, expiry and restart touches only
   some of the counters, the cache and the window. *)
Shown  == {results[i].key : i \in 1..Len(results)}
Marked == {i \in 1..Len(results) : results[i].dup}
RunAccount ==
    /\ unique = Cardinality(seen) + expired
    /\ Len(results) = IF unique < MemWindow THEN unique ELSE MemWindow
    /\ Cardinality(seen \ Shown) <= unique - Len(results)
    /\ Cardinality(Marked) <= duplicates

(* The buckets partition the traffic: each telemetry bundle received since
   the first report is in exactly one of them, as unique or as duplicate.
   What is in the buckets is numbered, bucket by bucket. *)
InBucket(k) == buckets[k].unique + buckets[k].duplicates
Charged == UNION {{k} \X (1..InBucket(k)) : k \in DOMAIN buckets}
BucketsPartitionTraffic == received = uncharged + Cardinality(Charged)
=============================================================================
