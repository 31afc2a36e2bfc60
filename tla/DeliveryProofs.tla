--------------------------- MODULE DeliveryProofs ---------------------------
(***************************************************************************)
(* Proofs about Store and Delivery, for any modes, sessions, packets and   *)
(* emulations, any status reports and contents of bundles, and any bounds. *)
(*                                                                         *)
(* First the store alone.  Its inductive invariant StoreInv is the         *)
(* conjunction of StoreTypeOK, which is proved by groups of variables, and *)
(* of the store's properties, with the finiteness of the sets they count.  *)
(* It is proved for StoreStep, whose reports and counters are arbitrary,   *)
(* so that it holds of the store wherever it is used.                      *)
(*                                                                         *)
(* Then the store behind its two channels.  Each step of Delivery is a     *)
(* StoreStep or leaves the store alone.  What Delivery adds rests on two   *)
(* orders: that of the management channel (InOrder) and that in which the  *)
(* packets are handed to uD3TN (OffersInOrder).                            *)
(***************************************************************************)
EXTENDS Delivery, FiniteSetTheorems, SequenceTheorems, TLAPS

Keys == Sessions \X Packets

StatusType ==
    /\ status \in PiStatusReport /\ sent \in [Links -> Nat] /\ received \in Nat
    /\ uncharged \in Nat
RunType ==
    /\ expMode \in Modes \cup {"single_link_wifi"} /\ expSession \in Sessions
    /\ baseline \in Nat /\ unique \in Nat /\ duplicates \in Nat
    /\ first \in [Links -> Nat]
    /\ switchovers \in 0..MaxSwitchEvents /\ overflows \in Nat
CacheType ==
    /\ seen \in SUBSET Keys /\ results \in Seq([key : Keys, dup : BOOLEAN])
    /\ expired \in Nat
BucketType == buckets \in [Modes \X Emulations -> [unique : Nat, duplicates : Nat]]
DatabaseType == rows \in [Packets -> Nat] /\ unsaved \in SUBSET Packets
KnownType == known \in BOOLEAN

LEMMA TypeParts ==
    StoreTypeOK <=> /\ KnownType /\ StatusType /\ RunType /\ CacheType
                    /\ BucketType /\ DatabaseType
BY DEF StoreTypeOK, KnownType, StatusType, RunType, CacheType, BucketType, DatabaseType, Keys

StoreInv ==
    /\ KnownType /\ StatusType /\ RunType /\ CacheType /\ BucketType /\ DatabaseType
    /\ DiscardedIsSaved
    /\ RunAccount /\ IsFiniteSet(seen)
    /\ BucketsPartitionTraffic /\ IsFiniteSet(Charged)

(* What the store may do, with any report and any counters.                  *)
StoreStep ==
    \/ \E s \in PiStatusReport, counts \in [Links -> Nat] : UpdatePiStatus(s, counts)
    \/ \E counts \in [Links -> Nat] : IngestSendCounter(counts)
    \/ \E b \in Bundles : IngestTelemetry(b)
    \/ IngestGPSStatus
    \/ Expire
    \/ StoreRestart

LEMMA ZeroType == Zero \in [Links -> Nat]
BY DEF Zero

LEMMA FreshType ==
    /\ Fresh.session \in Sessions
    /\ Fresh.buckets \in [Modes \X Emulations -> [unique : Nat, duplicates : Nat]]
BY SessionsAssumption DEF Fresh

LEMMA NothingCounted ==
    Cardinality({}) = 0 /\ IsFiniteSet({})
BY FS_EmptySet

(* The account of a run that has counted nothing.                            *)
NothingInRun ==
    /\ seen = {} /\ results = << >> /\ unique = 0 /\ expired = 0
    /\ duplicates \in Nat

LEMMA NewAccount ==
    /\ NothingInRun => RunAccount /\ IsFiniteSet(seen)
    /\ NothingInRun' => RunAccount' /\ IsFiniteSet(seen')
<1>1. Len(<< >>) = 0 /\ {i \in 1..0 : << >>[i].dup} = {}
  OBVIOUS
<1>2. NothingInRun => RunAccount /\ IsFiniteSet(seen)
  <2>1. NothingInRun => Len(results) = 0 /\ Marked = {} /\ seen \ Shown = {}
    BY <1>1 DEF NothingInRun, Marked
  <2>2. NothingInRun =>
          /\ unique = 0 /\ expired = 0 /\ duplicates \in Nat /\ IsFiniteSet(seen)
          /\ Cardinality(seen) = 0 /\ Len(results) = 0
          /\ Cardinality(seen \ Shown) = 0 /\ Cardinality(Marked) = 0
    BY <2>1, NothingCounted DEF NothingInRun
  <2> QED BY <2>2, BoundsAssumption DEF RunAccount
<1>3. NothingInRun' => RunAccount' /\ IsFiniteSet(seen')
  <2>1. NothingInRun' => Len(results') = 0 /\ Marked' = {} /\ seen' \ Shown' = {}
    BY <1>1 DEF NothingInRun, Marked
  <2>2. NothingInRun' =>
          /\ unique' = 0 /\ expired' = 0 /\ duplicates' \in Nat /\ IsFiniteSet(seen')
          /\ Cardinality(seen') = 0 /\ Len(results') = 0
          /\ Cardinality(seen' \ Shown') = 0 /\ Cardinality(Marked') = 0
    BY <2>1, NothingCounted DEF NothingInRun
  <2> QED BY <2>2, BoundsAssumption DEF RunAccount
<1> QED BY <1>2, <1>3

(* The account is a matter of these variables alone.                         *)
LEMMA AccountUnchanged ==
    ASSUME RunAccount, UNCHANGED <<unique, duplicates, seen, results, expired>>
    PROVE  RunAccount'
BY DEF RunAccount, Shown, Marked

(* Empty buckets hold nothing, and what they hold is a matter of the buckets *)
(* alone.                                                                    *)
LEMMA NothingCharged ==
    /\ buckets = Fresh.buckets => Charged = {}
    /\ buckets' = Fresh.buckets => Charged' = {}
<1> DEFINE n(k) == Fresh.buckets[k].unique + Fresh.buckets[k].duplicates
<1>1. \A k \in DOMAIN Fresh.buckets : 1..n(k) = {}
  BY DEF Fresh
<1>2. UNION {{k} \X (1..n(k)) : k \in DOMAIN Fresh.buckets} = {}
  BY <1>1
<1> QED BY <1>2 DEF Charged, InBucket

LEMMA ChargedUnchanged ==
    ASSUME UNCHANGED buckets
    PROVE  Charged' = Charged
BY DEF Charged, InBucket

LEMMA StoreInvariantInit == StoreInit => StoreInv
<1> SUFFICES ASSUME StoreInit PROVE StoreInv
  OBVIOUS
<1>1. KnownType
  BY Zenon DEF StoreInit, KnownType
<1>2. StatusType
  <2>1. (CHOOSE s \in Reports : TRUE) \in PiStatusReport
    BY ReportsAssumption
  <2> QED BY <2>1, ZeroType DEF StoreInit, StatusType
<1>3. RunType
  BY ZeroType, FreshType, BoundsAssumption DEF StoreInit, RunType
<1>4. CacheType /\ DatabaseType /\ DiscardedIsSaved
  BY DEF StoreInit, CacheType, DatabaseType, DiscardedIsSaved
<1>5. BucketType
  BY FreshType DEF StoreInit, BucketType
<1>6. RunAccount /\ IsFiniteSet(seen)
  BY NewAccount DEF StoreInit, NothingInRun
<1>7. BucketsPartitionTraffic /\ IsFiniteSet(Charged)
  <2>1. Charged = {} /\ received = 0 /\ uncharged = 0
    BY NothingCharged DEF StoreInit
  <2> QED BY <2>1, NothingCounted DEF BucketsPartitionTraffic
<1> QED BY <1>1, <1>2, <1>3, <1>4, <1>5, <1>6, <1>7 DEF StoreInv

-----------------------------------------------------------------------------
LEMMA ReportTypes ==
    ASSUME NEW s \in PiStatusReport
    PROVE  /\ s.mode \in Modes /\ s.session \in Sessions
           /\ s.enqueued \in Nat /\ s.emulation \in Emulations
BY DEF PiStatusReport

LEMMA CountSwitchBounded ==
    ASSUME NEW n \in 0..MaxSwitchEvents, NEW s
    PROVE  CountSwitch(n, s) \in 0..MaxSwitchEvents
BY BoundsAssumption DEF CountSwitch

LEMMA StartRunInvariant ==
    ASSUME StoreInv, NEW s \in PiStatusReport, StartRun(s)
    PROVE  /\ RunType' /\ CacheType'
           /\ seen' = {} /\ results' = << >> /\ expired' = 0
<1>1. seen' = {} /\ results' = << >> /\ expired' = 0
  BY DEF StartRun, Forget
<1>2. switchovers' \in 0..MaxSwitchEvents
  <2>1. 0 \in 0..MaxSwitchEvents
    BY BoundsAssumption
  <2> QED BY <2>1, CountSwitchBounded DEF StartRun
<1>3. overflows' \in Nat
  BY DEF StartRun, CountOverflow
<1> QED BY <1>1, <1>2, <1>3, ReportTypes, ZeroType DEF StartRun, RunType, CacheType

LEMMA ContinueRunInvariant ==
    ASSUME StoreInv, NEW s \in PiStatusReport, ContinueRun(s)
    PROVE  RunType' /\ UNCHANGED <<unique, duplicates, dedup>>
<1>1. switchovers' \in 0..MaxSwitchEvents
  BY CountSwitchBounded DEF ContinueRun, StoreInv, RunType
<1>2. overflows' \in Nat
  BY DEF ContinueRun, CountOverflow, StoreInv, RunType
<1>3. baseline' \in Nat
  BY ReportTypes DEF ContinueRun, StoreInv, RunType
<1> QED BY <1>1, <1>2, <1>3 DEF ContinueRun, StoreInv, RunType

LEMMA UpdateInvariant ==
    ASSUME StoreInv, NEW s \in PiStatusReport, NEW counts \in [Links -> Nat],
           UpdatePiStatus(s, counts)
    PROVE  StoreInv'
<1>1. /\ known' = TRUE /\ status' = s /\ sent' = counts
      /\ UNCHANGED <<received, buckets, database, uncharged>>
      /\ StartRun(s) \/ ContinueRun(s)
  BY DEF UpdatePiStatus
<1>2. KnownType'
  BY <1>1, Zenon DEF KnownType
<1>3. BucketsPartitionTraffic' /\ IsFiniteSet(Charged')
  BY <1>1, ChargedUnchanged DEF StoreInv, BucketsPartitionTraffic
<1>4. StatusType' /\ BucketType' /\ DatabaseType'
  BY <1>1, ReportTypes DEF StoreInv, StatusType, BucketType, DatabaseType, database
<1>5. CASE StartRun(s)
  <2>1. /\ RunType' /\ CacheType' /\ seen' = {} /\ results' = << >>
        /\ expired' = 0 /\ unique' = 0 /\ duplicates' = 0
    BY <1>5, StartRunInvariant DEF StartRun
  <2>2. DiscardedIsSaved'
    BY <2>1 DEF DiscardedIsSaved
  <2>3. RunAccount' /\ IsFiniteSet(seen')
    BY <2>1, NewAccount DEF NothingInRun
  <2> QED BY <1>2, <1>3, <1>4, <2>1, <2>2, <2>3 DEF StoreInv
<1>6. CASE ContinueRun(s)
  <2>1. /\ RunType'
        /\ UNCHANGED <<unique, duplicates, seen, results, expired, rows, unsaved>>
    BY <1>1, <1>6, ContinueRunInvariant DEF dedup, database
  <2>2. RunAccount'
    BY <2>1, AccountUnchanged DEF StoreInv
  <2> QED BY <1>2, <1>3, <1>4, <2>1, <2>2 DEF StoreInv, CacheType, DiscardedIsSaved
<1> QED BY <1>1, <1>5, <1>6

-----------------------------------------------------------------------------
LEMMA ChargeTypes ==
    ASSUME BucketType, StatusType, NEW field \in {"unique", "duplicates"}, Charge(field)
    PROVE  BucketType' /\ uncharged' \in Nat
<1>1. CASE ~known
  BY <1>1 DEF Charge, BucketType, StatusType
<1>2. CASE known
  <2> DEFINE k == <<status.mode, status.emulation>>
  <2>1. k \in Modes \X Emulations
    BY DEF StatusType, PiStatusReport
  <2>2. buckets' = [buckets EXCEPT ![k][field] = @ + 1] /\ UNCHANGED uncharged
    BY <1>2 DEF Charge
  <2> HIDE DEF k
  <2>3. buckets[k] \in [unique : Nat, duplicates : Nat]
    BY <2>1 DEF BucketType
  <2>4. [buckets[k] EXCEPT ![field] = buckets[k][field] + 1]
            \in [unique : Nat, duplicates : Nat]
    <3>1. CASE field = "unique"
      BY <2>3, <3>1
    <3>2. CASE field = "duplicates"
      BY <2>3, <3>2
    <3> QED BY <3>1, <3>2
  <2>5. buckets' = [buckets EXCEPT ![k] = [buckets[k] EXCEPT ![field] = buckets[k][field] + 1]]
    BY <2>1, <2>2 DEF BucketType
  <2> QED BY <2>1, <2>2, <2>4, <2>5 DEF BucketType, StatusType
<1> QED BY <1>1, <1>2

(* A charge adds one thing to what the buckets hold.                         *)
LEMMA ChargeAddsOne ==
    ASSUME BucketType, StatusType, known, IsFiniteSet(Charged),
           NEW field \in {"unique", "duplicates"}, Charge(field)
    PROVE  IsFiniteSet(Charged') /\ Cardinality(Charged') = Cardinality(Charged) + 1
<1>1. PICK k \in Modes \X Emulations : k = <<status.mode, status.emulation>>
  BY DEF StatusType, PiStatusReport
<1>2. PICK n \in Nat : n = InBucket(k) + 1
  BY DEF BucketType, InBucket
<1>3. buckets' = [buckets EXCEPT ![k][field] = @ + 1]
  BY <1>1 DEF Charge
<1>4. /\ DOMAIN buckets = Modes \X Emulations /\ DOMAIN buckets' = DOMAIN buckets
      /\ \A j \in DOMAIN buckets : buckets[j] \in [unique : Nat, duplicates : Nat]
  BY <1>3 DEF BucketType
<1>5. \A j \in DOMAIN buckets : j # k => InBucket(j)' = InBucket(j)
  BY <1>3, <1>4 DEF InBucket
<1>6. InBucket(k)' = n
  <2>1. CASE field = "unique"
    BY <1>2, <1>3, <1>4, <2>1 DEF InBucket
  <2>2. CASE field = "duplicates"
    BY <1>2, <1>3, <1>4, <2>2 DEF InBucket
  <2> QED BY <2>1, <2>2
<1>7. InBucket(k) \in Nat
  BY <1>4 DEF InBucket
<1>8. 1..n = (1..InBucket(k)) \cup {n} /\ n \notin 1..InBucket(k)
  BY <1>2, <1>7
<1>9. Charged' = Charged \cup {<<k, n>>}
  BY <1>4, <1>5, <1>6, <1>8 DEF Charged
<1>10. <<k, n>> \notin Charged
  BY <1>8 DEF Charged
<1> QED BY <1>9, <1>10, FS_AddElement

LEMMA TrafficCounted ==
    ASSUME StoreInv, Received, NEW field \in {"unique", "duplicates"}, Charge(field)
    PROVE  BucketsPartitionTraffic' /\ IsFiniteSet(Charged')
<1>1. /\ BucketsPartitionTraffic /\ IsFiniteSet(Charged) /\ BucketType /\ StatusType
      /\ received' = received + 1 /\ received \in Nat /\ uncharged \in Nat
      /\ Cardinality(Charged) \in Nat
  BY FS_CardinalityType DEF StoreInv, Received, StatusType
<1>2. CASE known
  <2>1. UNCHANGED uncharged
    BY <1>2 DEF Charge
  <2> QED BY <1>1, <1>2, <2>1, ChargeAddsOne DEF BucketsPartitionTraffic
<1>3. CASE ~known
  <2>1. uncharged' = uncharged + 1 /\ UNCHANGED buckets
    BY <1>3 DEF Charge
  <2> QED BY <1>1, <2>1, ChargedUnchanged DEF BucketsPartitionTraffic
<1> QED BY <1>2, <1>3

LEMMA KeyType ==
    ASSUME NEW b \in Bundles
    PROVE  /\ Key(b) \in Keys /\ Key(b)[2] = b.id /\ b.id \in Packets
           /\ b.link \in Links \cup {None}
BY DEF Key, Keys, Bundles

LEMMA ReceivedTypes ==
    ASSUME StoreInv, Received
    PROVE  /\ received' \in Nat
           /\ UNCHANGED <<known, status, sent, expMode, expSession, baseline,
                          switchovers, overflows>>
BY DEF Received, StoreInv, StatusType

LEMMA EntriesOf ==
    ASSUME NEW S, NEW q \in Seq(S)
    PROVE  Len(q) \in Nat /\ \A i \in 1..Len(q) : q[i] \in S
OBVIOUS

LEMMA MarkedFinite ==
    /\ CacheType => IsFiniteSet(Marked)
    /\ CacheType' => IsFiniteSet(Marked')
<1>1. ASSUME NEW q, Len(q) \in Nat
      PROVE  IsFiniteSet({i \in 1..Len(q) : q[i].dup})
  <2>1. IsFiniteSet(1..Len(q))
    BY <1>1, FS_Interval
  <2> QED BY <2>1, FS_Subset
<1>2. /\ CacheType => Len(results) \in Nat
      /\ CacheType' => Len(results') \in Nat
  BY DEF CacheType
<1> QED BY <1>1, <1>2 DEF Marked

(* Marking touches one result at most, the newest with the key, and changes  *)
(* no key.                                                                   *)
LEMMA MarkedOnce ==
    ASSUME CacheType, NEW k \in Keys, MarkDuplicate(k)
    PROVE  /\ results' \in Seq([key : Keys, dup : BOOLEAN])
           /\ Len(results') = Len(results)
           /\ \A i \in 1..Len(results) : results'[i].key = results[i].key
           /\ \E i : Marked' \subseteq Marked \cup {i}
<1> DEFINE n == Len(results)
           newest(i) == results[i].key = k /\ \A j \in i + 1..n : results[j].key # k
<1>1. n \in Nat /\ \A i \in 1..n : results[i] \in [key : Keys, dup : BOOLEAN]
  BY EntriesOf DEF CacheType
<1>2. results' = [i \in 1..n |-> IF newest(i) THEN [results[i] EXCEPT !.dup = TRUE]
                                 ELSE results[i]]
  BY DEF MarkDuplicate
<1>3. \A i, j \in 1..n : newest(i) /\ newest(j) => i = j
  <2> SUFFICES ASSUME NEW i \in 1..n, NEW j \in 1..n, newest(i), newest(j), i < j
               PROVE  FALSE
    BY <1>1
  <2> QED BY <1>1
<1> HIDE DEF newest
<1>4. \A i \in 1..n : /\ results'[i] \in [key : Keys, dup : BOOLEAN]
                      /\ results'[i].key = results[i].key
                      /\ ~newest(i) => results'[i] = results[i]
  BY <1>1, <1>2
<1>5. results' \in Seq([key : Keys, dup : BOOLEAN]) /\ Len(results') = n
  BY <1>1, <1>2, <1>4
<1>6. Marked' \subseteq Marked \cup {CHOOSE i \in 1..n : newest(i)}
  <2> SUFFICES ASSUME NEW i \in 1..n, results'[i].dup, newest(i)
               PROVE  i = CHOOSE j \in 1..n : newest(j)
    BY <1>4, <1>5 DEF Marked
  <2> QED BY <1>3
<1> QED BY <1>4, <1>5, <1>6

LEMMA DuplicateAccount ==
    ASSUME StoreInv, NEW k \in Keys, MarkDuplicate(k), duplicates' = duplicates + 1,
           UNCHANGED <<unique, seen, expired>>
    PROVE  RunAccount'
<1>1. CacheType /\ RunAccount /\ duplicates \in Nat
  BY DEF StoreInv, RunType
<1>2. PICK m : /\ Len(results') = Len(results)
               /\ \A i \in 1..Len(results) : results'[i].key = results[i].key
               /\ Marked' \subseteq Marked \cup {m}
  BY <1>1, MarkedOnce
<1>3. Shown' = Shown
  BY <1>2 DEF Shown
<1>4. /\ Cardinality(Marked) \in Nat
      /\ IsFiniteSet(Marked \cup {m})
      /\ \/ Cardinality(Marked \cup {m}) = Cardinality(Marked)
         \/ Cardinality(Marked \cup {m}) = Cardinality(Marked) + 1
  BY <1>1, MarkedFinite, FS_AddElement, FS_CardinalityType
<1>5. Cardinality(Marked') \in Nat /\ Cardinality(Marked') <= Cardinality(Marked \cup {m})
  BY <1>2, <1>4, FS_Subset, FS_CardinalityType
<1>6. Cardinality(Marked') <= duplicates'
  BY <1>1, <1>4, <1>5, FS_CardinalityType DEF RunAccount
<1> QED BY <1>1, <1>2, <1>3, <1>6 DEF RunAccount

LEMMA DuplicateInvariant ==
    ASSUME StoreInv, NEW b \in Bundles, IngestDuplicate(b)
    PROVE  StoreInv'
<1>1. /\ Received /\ duplicates' = duplicates + 1 /\ Charge("duplicates")
      /\ MarkDuplicate(Key(b))
      /\ UNCHANGED <<unique, first, seen, expired, database>>
  BY DEF IngestDuplicate
<1>2. BucketType' /\ uncharged' \in Nat
  BY <1>1, ChargeTypes DEF StoreInv
<1>3. KnownType' /\ StatusType'
  BY <1>1, <1>2, ReceivedTypes DEF StoreInv, KnownType, StatusType
<1>4. RunType'
  BY <1>1, ReceivedTypes DEF StoreInv, RunType
<1>5. DatabaseType' /\ DiscardedIsSaved'
  BY <1>1 DEF StoreInv, DatabaseType, DiscardedIsSaved, database
<1>6. CacheType'
  <2>1. results' \in Seq([key : Keys, dup : BOOLEAN])
    BY <1>1, KeyType, MarkedOnce DEF StoreInv
  <2> QED BY <1>1, <2>1 DEF StoreInv, CacheType
<1>7. RunAccount' /\ IsFiniteSet(seen')
  BY <1>1, KeyType, DuplicateAccount DEF StoreInv
<1>8. BucketsPartitionTraffic' /\ IsFiniteSet(Charged')
  BY <1>1, TrafficCounted
<1> QED BY <1>2, <1>3, <1>4, <1>5, <1>6, <1>7, <1>8 DEF StoreInv

LEMMA PersistSaves ==
    ASSUME DatabaseType, NEW p \in Packets, Persist(p)
    PROVE  /\ DatabaseType'
           /\ rows'[p] > 0 \/ p \in unsaved'
           /\ \A q \in Packets : rows[q] > 0 => rows'[q] > 0
           /\ unsaved \subseteq unsaved'
BY DEF DatabaseType, Persist

(* A key joins the window; if the window was full, its oldest leaves.        *)
LEMMA RememberFacts ==
    ASSUME CacheType, NEW k \in Keys, Remember(k), MemWindow \in Nat \ {0},
           Len(results) <= MemWindow
    PROVE  /\ results' \in Seq([key : Keys, dup : BOOLEAN])
           /\ Cardinality(Marked') <= Cardinality(Marked)
           /\ \/ /\ Len(results) < MemWindow
                 /\ Len(results') = Len(results) + 1
                 /\ Shown \cup {k} \subseteq Shown'
              \/ /\ Len(results) = MemWindow
                 /\ Len(results') = MemWindow
                 /\ \E h : (Shown \ {h}) \cup {k} \subseteq Shown'
<1> DEFINE n == Len(results)
           all == Append(results, [key |-> k, dup |-> FALSE])
<1>1. /\ n \in Nat /\ results \in Seq([key : Keys, dup : BOOLEAN])
      /\ all \in Seq([key : Keys, dup : BOOLEAN]) /\ Len(all) = n + 1
      /\ all[n + 1] = [key |-> k, dup |-> FALSE]
      /\ \A i \in 1..n : all[i] = results[i]
  BY DEF CacheType
<1>2. results' = IF Len(all) > MemWindow THEN Tail(all) ELSE all
  BY DEF Remember
<1>3. IsFiniteSet(Marked)
  BY MarkedFinite
<1> HIDE DEF all
<1>4. CASE n < MemWindow
  <2>1. results' = all
    BY <1>1, <1>2, <1>4
  <2>2. Marked' = Marked
    <3>1. \A i \in 1..n + 1 : i \in 1..n \/ i = n + 1
      BY <1>1
    <3>2. \A i \in 1..n : i \in 1..n + 1
      BY <1>1
    <3>3. Len(results') = n + 1 /\ ~results'[n + 1].dup
      BY <1>1, <2>1
    <3> QED BY <1>1, <2>1, <3>1, <3>2, <3>3 DEF Marked
  <2>3. Shown \cup {k} \subseteq Shown'
    <3>1. Shown \subseteq Shown'
      BY <1>1, <2>1 DEF Shown
    <3>2. n + 1 \in 1..Len(results') /\ results'[n + 1].key = k
      BY <1>1, <2>1
    <3> QED BY <3>1, <3>2 DEF Shown
  <2>4. Cardinality(Marked') <= Cardinality(Marked)
    BY <1>3, <2>2, FS_CardinalityType
  <2> QED BY <1>1, <1>4, <2>1, <2>3, <2>4
<1>5. CASE n = MemWindow
  <2>1. results' = Tail(all)
    BY <1>1, <1>2, <1>5
  <2>2. /\ results' \in Seq([key : Keys, dup : BOOLEAN]) /\ Len(results') = n
        /\ \A i \in 1..n : results'[i] = all[i + 1]
    BY <1>1, <2>1
  <2>3. /\ n \in 1..n /\ results'[n] = [key |-> k, dup |-> FALSE]
        /\ \A i \in 1..n : i = n \/ (i + 1 \in 1..n /\ results'[i] = results[i + 1])
    BY <1>1, <1>5, <2>2
  <2>4. Cardinality(Marked') <= Cardinality(Marked)
    <3> DEFINE f == [i \in Marked' |-> i + 1]
    <3>1. \A i \in Marked' : i \in 1..n /\ i + 1 \in Marked
      BY <2>2, <2>3 DEF Marked
    <3>2. f \in [Marked' -> Marked] /\ \A i, j \in Marked' : f[i] = f[j] => i = j
      BY <1>1, <3>1
    <3>3. f \in Injection(Marked', Marked)
      BY <3>2 DEF Injection, IsInjective
    <3> QED BY <1>3, <3>3, FS_Injection
  <2>5. (Shown \ {results[1].key}) \cup {k} \subseteq Shown'
    <3>1. k \in Shown'
      BY <2>2, <2>3 DEF Shown
    <3>2. ASSUME NEW i \in 1..n, results[i].key # results[1].key
          PROVE  results[i].key \in Shown'
      <4>1. i - 1 \in 1..n /\ i - 1 # n /\ (i - 1) + 1 = i
        BY <1>1, <3>2
      <4>2. results'[i - 1] = results[i]
        BY <2>3, <4>1
      <4> QED BY <2>2, <4>1, <4>2 DEF Shown
    <3> QED BY <3>1, <3>2 DEF Shown
  <2> QED BY <1>5, <2>2, <2>4, <2>5
<1>6. n < MemWindow \/ n = MemWindow
  BY <1>1
<1> QED BY <1>4, <1>5, <1>6

(* The key is new to the cache, though it may be in the window, when it has  *)
(* expired.                                                                  *)
LEMMA UniqueAccount ==
    ASSUME StoreInv, NEW k \in Keys \ seen, Remember(k), unique' = unique + 1,
           seen' = seen \cup {k}, UNCHANGED <<duplicates, expired>>
    PROVE  CacheType' /\ RunAccount' /\ IsFiniteSet(seen')
<1>1. /\ CacheType /\ RunAccount /\ IsFiniteSet(seen)
      /\ unique \in Nat /\ duplicates \in Nat /\ expired \in Nat
      /\ MemWindow \in Nat \ {0}
  BY BoundsAssumption DEF StoreInv, RunType, CacheType
<1>2. Len(results) = IF unique < MemWindow THEN unique ELSE MemWindow
  BY <1>1 DEF RunAccount
<1>3. /\ results' \in Seq([key : Keys, dup : BOOLEAN])
      /\ Cardinality(Marked') <= Cardinality(Marked)
      /\ \/ /\ Len(results) < MemWindow
            /\ Len(results') = Len(results) + 1
            /\ Shown \cup {k} \subseteq Shown'
         \/ /\ Len(results) = MemWindow
            /\ Len(results') = MemWindow
            /\ \E h : (Shown \ {h}) \cup {k} \subseteq Shown'
  <2>1. Len(results) <= MemWindow
    BY <1>1, <1>2
  <2> QED BY <1>1, <2>1, RememberFacts
<1>4. IsFiniteSet(seen') /\ Cardinality(seen') = Cardinality(seen) + 1
  BY <1>1, FS_AddElement
<1>5. IsFiniteSet(seen \ Shown) /\ Cardinality(seen \ Shown) \in Nat /\ Cardinality(seen) \in Nat
  BY <1>1, FS_Difference, FS_CardinalityType
<1>6. unique' = Cardinality(seen') + expired'
  BY <1>1, <1>4, <1>5 DEF RunAccount
<1>7. Cardinality(Marked') <= duplicates'
  <2>1. CacheType'
    BY <1>1, <1>3, KeyType DEF CacheType
  <2>2. Cardinality(Marked) \in Nat /\ Cardinality(Marked') \in Nat
    BY <1>1, <2>1, MarkedFinite, FS_CardinalityType
  <2> QED BY <1>1, <1>3, <2>2 DEF RunAccount
<1>8. /\ Len(results') = IF unique' < MemWindow THEN unique' ELSE MemWindow
      /\ Cardinality(seen' \ Shown') <= unique' - Len(results')
  <2>1. CASE /\ Len(results) < MemWindow
             /\ Len(results') = Len(results) + 1
             /\ Shown \cup {k} \subseteq Shown'
    <3>1. seen' \ Shown' \subseteq seen \ Shown
      BY <2>1
    <3>2. Cardinality(seen' \ Shown') \in Nat
          /\ Cardinality(seen' \ Shown') <= Cardinality(seen \ Shown)
      BY <1>5, <3>1, FS_Subset, FS_CardinalityType
    <3> QED BY <1>1, <1>2, <1>5, <2>1, <3>2 DEF RunAccount
  <2>2. ASSUME /\ Len(results) = MemWindow
               /\ Len(results') = MemWindow,
               NEW h, (Shown \ {h}) \cup {k} \subseteq Shown'
        PROVE  /\ Len(results') = IF unique' < MemWindow THEN unique' ELSE MemWindow
               /\ Cardinality(seen' \ Shown') <= unique' - Len(results')
    <3>1. seen' \ Shown' \subseteq (seen \ Shown) \cup {h}
      BY <2>2
    <3>2. /\ IsFiniteSet((seen \ Shown) \cup {h})
          /\ \/ Cardinality((seen \ Shown) \cup {h}) = Cardinality(seen \ Shown)
             \/ Cardinality((seen \ Shown) \cup {h}) = Cardinality(seen \ Shown) + 1
      BY <1>5, FS_AddElement
    <3>3. Cardinality(seen' \ Shown') \in Nat
          /\ Cardinality(seen' \ Shown') <= Cardinality((seen \ Shown) \cup {h})
      BY <3>1, <3>2, FS_Subset, FS_CardinalityType
    <3>4. Cardinality(seen' \ Shown') <= Cardinality(seen \ Shown) + 1
      BY <1>5, <3>2, <3>3
    <3> QED BY <1>1, <1>2, <1>5, <2>2, <3>3, <3>4 DEF RunAccount
  <2> QED BY <1>3, <2>1, <2>2
<1> QED BY <1>1, <1>3, <1>4, <1>6, <1>7, <1>8 DEF RunAccount, CacheType

LEMMA UniqueInvariant ==
    ASSUME StoreInv, NEW b \in Bundles, IngestUnique(b)
    PROVE  StoreInv'
<1>1. /\ Received /\ unique' = unique + 1 /\ Charge("unique") /\ Persist(b.id)
      /\ first' = IF b.mode = "redundant" /\ b.link \in Links
                  THEN [first EXCEPT ![b.link] = @ + 1] ELSE first
      /\ Key(b) \notin seen /\ seen' = seen \cup {Key(b)} /\ Remember(Key(b))
      /\ UNCHANGED <<duplicates, expired>>
  BY DEF IngestUnique
<1>2. BucketType' /\ uncharged' \in Nat
  BY <1>1, ChargeTypes DEF StoreInv
<1>3. KnownType' /\ StatusType'
  BY <1>1, <1>2, ReceivedTypes DEF StoreInv, KnownType, StatusType
<1>4. RunType'
  <2>1. first' \in [Links -> Nat]
    BY <1>1 DEF StoreInv, RunType
  <2> QED BY <1>1, <2>1, ReceivedTypes DEF StoreInv, RunType
<1>5. CacheType' /\ RunAccount' /\ IsFiniteSet(seen')
  BY <1>1, KeyType, UniqueAccount
<1>6. DatabaseType' /\ DiscardedIsSaved'
  <2>1. /\ DatabaseType' /\ (rows'[b.id] > 0 \/ b.id \in unsaved')
        /\ \A q \in Packets : rows[q] > 0 => rows'[q] > 0
        /\ unsaved \subseteq unsaved'
    BY <1>1, PersistSaves, KeyType DEF StoreInv
  <2>2. ASSUME NEW k \in seen' PROVE rows'[k[2]] > 0 \/ k[2] \in unsaved'
    <3>1. CASE k = Key(b)
      BY <2>1, <3>1, KeyType
    <3>2. CASE k \in seen
      <4>1. k[2] \in Packets
        BY <3>2 DEF StoreInv, CacheType, Keys
      <4> QED BY <2>1, <3>2, <4>1 DEF StoreInv, DiscardedIsSaved
    <3> QED BY <1>1, <3>1, <3>2
  <2> QED BY <2>1, <2>2 DEF DiscardedIsSaved
<1>7. BucketsPartitionTraffic' /\ IsFiniteSet(Charged')
  BY <1>1, TrafficCounted
<1> QED BY <1>2, <1>3, <1>4, <1>5, <1>6, <1>7 DEF StoreInv

LEMMA RestartInvariant ==
    ASSUME StoreInv, StoreRestart
    PROVE  StoreInv'
<1>1. KnownType'
  BY Zenon DEF StoreRestart, KnownType
<1>2. StatusType'
  BY ZeroType DEF StoreRestart, StoreInv, StatusType
<1>3. RunType'
  BY ZeroType, FreshType, BoundsAssumption DEF StoreRestart, RunType
<1>4. CacheType' /\ DatabaseType' /\ DiscardedIsSaved'
  BY DEF StoreRestart, StoreInv, CacheType, DatabaseType, DiscardedIsSaved, database
<1>5. BucketType'
  BY FreshType DEF StoreRestart, BucketType
<1>6. RunAccount' /\ IsFiniteSet(seen')
  BY NewAccount DEF StoreRestart, NothingInRun
<1>7. BucketsPartitionTraffic' /\ IsFiniteSet(Charged')
  BY NothingCharged, NothingCounted DEF StoreRestart, BucketsPartitionTraffic
<1> QED BY <1>1, <1>2, <1>3, <1>4, <1>5, <1>6, <1>7 DEF StoreInv

(* A key leaves the cache for age; the run has still counted it.             *)
LEMMA ExpireInvariant ==
    ASSUME StoreInv, Expire
    PROVE  StoreInv'
<1>1. PICK k \in seen : seen' = seen \ {k}
  BY DEF Expire
<1>2. /\ expired' = expired + 1
      /\ UNCHANGED <<known, status, sent, received, run, results, buckets,
                     database, uncharged>>
  BY DEF Expire
<1>3. RunAccount' /\ IsFiniteSet(seen')
  <2>1. /\ RunAccount /\ IsFiniteSet(seen) /\ expired \in Nat
        /\ Cardinality(seen) \in Nat /\ UNCHANGED <<unique, duplicates>>
    BY <1>2, FS_CardinalityType DEF StoreInv, CacheType, run
  <2>2. IsFiniteSet(seen') /\ Cardinality(seen') = Cardinality(seen) - 1
    BY <1>1, <2>1, FS_RemoveElement
  <2>3. Shown' = Shown /\ Marked' = Marked /\ Len(results') = Len(results)
    BY <1>2 DEF Shown, Marked
  <2>4. seen' \ Shown' \subseteq seen \ Shown
    BY <1>1, <2>3
  <2>5. IsFiniteSet(seen \ Shown)
    BY <2>1, FS_Difference
  <2>6. /\ Cardinality(seen' \ Shown') <= Cardinality(seen \ Shown)
        /\ Cardinality(seen' \ Shown') \in Nat /\ Cardinality(seen \ Shown) \in Nat
    BY <2>4, <2>5, FS_Subset, FS_CardinalityType
  <2>7. Len(results) \in Nat /\ unique \in Nat
    BY DEF StoreInv, CacheType, RunType
  <2> QED BY <1>2, <2>1, <2>2, <2>3, <2>6, <2>7 DEF RunAccount
<1> QED BY <1>1, <1>2, <1>3, ChargedUnchanged DEF run, database, StoreInv, KnownType,
             StatusType, RunType, CacheType, BucketType, DatabaseType,
             DiscardedIsSaved, BucketsPartitionTraffic

LEMMA StoreStepInvariant ==
    ASSUME StoreInv, [StoreStep]_storeVars
    PROVE  StoreInv'
<1> USE DEF run, dedup, database
<1>1. ASSUME NEW s \in PiStatusReport, NEW counts \in [Links -> Nat],
             UpdatePiStatus(s, counts)
      PROVE  StoreInv'
  BY <1>1, UpdateInvariant
<1>2. ASSUME NEW counts \in [Links -> Nat], IngestSendCounter(counts) PROVE StoreInv'
  <2>1. sent' \in [Links -> Nat]
    BY <1>2 DEF IngestSendCounter, StoreInv, StatusType
  <2>2. BucketsPartitionTraffic' /\ IsFiniteSet(Charged')
    BY <1>2, ChargedUnchanged DEF IngestSendCounter, StoreInv, BucketsPartitionTraffic
  <2>3. RunAccount'
    BY <1>2, AccountUnchanged DEF IngestSendCounter, StoreInv
  <2> QED BY <1>2, <2>1, <2>2, <2>3 DEF IngestSendCounter, StoreInv, KnownType, StatusType,
                            RunType, CacheType, BucketType, DatabaseType, DiscardedIsSaved
<1>3. ASSUME NEW b \in Bundles, IngestTelemetry(b) PROVE StoreInv'
  BY <1>3, DuplicateInvariant, UniqueInvariant DEF IngestTelemetry
<1>4. CASE IngestGPSStatus
  <2>1. BucketsPartitionTraffic' /\ IsFiniteSet(Charged')
    <3>1. /\ received' = received + 1 /\ uncharged' = uncharged + 1
          /\ received \in Nat /\ uncharged \in Nat /\ UNCHANGED buckets
      BY <1>4 DEF IngestGPSStatus, Received, StoreInv, StatusType
    <3>2. IsFiniteSet(Charged) /\ Cardinality(Charged) \in Nat
      BY FS_CardinalityType DEF StoreInv
    <3> QED BY <3>1, <3>2, ChargedUnchanged DEF StoreInv, BucketsPartitionTraffic
  <2>2. RunAccount'
    BY <1>4, AccountUnchanged DEF IngestGPSStatus, StoreInv
  <2> QED BY <1>4, <2>1, <2>2, ReceivedTypes DEF IngestGPSStatus, StoreInv, KnownType,
                            StatusType, RunType, CacheType, BucketType, DatabaseType,
                            DiscardedIsSaved
<1>5. CASE StoreRestart
  BY <1>5, RestartInvariant
<1>6. CASE Expire
  BY <1>6, ExpireInvariant
<1>7. CASE UNCHANGED storeVars
  BY <1>7, ChargedUnchanged, AccountUnchanged DEF storeVars, StoreInv, KnownType,
              StatusType, RunType, CacheType, BucketType, DatabaseType,
              DiscardedIsSaved, BucketsPartitionTraffic
<1> QED BY <1>1, <1>2, <1>3, <1>4, <1>5, <1>6, <1>7 DEF StoreStep

LEMMA StoreInvariance == StoreSpec => []StoreInv
<1>1. StoreNext => StoreStep
  BY ReportsAssumption DEF StoreNext, StoreStep
<1>2. StoreInv /\ [StoreNext]_storeVars => StoreInv'
  BY <1>1, StoreStepInvariant
<1> QED BY <1>2, StoreInvariantInit, PTL DEF StoreSpec

(* Counters, cache, buckets and database keep their types, and the list of  *)
(* switch-overs its cap, for any reports and bundles in any order.          *)
THEOREM TypeCorrect == StoreSpec => []StoreTypeOK
<1>1. StoreInv => StoreTypeOK
  BY TypeParts DEF StoreInv
<1> QED BY <1>1, StoreInvariance, PTL

(* What the cache would discard as a duplicate has its original in the      *)
(* database, unless SQLite refused it: over new runs, expiry and restarts.  *)
THEOREM DiscardedAlwaysSaved == StoreSpec => []DiscardedIsSaved
<1>1. StoreInv => DiscardedIsSaved
  BY DEF StoreInv
<1> QED BY <1>1, StoreInvariance, PTL

(* Whatever a run counts as unique is in the cache or expired from it, the   *)
(* recent results are the latest of that up to the window, and only what the *)
(* window dropped is recognised without a result to mark, however reports,   *)
(* bundles, expiry and restarts touch parts of these.                        *)
THEOREM RunAlwaysAccounted == StoreSpec => []RunAccount
<1>1. StoreInv => RunAccount
  BY DEF StoreInv
<1> QED BY <1>1, StoreInvariance, PTL

(* Every telemetry bundle received since the backend's start and the first   *)
(* report is in exactly one bucket, as unique or as duplicate, whichever     *)
(* reports move the emulation and the mode in between.                       *)
THEOREM BucketsAlwaysPartition == StoreSpec => []BucketsPartitionTraffic
<1>1. StoreInv => BucketsPartitionTraffic
  BY DEF StoreInv
<1> QED BY <1>1, StoreInvariance, PTL
-----------------------------------------------------------------------------
(* Delivery: types *)

Messages == [status : Seq(PiStatusReport), counts : [Links -> Nat]]

LinkType  == mode \in Modes /\ session \in Sessions /\ activeLink \in Links \cup {None}
QueueType == made \in Nat /\ waiting \in SUBSET Packets
PiCounterType == piSent \in [Links -> Nat] /\ counters \in Seq([Links -> Nat])
WireType  == wire \in Seq(Messages)
NetType   == net \in SUBSET Bundles

DeliveryType == LinkType /\ QueueType /\ PiCounterType /\ WireType /\ NetType

-----------------------------------------------------------------------------
(* Delivery: the order of the management channel *)

Below(c, d) == \A l \in Links : c[l] <= d[l]
IsReport(m) == m.status # << >>
R(m) == m.status[1]

(* Sessions are numbered in order of creation; s is not later than r, and in  *)
(* one session there is one mode.                                             *)
NotLater(s, e, r, m) == s <= r /\ (s = r => e = m)

(* The counters waiting to be sent are those of this process of the agent.    *)
CountersBelow == \A i \in 1..Len(counters) : Below(counters[i], piSent)

(* The reports on the wire are in the order of their sessions, up to the      *)
(* current one, and what follows a report of the current session on the wire  *)
(* was counted in it.                                                         *)
WireInOrder ==
    \A i \in 1..Len(wire) : IsReport(wire[i]) =>
        /\ NotLater(R(wire[i]).session, R(wire[i]).mode, session, mode)
        /\ \A j \in i..Len(wire) :
              /\ IsReport(wire[j]) =>
                    NotLater(R(wire[i]).session, R(wire[i]).mode,
                             R(wire[j]).session, R(wire[j]).mode)
              /\ R(wire[i]).session = session => Below(wire[j].counts, piSent)

(* The Mac's run is no later than the Pi's and than any report on the wire.   *)
RunInOrder ==
    known =>
        /\ NotLater(expSession, expMode, session, mode)
        /\ \A j \in 1..Len(wire) : IsReport(wire[j]) =>
              NotLater(expSession, expMode, R(wire[j]).session, R(wire[j]).mode)
        /\ expSession = session =>
              /\ Below(sent, piSent)
              /\ \A j \in 1..Len(wire) : Below(wire[j].counts, piSent)

InOrder == CountersBelow /\ WireInOrder /\ RunInOrder

-----------------------------------------------------------------------------
(* Delivery: the order of what is handed to uD3TN *)

(* Packets are handed over oldest first, each under the current session; what *)
(* the cache knows was handed over.                                           *)
OffersInOrder ==
    /\ IsFiniteSet(Offered) /\ seen \subseteq Offered
    /\ waiting \subseteq 1..made
    /\ \A b \in net : /\ b.session <= session /\ b.id <= made
                       /\ \A p \in waiting : b.id <= p
    /\ \A a, b \in net : a.id < b.id => a.session <= b.session

-----------------------------------------------------------------------------
(* What the actions read and write. *)

LEMMA SessionsAreNumbers == Sessions \subseteq Nat
BY DeliveryAssumption

LEMMA MessageTypes ==
    ASSUME WireType, NEW i \in 1..Len(wire)
    PROVE  /\ wire[i] \in Messages /\ wire[i].counts \in [Links -> Nat]
           /\ IsReport(wire[i]) => /\ R(wire[i]) \in PiStatusReport
                                   /\ R(wire[i]).session \in Nat
                                   /\ R(wire[i]).mode \in Modes
<1>1. wire[i] \in Messages
  BY DEF WireType
<1>2. ASSUME IsReport(wire[i]) PROVE R(wire[i]) \in PiStatusReport
  <2>1. wire[i].status \in Seq(PiStatusReport) /\ wire[i].status # << >>
    BY <1>1, <1>2 DEF Messages, IsReport
  <2>2. 1 \in 1..Len(wire[i].status)
    BY <2>1
  <2> QED BY <2>1, <2>2 DEF R
<1> QED BY <1>1, <1>2, SessionsAreNumbers DEF Messages, PiStatusReport

LEMMA ReportType ==
    ASSUME LinkType, QueueType
    PROVE  Report \in PiStatusReport
<1>1. PICK r \in Reports : r \in PiStatusReport
  BY ReportsAssumption
<1>2. (CHOOSE e \in Emulations : TRUE) \in Emulations
  BY <1>1 DEF PiStatusReport
<1> QED BY <1>2 DEF Report, PiStatusReport, LinkType, QueueType

(* Each counter waiting to be sent was waiting before or is one of now.      *)
CountersJoined ==
    \A i \in 1..Len(counters') :
        \/ i \in 1..Len(counters) /\ counters'[i] = counters[i]
        \/ Below(counters'[i], piSent')

LEMMA PublishedFacts ==
    ASSUME NEW S, NEW q \in Seq(S), NEW c \in S
    PROVE  /\ Published(q, c) \in Seq(S)
           /\ \A i \in 1..Len(Published(q, c)) :
                 \/ i \in 1..Len(q) /\ Published(q, c)[i] = q[i]
                 \/ Published(q, c)[i] = c
BY DEF Published

LEMMA CountCopiesFacts ==
    ASSUME PiCounterType, NEW confirmed, CountCopies(confirmed)
    PROVE  PiCounterType' /\ Below(piSent, piSent') /\ CountersJoined
<1> DEFINE on == confirmed \cap Links
           Sent == [Links -> Nat]
<1>1. piSent' = Counted(on) /\ piSent \in Sent /\ counters \in Seq(Sent)
  BY DEF CountCopies, PiCounterType
<1>2. \A ls : /\ Counted(ls) \in Sent /\ Below(piSent, Counted(ls))
              /\ ls \subseteq on => Below(Counted(ls), Counted(on))
  BY <1>1 DEF Counted, Below
<1>3. CASE UNCHANGED counters
  BY <1>1, <1>2, <1>3 DEF PiCounterType, CountersJoined
<1>4. ASSUME NEW l \in on,
             counters' = IF on = {l} THEN Published(counters, piSent')
                         ELSE Published(Published(counters, Counted({l})), piSent')
      PROVE  counters' \in Seq(Sent) /\ CountersJoined
  <2> DEFINE q == Published(counters, Counted({l}))
  <2>1. piSent' \in Sent /\ Below(piSent', piSent') /\ Below(Counted({l}), piSent')
    BY <1>1, <1>2
  <2>2. /\ q \in Seq(Sent)
        /\ \A i \in 1..Len(q) : \/ i \in 1..Len(counters) /\ q[i] = counters[i]
                                \/ q[i] = Counted({l})
    BY <1>1, <1>2, PublishedFacts
  <2> HIDE DEF q, on
  <2>3. ASSUME NEW r \in Seq(Sent), counters' = Published(r, piSent'),
               \A i \in 1..Len(r) : \/ i \in 1..Len(counters) /\ r[i] = counters[i]
                                    \/ r[i] = Counted({l})
        PROVE  counters' \in Seq(Sent) /\ CountersJoined
    <3>1. Published(r, piSent') \in Seq(Sent)
      BY <2>1, PublishedFacts
    <3>2. \A i \in 1..Len(counters') : \/ i \in 1..Len(r) /\ counters'[i] = r[i]
                                       \/ counters'[i] = piSent'
      <4>1. \A i \in 1..Len(Published(r, piSent')) :
               \/ i \in 1..Len(r) /\ Published(r, piSent')[i] = r[i]
               \/ Published(r, piSent')[i] = piSent'
        BY <2>1, PublishedFacts
      <4> QED BY <2>3, <4>1, Zenon
    <3> QED BY <2>1, <2>3, <3>1, <3>2 DEF CountersJoined
  <2> QED BY <1>1, <1>4, <2>2, <2>3 DEF q
<1>5. UNCHANGED counters \/ \E l \in on :
          counters' = IF on = {l} THEN Published(counters, piSent')
                      ELSE Published(Published(counters, Counted({l})), piSent')
  BY DEF CountCopies
<1>6. PiCounterType' /\ CountersJoined
  BY <1>1, <1>2, <1>3, <1>4, <1>5 DEF PiCounterType
<1> QED BY <1>1, <1>2, <1>6

(* The oldest packet goes out, under the current session.                    *)
LEMMA SendFacts ==
    ASSUME DeliveryType, Send
    PROVE  /\ NetType' /\ PiCounterType' /\ waiting' \in SUBSET Packets
           /\ Below(piSent, piSent') /\ CountersJoined
           /\ UNCHANGED <<storeVars, linkVars, made, wire>>
           /\ waiting' \subseteq waiting
           /\ \E p \in waiting :
                 /\ \A q \in waiting : p <= q
                 /\ net \subseteq net'
                 /\ \A b \in net' \ net : b.id = p /\ b.session = session
<1>1. PICK p \in waiting, how \in Modes :
        LET copies == IF how = "redundant" THEN Links ELSE {activeLink}
        IN  \E taken \in SUBSET copies : \E confirmed \in SUBSET taken :
            /\ \A q \in waiting : p <= q
            /\ net' = net \cup {[id |-> p, session |-> session,
                                 mode |-> IF how = "redundant" THEN how ELSE mode,
                                 link |-> l] : l \in taken}
            /\ CountCopies(confirmed)
            /\ IF confirmed = {} THEN UNCHANGED waiting ELSE waiting' = waiting \ {p}
            /\ IF confirmed = copies THEN UNCHANGED faults ELSE Fault
            /\ UNCHANGED <<storeVars, linkVars, made, wire>>
  BY Zenon DEF Send
<1>2. PICK taken \in SUBSET (Links \cup {None}) : \E confirmed \in SUBSET taken :
            /\ \A q \in waiting : p <= q
            /\ net' = net \cup {[id |-> p, session |-> session,
                                 mode |-> IF how = "redundant" THEN how ELSE mode,
                                 link |-> l] : l \in taken}
            /\ CountCopies(confirmed)
            /\ IF confirmed = {} THEN UNCHANGED waiting ELSE waiting' = waiting \ {p}
            /\ UNCHANGED <<storeVars, linkVars, made, wire>>
  <2>1. Links \subseteq Links \cup {None} /\ {activeLink} \subseteq Links \cup {None}
    BY DEF DeliveryType, LinkType
  <2>2. CASE how = "redundant"
    BY <1>1, <2>1, <2>2
  <2>3. CASE how # "redundant"
    BY <1>1, <2>1, <2>3
  <2> QED BY <2>2, <2>3
<1>3. PICK confirmed \in SUBSET taken :
            /\ CountCopies(confirmed)
            /\ IF confirmed = {} THEN UNCHANGED waiting ELSE waiting' = waiting \ {p}
  BY <1>2
<1>4. PiCounterType' /\ Below(piSent, piSent') /\ CountersJoined
  BY <1>3, CountCopiesFacts DEF DeliveryType
<1>5. (IF how = "redundant" THEN how ELSE mode) \in Modes
  BY DEF DeliveryType, LinkType
<1>6. PICK tag \in Modes :
        net' = net \cup {[id |-> p, session |-> session, mode |-> tag, link |-> l] :
                         l \in taken}
  BY <1>2, <1>5
<1>7. NetType'
  <2>1. {[id |-> p, session |-> session, mode |-> tag, link |-> l] : l \in taken}
            \subseteq Bundles
    BY DEF DeliveryType, LinkType, QueueType, Bundles
  <2> QED BY <1>6, <2>1 DEF DeliveryType, NetType
<1>8. waiting' \subseteq waiting /\ waiting' \in SUBSET Packets
  BY <1>3 DEF DeliveryType, QueueType
<1>9. \A b \in net' \ net : b.id = p /\ b.session = session
  BY <1>6
<1>10. \E q \in waiting : /\ \A r \in waiting : q <= r
                          /\ net \subseteq net'
                          /\ \A b \in net' \ net : b.id = q /\ b.session = session
  BY <1>2, <1>6, <1>9
<1> QED BY <1>2, <1>4, <1>7, <1>8, <1>10

(* The Pi's mode and session are the link manager's; a new session is later  *)
(* than all others.                                                          *)
LEMMA LinkFacts ==
    ASSUME DeliveryType, LinkManagerStep \/ PiRestart
    PROVE  /\ LinkType'
           /\ \/ session' = session + 1
              \/ UNCHANGED <<mode, session>>
<1> USE DeliveryAssumption
<1>1. CASE LinkManagerStep
  <2>1. ASSUME NEW m \in Modes, Link!ChangeMode(m)
        PROVE  LinkType' /\ session' = session + 1
    BY <2>1 DEF Link!ChangeMode, DeliveryType, LinkType
  <2>2. ASSUME NEW l \in UsedLinks, Link!ChangeLink(l)
        PROVE  LinkType' /\ UNCHANGED <<mode, session>>
    BY <2>2 DEF Link!ChangeLink, DeliveryType, LinkType
  <2> QED BY <1>1, <2>1, <2>2 DEF LinkManagerStep
<1>2. CASE PiRestart
  BY <1>2 DEF PiRestart, Link!Restart, Link!None, None, DeliveryType, LinkType
<1> QED BY <1>1, <1>2

(* Lost counters: those left are in the order they were.                     *)
LEMMA BreakFacts ==
    ASSUME DeliveryType, Break
    PROVE  /\ WireType' /\ PiCounterType'
           /\ Len(wire') <= Len(wire)
           /\ \A i \in 1..Len(wire') : wire'[i] = wire[i]
           /\ UNCHANGED counters \/ (counters # << >> /\ counters' = Tail(counters))
           /\ UNCHANGED <<storeVars, linkVars, made, waiting, piSent, net>>
<1>1. PICK n \in 0..Len(wire) - 1 : wire' = SubSeq(wire, 1, n)
  BY DEF Break
<1>2. /\ Len(wire) \in Nat /\ n \in Nat /\ n <= Len(wire) /\ wire \in Seq(Messages)
  BY DEF DeliveryType, WireType
<1>3. wire' \in Seq(Messages) /\ Len(wire') = n /\ \A i \in 1..n : wire'[i] = wire[i]
  BY <1>1, <1>2
<1>4. UNCHANGED counters \/ (counters # << >> /\ counters' = Tail(counters))
  BY DEF Break
<1>5. UNCHANGED <<storeVars, linkVars, made, waiting, piSent, net>>
  BY DEF Break
<1>6. PiCounterType'
  <2>1. counters \in Seq([Links -> Nat]) /\ piSent \in [Links -> Nat] /\ UNCHANGED piSent
    BY <1>5 DEF DeliveryType, PiCounterType
  <2>2. ASSUME NEW c \in Seq([Links -> Nat]), c # << >>
        PROVE  Tail(c) \in Seq([Links -> Nat])
    BY <2>2
  <2>3. counters' \in Seq([Links -> Nat])
    BY <1>4, <2>1, <2>2
  <2> QED BY <2>1, <2>3 DEF PiCounterType
<1> QED BY <1>2, <1>3, <1>4, <1>5, <1>6 DEF WireType

(* What the Mac does with the oldest message on the wire.                    *)
LEMMA MacReceivesFacts ==
    ASSUME DeliveryType, MacReceives
    PROVE  /\ wire # << >> /\ 1 \in 1..Len(wire) /\ wire' = Tail(wire) /\ WireType'
           /\ UNCHANGED <<linkVars, agentVars, net, faults>>
           /\ \/ /\ IsReport(wire[1])
                 /\ UpdatePiStatus(R(wire[1]), wire[1].counts)
              \/ IngestSendCounter(wire[1].counts)
<1>1. wire # << >> /\ wire \in Seq(Messages) /\ wire' = Tail(wire) /\ Head(wire) = wire[1]
  BY DEF MacReceives, DeliveryType, WireType
<1>2. 1 \in 1..Len(wire) /\ Tail(wire) \in Seq(Messages)
  BY <1>1
<1> QED BY <1>1, <1>2 DEF MacReceives, Receive, IsReport, R, WireType

(* Each step of Delivery is a step of the store, or leaves it alone.         *)
LEMMA DeliveryStepIsStoreStep ==
    ASSUME DeliveryType, [Next]_deliveryVars
    PROVE  [StoreStep]_storeVars
<1>1. CASE \/ LinkManagerStep \/ Enqueue \/ PushStatus \/ PushCounter \/ PiRestart
           \/ Break \/ UNCHANGED deliveryVars
  BY <1>1 DEF LinkManagerStep, Enqueue, PushStatus, PushCounter, PiRestart, Break,
              deliveryVars
<1>2. CASE Send
  BY <1>2, SendFacts
<1>3. CASE MacReceives
  <2>1. 1 \in 1..Len(wire) /\ (\/ /\ IsReport(wire[1])
                                  /\ UpdatePiStatus(R(wire[1]), wire[1].counts)
                               \/ IngestSendCounter(wire[1].counts))
    BY <1>3, MacReceivesFacts
  <2>2. /\ wire[1].counts \in [Links -> Nat]
        /\ IsReport(wire[1]) => R(wire[1]) \in PiStatusReport
    BY <2>1, MessageTypes DEF DeliveryType
  <2> QED BY <2>1, <2>2 DEF StoreStep
<1>4. CASE BridgeReceives
  BY <1>4 DEF BridgeReceives, StoreStep, DeliveryType, NetType
<1>5. CASE CacheExpires
  BY <1>5 DEF CacheExpires, StoreStep
<1>6. CASE MacRestart
  BY <1>6 DEF MacRestart, StoreStep
<1> QED BY <1>1, <1>2, <1>3, <1>4, <1>5, <1>6 DEF Next

LEMMA DeliveryTypeInit == Init => DeliveryType
<1> SUFFICES ASSUME Init PROVE DeliveryType
  OBVIOUS
<1>1. LinkType
  BY DeliveryAssumption DEF Init, Link!Init, Link!None, None, LinkType
<1>2. QueueType /\ PiCounterType /\ WireType /\ NetType
  BY ZeroType DEF Init, QueueType, PiCounterType, WireType, NetType
<1> QED BY <1>1, <1>2 DEF DeliveryType

LEMMA DeliveryTypeStep ==
    ASSUME DeliveryType, [Next]_deliveryVars
    PROVE  DeliveryType'
<1> USE DEF DeliveryType, linkVars, agentVars
<1>1. CASE LinkManagerStep
  BY <1>1, LinkFacts DEF LinkManagerStep, QueueType, PiCounterType, WireType, NetType
<1>2. CASE Enqueue
  BY <1>2 DEF Enqueue, LinkType, QueueType, PiCounterType, WireType, NetType
<1>3. CASE Send
  BY <1>3, SendFacts DEF LinkType, QueueType, WireType
<1>4. CASE PushStatus
  <2>1. [status |-> <<Report>>, counts |-> piSent] \in Messages
    BY ReportType DEF Messages, PiCounterType
  <2>2. WireType'
    BY <1>4, <2>1 DEF PushStatus, WireType
  <2> QED BY <1>4, <2>2 DEF PushStatus, LinkType, QueueType, PiCounterType, NetType
<1>5. CASE PushCounter
  <2>1. /\ Head(counters) \in [Links -> Nat] /\ counters' \in Seq([Links -> Nat])
    BY <1>5 DEF PushCounter, PiCounterType
  <2>2. [status |-> << >>, counts |-> Head(counters)] \in Messages
    BY <2>1 DEF Messages
  <2>3. WireType'
    BY <1>5, <2>2 DEF PushCounter, WireType
  <2> QED BY <1>5, <2>1, <2>3 DEF PushCounter, LinkType, QueueType, PiCounterType, NetType
<1>6. CASE PiRestart
  BY <1>6, LinkFacts, ZeroType DEF PiRestart, QueueType, PiCounterType, WireType, NetType
<1>7. CASE Break
  BY <1>7, BreakFacts DEF LinkType, QueueType, NetType
<1>8. CASE MacReceives
  BY <1>8, MacReceivesFacts DEF LinkType, QueueType, PiCounterType, NetType
<1>9. CASE BridgeReceives
  BY <1>9 DEF BridgeReceives, LinkType, QueueType, PiCounterType, WireType, NetType
<1>10. CASE MacRestart
  BY <1>10 DEF MacRestart, LinkType, QueueType, PiCounterType, WireType, NetType
<1>11. CASE UNCHANGED deliveryVars
  BY <1>11 DEF deliveryVars, LinkType, QueueType, PiCounterType, WireType, NetType
<1>12. CASE CacheExpires
  BY <1>12 DEF CacheExpires, LinkType, QueueType, PiCounterType, WireType, NetType
<1> QED BY <1>1, <1>2, <1>3, <1>4, <1>5, <1>6, <1>7, <1>8, <1>9, <1>10, <1>11, <1>12
        DEF Next

-----------------------------------------------------------------------------
(* How the order of the channel survives each kind of step. *)

(* Time passes on the Pi: only the current session may become a later one,   *)
(* and the counters of the current process may grow.                         *)
LEMMA BelowGrowing ==
    ASSUME NEW c \in [Links -> Nat], DeliveryType, DeliveryType',
           Below(c, piSent), Below(piSent, piSent')
    PROVE  Below(c, piSent')
BY DEF Below, DeliveryType, PiCounterType

LEMMA OrderedAsPiCounts ==
    ASSUME StoreInv, DeliveryType, DeliveryType', InOrder,
           UNCHANGED <<known, expMode, expSession, sent, wire>>,
           \/ session' = session + 1
           \/ UNCHANGED <<mode, session>> /\ Below(piSent, piSent')
    PROVE  WireInOrder' /\ RunInOrder'
<1>1. session \in Nat /\ expSession \in Nat /\ sent \in [Links -> Nat]
  BY SessionsAreNumbers DEF DeliveryType, LinkType, StoreInv, RunType, StatusType
<1>2. \A i \in 1..Len(wire) :
        /\ wire[i].counts \in [Links -> Nat]
        /\ IsReport(wire[i]) => R(wire[i]).session \in Nat
  BY MessageTypes DEF DeliveryType
<1>3. \A s \in Nat : \A e : NotLater(s, e, session, mode) =>
        /\ NotLater(s, e, session', mode')
        /\ s = session' => s = session /\ UNCHANGED session /\ Below(piSent, piSent')
  BY <1>1 DEF NotLater
<1>4. WireInOrder'
  <2> SUFFICES ASSUME NEW i \in 1..Len(wire), IsReport(wire[i])
               PROVE  /\ NotLater(R(wire[i]).session, R(wire[i]).mode, session', mode')
                      /\ \A j \in i..Len(wire) :
                         R(wire[i]).session = session' => Below(wire[j].counts, piSent')
    BY DEF InOrder, WireInOrder
  <2>1. NotLater(R(wire[i]).session, R(wire[i]).mode, session, mode)
    BY DEF InOrder, WireInOrder
  <2>2. ASSUME NEW j \in i..Len(wire), R(wire[i]).session = session'
        PROVE  Below(wire[j].counts, piSent')
    <3>1. R(wire[i]).session = session /\ Below(piSent, piSent')
      BY <1>2, <1>3, <2>1, <2>2
    <3>2. j \in 1..Len(wire) /\ Below(wire[j].counts, piSent)
      BY <3>1 DEF InOrder, WireInOrder
    <3> QED BY <1>2, <3>1, <3>2, BelowGrowing
  <2> QED BY <1>2, <1>3, <2>1, <2>2
<1>5. RunInOrder'
  <2> SUFFICES ASSUME known
               PROVE  /\ NotLater(expSession, expMode, session', mode')
                      /\ expSession = session' =>
                           /\ Below(sent, piSent')
                           /\ \A j \in 1..Len(wire) : Below(wire[j].counts, piSent')
    BY DEF InOrder, RunInOrder
  <2>1. NotLater(expSession, expMode, session, mode)
    BY DEF InOrder, RunInOrder
  <2>2. ASSUME expSession = session'
        PROVE  /\ Below(sent, piSent')
               /\ \A j \in 1..Len(wire) : Below(wire[j].counts, piSent')
    <3>1. expSession = session /\ Below(piSent, piSent')
      BY <1>1, <1>3, <2>1, <2>2
    <3>2. Below(sent, piSent) /\ \A j \in 1..Len(wire) : Below(wire[j].counts, piSent)
      BY <3>1 DEF InOrder, RunInOrder
    <3> QED BY <1>1, <1>2, <3>1, <3>2, BelowGrowing
  <2> QED BY <1>1, <1>3, <2>1, <2>2
<1> QED BY <1>4, <1>5

LEMMA CountersBelowAsPiCounts ==
    ASSUME DeliveryType, DeliveryType', CountersBelow, Below(piSent, piSent'),
           CountersJoined
    PROVE  CountersBelow'
<1>1. counters \in Seq([Links -> Nat]) /\ piSent' \in [Links -> Nat]
  BY DEF DeliveryType, PiCounterType
<1>2. \A i \in 1..Len(counters) : Below(counters[i], piSent')
  BY <1>1, BelowGrowing DEF CountersBelow
<1> QED BY <1>2 DEF CountersJoined, CountersBelow

LEMMA CountersBelowTail ==
    ASSUME DeliveryType, CountersBelow, UNCHANGED piSent,
           counters # << >>, counters' = Tail(counters)
    PROVE  CountersBelow'
<1>1. counters \in Seq([Links -> Nat])
  BY DEF DeliveryType, PiCounterType
<1>2. \A i \in 1..Len(counters') : i + 1 \in 1..Len(counters) /\ counters'[i] = counters[i + 1]
  BY <1>1
<1> QED BY <1>2 DEF CountersBelow

(* A message joins the wire, counted in this process, and if it carries a    *)
(* report, one of the current session.                                       *)
LEMMA OrderedAsPiSpeaks ==
    ASSUME DeliveryType, DeliveryType', WireInOrder, RunInOrder, NEW m \in Messages,
           wire' = Append(wire, m), Below(m.counts, piSent),
           IsReport(m) => R(m).session = session /\ R(m).mode = mode,
           UNCHANGED <<known, expMode, expSession, sent, mode, session, piSent>>
    PROVE  WireInOrder' /\ RunInOrder'
<1>1. wire \in Seq(Messages) /\ Len(wire) \in Nat /\ session \in Nat
  BY SessionsAreNumbers DEF DeliveryType, WireType, LinkType
<1>2. /\ Len(wire') = Len(wire) + 1
      /\ wire'[Len(wire) + 1] = m
      /\ \A i \in 1..Len(wire) : wire'[i] = wire[i]
  BY <1>1
<1>3. IsReport(m) => NotLater(R(m).session, R(m).mode, session, mode)
  BY <1>1 DEF NotLater
<1>4. WireInOrder'
  <2> SUFFICES ASSUME NEW i \in 1..Len(wire'), IsReport(wire'[i])
               PROVE  /\ NotLater(R(wire'[i]).session, R(wire'[i]).mode, session, mode)
                      /\ \A j \in i..Len(wire') :
                         /\ IsReport(wire'[j]) =>
                              NotLater(R(wire'[i]).session, R(wire'[i]).mode,
                                       R(wire'[j]).session, R(wire'[j]).mode)
                         /\ R(wire'[i]).session = session => Below(wire'[j].counts, piSent)
    BY DEF WireInOrder
  <2>1. CASE i \in 1..Len(wire)
    <3>1. wire'[i] = wire[i]
      BY <1>2, <2>1
    <3>2. NotLater(R(wire[i]).session, R(wire[i]).mode, session, mode)
      BY <2>1, <3>1 DEF WireInOrder
    <3>3. ASSUME NEW j \in i..Len(wire')
          PROVE  /\ IsReport(wire'[j]) =>
                      NotLater(R(wire[i]).session, R(wire[i]).mode,
                               R(wire'[j]).session, R(wire'[j]).mode)
                 /\ R(wire[i]).session = session => Below(wire'[j].counts, piSent)
      <4>1. CASE j \in i..Len(wire)
        <5>1. j \in 1..Len(wire) /\ wire'[j] = wire[j]
          BY <1>1, <1>2, <2>1, <4>1
        <5> QED BY <2>1, <3>1, <4>1, <5>1 DEF WireInOrder
      <4>2. CASE j = Len(wire) + 1
        BY <1>2, <3>2, <4>2
      <4> QED BY <1>1, <1>2, <2>1, <4>1, <4>2
    <3> QED BY <3>1, <3>2, <3>3
  <2>2. CASE i = Len(wire) + 1
    <3>1. \A j \in i..Len(wire') : j = i
      BY <1>1, <1>2, <2>2
    <3> QED BY <1>2, <1>3, <2>2, <3>1
  <2> QED BY <1>1, <1>2, <2>1, <2>2
<1>5. RunInOrder'
  <2> SUFFICES ASSUME known
               PROVE  /\ NotLater(expSession, expMode, session, mode)
                      /\ \A j \in 1..Len(wire') : IsReport(wire'[j]) =>
                           NotLater(expSession, expMode, R(wire'[j]).session, R(wire'[j]).mode)
                      /\ expSession = session =>
                           /\ Below(sent, piSent)
                           /\ \A j \in 1..Len(wire') : Below(wire'[j].counts, piSent)
    BY DEF RunInOrder
  <2>1. NotLater(expSession, expMode, session, mode)
    BY DEF RunInOrder
  <2>2. \A j \in 1..Len(wire') :
          (j \in 1..Len(wire) /\ wire'[j] = wire[j]) \/ wire'[j] = m
    BY <1>1, <1>2
  <2> QED BY <2>1, <2>2 DEF RunInOrder
<1> QED BY <1>4, <1>5

(* The wire loses messages at its end, when it breaks.                       *)
LEMMA OrderedAsWireBreaks ==
    ASSUME DeliveryType, DeliveryType', WireInOrder, RunInOrder,
           Len(wire') <= Len(wire), \A i \in 1..Len(wire') : wire'[i] = wire[i],
           UNCHANGED <<known, expMode, expSession, sent, mode, session, piSent>>
    PROVE  WireInOrder' /\ RunInOrder'
<1>1. Len(wire) \in Nat /\ Len(wire') \in Nat
  BY DEF DeliveryType, WireType
<1>2. \A i \in 1..Len(wire') : i \in 1..Len(wire) /\ wire'[i] = wire[i]
  BY <1>1
<1>3. WireInOrder'
  <2>1. ASSUME NEW i \in 1..Len(wire'), NEW j \in i..Len(wire')
        PROVE  /\ i \in 1..Len(wire) /\ j \in i..Len(wire)
               /\ wire'[i] = wire[i] /\ wire'[j] = wire[j]
    <3>1. j \in 1..Len(wire')
      BY <1>1
    <3> QED BY <1>1, <1>2, <3>1
  <2> QED BY <1>2, <2>1 DEF WireInOrder
<1>4. RunInOrder'
  BY <1>2 DEF RunInOrder
<1> QED BY <1>3, <1>4

(* The Mac reads the oldest message: the order of the rest stays, and a      *)
(* report puts the Mac in a run that is not later than what follows.         *)
LEMMA OrderedAsMacReads ==
    ASSUME StoreInv, DeliveryType, DeliveryType', InOrder, MacReceives
    PROVE  InOrder'
<1>1. /\ wire # << >> /\ 1 \in 1..Len(wire) /\ wire' = Tail(wire)
      /\ UNCHANGED <<mode, session, piSent, counters>>
      /\ \/ IsReport(wire[1]) /\ UpdatePiStatus(R(wire[1]), wire[1].counts)
         \/ IngestSendCounter(wire[1].counts)
  BY MacReceivesFacts DEF linkVars, agentVars
<1>2. /\ Len(wire) \in Nat /\ Len(wire') = Len(wire) - 1
      /\ \A i \in 1..Len(wire') : i + 1 \in 1..Len(wire) /\ wire'[i] = wire[i + 1]
  BY <1>1 DEF DeliveryType, WireType
<1>3. CountersBelow'
  BY <1>1 DEF InOrder, CountersBelow
<1>4. WireInOrder'
  <2>1. ASSUME NEW i \in 1..Len(wire'), NEW j \in i..Len(wire')
        PROVE  /\ i + 1 \in 1..Len(wire) /\ j + 1 \in (i + 1)..Len(wire)
               /\ wire'[i] = wire[i + 1] /\ wire'[j] = wire[j + 1]
    <3>1. j \in 1..Len(wire')
      BY <1>2
    <3> QED BY <1>2, <3>1
  <2> QED BY <1>1, <1>2, <2>1 DEF InOrder, WireInOrder
<1>5. /\ wire[1].counts \in [Links -> Nat]
      /\ \A j \in 1..Len(wire) : wire[j].counts \in [Links -> Nat]
      /\ piSent \in [Links -> Nat] /\ sent \in [Links -> Nat]
  BY <1>1, MessageTypes DEF DeliveryType, PiCounterType, StoreInv, StatusType
<1>6. CASE IsReport(wire[1]) /\ UpdatePiStatus(R(wire[1]), wire[1].counts)
  <2> DEFINE s == R(wire[1])
  <2>1. /\ known' = TRUE /\ sent' = wire[1].counts
        /\ expMode' = s.mode /\ expSession' = s.session
    BY <1>6 DEF UpdatePiStatus, StartRun, ContinueRun, NewContext
  <2>2. /\ NotLater(s.session, s.mode, session, mode)
        /\ \A j \in 1..Len(wire) :
             /\ IsReport(wire[j]) =>
                  NotLater(s.session, s.mode, R(wire[j]).session, R(wire[j]).mode)
             /\ s.session = session => Below(wire[j].counts, piSent)
    BY <1>1, <1>6 DEF InOrder, WireInOrder
  <2> HIDE DEF s
  <2>3. RunInOrder'
    BY <1>1, <1>2, <2>1, <2>2 DEF RunInOrder
  <2> QED BY <1>3, <1>4, <2>3 DEF InOrder
<1>7. CASE IngestSendCounter(wire[1].counts)
  <2>1. /\ UNCHANGED <<known, expMode, expSession>>
        /\ sent' = [l \in Links |-> IF wire[1].counts[l] > sent[l]
                                    THEN wire[1].counts[l] ELSE sent[l]]
    BY <1>7 DEF IngestSendCounter, run
  <2>2. Below(wire[1].counts, piSent) /\ Below(sent, piSent) => Below(sent', piSent)
    BY <1>5, <2>1 DEF Below
  <2>3. RunInOrder'
    BY <1>1, <1>2, <2>1, <2>2 DEF InOrder, RunInOrder
  <2> QED BY <1>3, <1>4, <2>3 DEF InOrder
<1> QED BY <1>1, <1>6, <1>7

LEMMA InOrderInit == Init => InOrder
BY DEF Init, StoreInit, InOrder, CountersBelow, WireInOrder, RunInOrder

LEMMA InOrderStep ==
    ASSUME StoreInv, DeliveryType, DeliveryType', InOrder, [Next]_deliveryVars
    PROVE  InOrder'
<1> USE DEF InOrder
<1>1. Below(piSent, piSent)
  BY DEF DeliveryType, PiCounterType, Below
<1>2. ASSUME UNCHANGED <<known, expMode, expSession, sent, wire>>,
             UNCHANGED <<mode, session, piSent, counters>>
      PROVE  InOrder'
  BY <1>1, <1>2, OrderedAsPiCounts, CountersBelowAsPiCounts DEF CountersJoined
<1>3. CASE LinkManagerStep \/ PiRestart
  <2>1. /\ session' = session + 1 \/ UNCHANGED <<mode, session>>
        /\ UNCHANGED <<known, expMode, expSession, sent, wire>>
    BY <1>3, LinkFacts DEF LinkManagerStep, PiRestart, storeVars, run
  <2>2. \/ UNCHANGED <<piSent, counters>>
        \/ counters' = << >> /\ session' = session + 1
    BY <1>3 DEF LinkManagerStep, PiRestart, Link!Restart, agentVars
  <2>3. CountersBelow'
    <3>1. CASE UNCHANGED <<piSent, counters>>
      BY <1>1, <3>1, CountersBelowAsPiCounts DEF CountersJoined
    <3>2. CASE counters' = << >>
      BY <3>2 DEF CountersBelow
    <3> QED BY <2>2, <3>1, <3>2
  <2>4. WireInOrder' /\ RunInOrder'
    <3>1. CASE session' = session + 1
      BY <2>1, <3>1, OrderedAsPiCounts
    <3>2. CASE UNCHANGED <<mode, session, piSent>>
      BY <1>1, <2>1, <3>2, OrderedAsPiCounts
    <3> QED BY <2>1, <2>2, <3>1, <3>2
  <2> QED BY <2>3, <2>4
<1>4. CASE Enqueue
  BY <1>2, <1>4 DEF Enqueue, storeVars, run, linkVars
<1>5. CASE Send
  <2>1. /\ Below(piSent, piSent') /\ CountersJoined
        /\ UNCHANGED <<known, expMode, expSession, sent, wire, mode, session>>
    BY <1>5, SendFacts DEF storeVars, run, linkVars
  <2> QED BY <2>1, OrderedAsPiCounts, CountersBelowAsPiCounts
<1>6. CASE PushStatus
  <2> DEFINE m == [status |-> <<Report>>, counts |-> piSent]
  <2>1. /\ m \in Messages /\ Below(m.counts, piSent)
        /\ R(m).session = session /\ R(m).mode = mode
    BY <1>1, ReportType DEF Messages, DeliveryType, PiCounterType, R, Report
  <2>2. /\ wire' = Append(wire, m)
        /\ UNCHANGED <<known, expMode, expSession, sent, mode, session, piSent, counters>>
    BY <1>6 DEF PushStatus, storeVars, run, linkVars, agentVars
  <2>3. CountersBelow'
    BY <2>2 DEF CountersBelow
  <2> HIDE DEF m
  <2> QED BY <2>1, <2>2, <2>3, OrderedAsPiSpeaks
<1>7. CASE PushCounter
  <2> DEFINE m == [status |-> << >>, counts |-> Head(counters)]
  <2>1. /\ counters # << >> /\ counters' = Tail(counters) /\ wire' = Append(wire, m)
        /\ UNCHANGED <<known, expMode, expSession, sent, mode, session, piSent>>
    BY <1>7 DEF PushCounter, storeVars, run, linkVars
  <2>2. counters \in Seq([Links -> Nat]) /\ 1 \in 1..Len(counters) /\ Head(counters) = counters[1]
    BY <2>1 DEF DeliveryType, PiCounterType
  <2>3. m \in Messages /\ ~IsReport(m) /\ Below(m.counts, piSent)
    BY <2>2 DEF Messages, IsReport, CountersBelow
  <2> HIDE DEF m
  <2> QED BY <2>1, <2>3, OrderedAsPiSpeaks, CountersBelowTail
<1>8. CASE Break
  <2>1. /\ UNCHANGED <<known, expMode, expSession, sent, mode, session, piSent>>
        /\ Len(wire') <= Len(wire) /\ \A i \in 1..Len(wire') : wire'[i] = wire[i]
        /\ UNCHANGED counters \/ (counters # << >> /\ counters' = Tail(counters))
    BY <1>8, BreakFacts DEF storeVars, run, linkVars
  <2>2. CountersBelow'
    BY <1>1, <2>1, CountersBelowTail, CountersBelowAsPiCounts DEF CountersJoined
  <2> QED BY <2>1, <2>2, OrderedAsWireBreaks
<1>9. CASE MacReceives
  BY <1>9, OrderedAsMacReads
<1>10. CASE BridgeReceives
  <2>1. UNCHANGED <<known, expMode, expSession, sent>>
    BY <1>10 DEF BridgeReceives, IngestTelemetry, IngestDuplicate, IngestUnique, Received
  <2> QED BY <1>2, <1>10, <2>1 DEF BridgeReceives, linkVars, agentVars
<1>11. CASE MacRestart
  <2>1. known' = FALSE /\ wire' = << >> /\ UNCHANGED <<piSent, counters>>
    BY <1>11 DEF MacRestart, StoreRestart, agentVars
  <2> QED BY <2>1 DEF CountersBelow, WireInOrder, RunInOrder
<1>12. CASE UNCHANGED deliveryVars
  BY <1>2, <1>12 DEF deliveryVars, storeVars, run, linkVars, agentVars
<1>13. CASE CacheExpires
  BY <1>2, <1>13 DEF CacheExpires, Expire, run, linkVars, agentVars
<1> QED BY <1>3, <1>4, <1>5, <1>6, <1>7, <1>8, <1>9, <1>10, <1>11, <1>12, <1>13
        DEF Next

-----------------------------------------------------------------------------
(* What was handed to uD3TN, and how often the packets of a run are counted. *)

LEMMA PacketsAreNumbers == Packets \subseteq Int
<1>1. Cardinality(Packets) \in Nat /\ Packets = 1..Cardinality(Packets)
  BY DeliveryAssumption, FS_CardinalityType
<1> QED BY <1>1

(* The cache learns a key from a bundle that was handed to uD3TN.            *)
LEMMA SeenOffered ==
    ASSUME DeliveryType, OffersInOrder, [Next]_deliveryVars, net \subseteq net'
    PROVE  seen' \subseteq Offered'
<1>1. Offered \subseteq Offered' /\ seen \subseteq Offered
  BY DEF Offered, OffersInOrder
<1>2. CASE seen' \subseteq seen
  BY <1>1, <1>2
<1>3. CASE MacReceives
  <2>1. /\ 1 \in 1..Len(wire)
        /\ \/ UpdatePiStatus(R(wire[1]), wire[1].counts)
           \/ IngestSendCounter(wire[1].counts)
    BY <1>3, MacReceivesFacts
  <2>2. ASSUME NEW s, NEW counts, UpdatePiStatus(s, counts) PROVE seen' \subseteq seen
    BY <2>2 DEF UpdatePiStatus, StartRun, Forget, ContinueRun, dedup
  <2> QED BY <1>2, <2>1, <2>2 DEF IngestSendCounter, dedup
<1>4. CASE BridgeReceives
  <2>1. PICK b \in net : IngestTelemetry(b)
    BY <1>4 DEF BridgeReceives
  <2>2. seen' \subseteq seen \cup {Key(b)}
    BY <2>1 DEF IngestTelemetry, IngestDuplicate, IngestUnique
  <2>3. Key(b) \in Offered
    BY DEF Key, Offered
  <2> QED BY <1>1, <2>2, <2>3
<1>5. CASE CacheExpires \/ MacRestart
  BY <1>2, <1>5 DEF CacheExpires, Expire, MacRestart, StoreRestart
<1>6. CASE Send
  BY <1>2, <1>6, SendFacts DEF storeVars, dedup
<1>7. CASE \/ LinkManagerStep \/ Enqueue \/ PushStatus \/ PushCounter \/ PiRestart
           \/ Break \/ UNCHANGED deliveryVars
  BY <1>2, <1>7 DEF LinkManagerStep, Enqueue, PushStatus, PushCounter, PiRestart, Break,
                    deliveryVars, storeVars, dedup
<1> QED BY <1>3, <1>4, <1>5, <1>6, <1>7 DEF Next

LEMMA OffersInit == Init => OffersInOrder
<1> SUFFICES ASSUME Init PROVE OffersInOrder
  OBVIOUS
<1>1. Offered = {} /\ net = {} /\ seen = {} /\ waiting = {}
  BY DEF Init, StoreInit, Offered
<1> QED BY <1>1, NothingCounted DEF OffersInOrder

LEMMA OffersStep ==
    ASSUME DeliveryType, DeliveryType', OffersInOrder, [Next]_deliveryVars
    PROVE  OffersInOrder'
<1> USE DEF OffersInOrder
<1>1. /\ session \in Nat /\ made \in Nat /\ waiting \subseteq Int
      /\ \A b \in net : b.id \in Int /\ b.session \in Nat
  BY SessionsAreNumbers, PacketsAreNumbers
     DEF DeliveryType, LinkType, QueueType, NetType, Bundles
<1>2. CASE Send
  <2>1. PICK p \in waiting :
          /\ \A q \in waiting : p <= q
          /\ net \subseteq net'
          /\ \A b \in net' \ net : b.id = p /\ b.session = session
    BY <1>2, SendFacts
  <2>2. UNCHANGED <<session, made>> /\ waiting' \subseteq waiting
    BY <1>2, SendFacts DEF linkVars
  <2>3. IsFiniteSet(Offered')
    <3>1. Offered' \subseteq Offered \cup {<<session, p>>}
      BY <2>1 DEF Offered
    <3>2. IsFiniteSet(Offered \cup {<<session, p>>})
      BY FS_AddElement
    <3> QED BY <3>1, <3>2, FS_Subset
  <2>4. seen' \subseteq Offered'
    BY <2>1, SeenOffered
  <2>5. \A b \in net' : \/ b \in net
                        \/ b.id = p /\ b.session = session
    BY <2>1
  <2>6. waiting' \subseteq 1..made' /\ p \in 1..made
    BY <2>1, <2>2
  <2>7. \A b \in net' : /\ b.session <= session' /\ b.id <= made'
                        /\ \A q \in waiting' : b.id <= q
    BY <1>1, <2>1, <2>2, <2>5, <2>6
  <2>8. \A a, b \in net' : a.id < b.id => a.session <= b.session
    BY <1>1, <2>1, <2>5, <2>6
  <2> QED BY <2>3, <2>4, <2>6, <2>7, <2>8
<1>3. CASE ~Send
  <2>1. UNCHANGED net
    <3>1. CASE MacReceives
      BY <3>1, MacReceivesFacts
    <3>2. CASE Break
      BY <3>2, BreakFacts
    <3> QED BY <1>3, <3>1, <3>2 DEF Next, LinkManagerStep, Enqueue, PushStatus,
               PushCounter, PiRestart, BridgeReceives, CacheExpires, MacRestart,
               deliveryVars
  <2>2. Offered' = Offered /\ seen' \subseteq Offered'
    BY <2>1, SeenOffered DEF Offered
  <2>3. session <= session'
    <3>1. CASE LinkManagerStep \/ PiRestart
      BY <1>1, <3>1, LinkFacts
    <3>2. CASE UNCHANGED session
      BY <1>1, <3>2
    <3>3. CASE ~(LinkManagerStep \/ PiRestart)
      <4>1. UNCHANGED session
        BY <1>3, <3>3, MacReceivesFacts, BreakFacts
           DEF Next, Enqueue, PushStatus, PushCounter, BridgeReceives, CacheExpires,
               MacRestart, deliveryVars, linkVars
      <4> QED BY <3>2, <4>1
    <3> QED BY <3>1, <3>3
  <2>4. \/ made' = made + 1 /\ waiting' = waiting \cup {made + 1}
        \/ UNCHANGED made /\ waiting' \subseteq waiting
    <3>1. CASE MacReceives
      BY <3>1, MacReceivesFacts DEF agentVars
    <3>2. CASE Break
      BY <3>2, BreakFacts
    <3> QED BY <1>3, <3>1, <3>2 DEF Next, LinkManagerStep, Enqueue, PushStatus,
               PushCounter, PiRestart, BridgeReceives, CacheExpires, MacRestart,
               deliveryVars, agentVars
  <2>5. ASSUME NEW q \in waiting'
        PROVE  q \in 1..made' /\ (q \in waiting \/ q = made + 1)
    <3>1. waiting \subseteq 1..made
      OBVIOUS
    <3>2. q \in waiting \/ (q = made + 1 /\ made' = made + 1)
      BY <2>4, <2>5
    <3>3. q \in waiting => q \in 1..made /\ (made' = made \/ made' = made + 1)
      BY <2>4, <3>1
    <3> HIDE DEF OffersInOrder
    <3> QED BY <1>1, <3>2, <3>3
  <2>6. session' \in Nat /\ made' \in Nat /\ made <= made'
    BY <1>1, <2>4, SessionsAreNumbers DEF DeliveryType, LinkType
  <2>7. ASSUME NEW b \in net'
        PROVE  /\ b.session <= session' /\ b.id <= made'
               /\ \A q \in waiting' : b.id <= q
    <3>1. b \in net /\ b.session <= session /\ b.id <= made
      BY <2>1
    <3>2. \A q \in waiting : b.id <= q
      BY <3>1
    <3>3. b.id \in Int /\ b.session \in Nat
      BY <1>1, <3>1
    <3> HIDE DEF OffersInOrder
    <3>4. \A q \in waiting' : b.id <= q
      BY <1>1, <2>5, <3>1, <3>2, <3>3
    <3> QED BY <1>1, <2>3, <2>6, <3>1, <3>3, <3>4
  <2> QED BY <2>1, <2>2, <2>5, <2>7
<1> QED BY <1>2, <1>3

-----------------------------------------------------------------------------
(* Theorems about Delivery. *)

DeliveryInv == StoreInv /\ DeliveryType /\ InOrder /\ OffersInOrder

LEMMA DeliveryInvariance == Spec => []DeliveryInv
<1>1. Init => DeliveryInv
  <2> SUFFICES ASSUME Init PROVE DeliveryInv
    OBVIOUS
  <2>1. StoreInv
    BY StoreInvariantInit DEF Init
  <2> QED BY <2>1, DeliveryTypeInit, InOrderInit, OffersInit DEF DeliveryInv
<1>2. DeliveryInv /\ [Next]_deliveryVars => DeliveryInv'
  <2> SUFFICES ASSUME DeliveryInv, [Next]_deliveryVars PROVE DeliveryInv'
    OBVIOUS
  <2>1. [StoreStep]_storeVars
    BY DeliveryStepIsStoreStep DEF DeliveryInv
  <2>2. StoreInv'
    BY <2>1, StoreStepInvariant DEF DeliveryInv
  <2>3. DeliveryType'
    BY DeliveryTypeStep DEF DeliveryInv
  <2>4. InOrder'
    BY <2>3, InOrderStep DEF DeliveryInv
  <2>5. OffersInOrder'
    BY <2>3, OffersStep DEF DeliveryInv
  <2> QED BY <2>2, <2>3, <2>4, <2>5 DEF DeliveryInv
<1> QED BY <1>1, <1>2, PTL DEF Spec

(* Fed by a Pi over the two channels, the store keeps what it keeps for      *)
(* arbitrary inputs: nothing the agent or the channels do leads it out.      *)
THEOREM StoreSoundEndToEnd ==
    Spec => [](StoreTypeOK /\ DiscardedIsSaved /\ RunAccount
               /\ BucketsPartitionTraffic)
<1>1. DeliveryInv => /\ StoreTypeOK /\ DiscardedIsSaved /\ RunAccount
                     /\ BucketsPartitionTraffic
  BY TypeParts DEF DeliveryInv, StoreInv
<1> QED BY <1>1, DeliveryInvariance, PTL

(* A run counts no more than was handed to uD3TN, each pair of session and   *)
(* packet once, and once more only if it had expired from the cache, however *)
(* many copies uD3TN delivers, over which links, and in what order.          *)
THEOREM CountedOnce == Spec => []CountedOncePerSession
<1>1. DeliveryInv => CountedOncePerSession
  <2> SUFFICES ASSUME DeliveryInv PROVE CountedOncePerSession
    OBVIOUS
  <2>1. IsFiniteSet(Offered) /\ seen \subseteq Offered
    BY DEF DeliveryInv, OffersInOrder
  <2>2. /\ Cardinality(seen) <= Cardinality(Offered)
        /\ Cardinality(seen) \in Nat /\ Cardinality(Offered) \in Nat
    BY <2>1, FS_Subset, FS_CardinalityType
  <2>3. unique = Cardinality(seen) + expired /\ expired \in Nat
    BY DEF DeliveryInv, StoreInv, RunAccount, CacheType
  <2> QED BY <2>2, <2>3 DEF CountedOncePerSession
<1> QED BY <1>1, DeliveryInvariance, PTL

(* A packet whose acceptance was not confirmed is handed over again, and if  *)
(* the session ended in between, under a second key, which is counted again. *)
(* Of the packets of a session that happens to one at most, as the retries   *)
(* hold up all later packets.                                                *)
THEOREM RetriedUnderOneMoreKey == Spec => []OneRetriedPerSession
<1>1. DeliveryInv => OneRetriedPerSession
  <2> SUFFICES ASSUME DeliveryInv, NEW s \in Sessions,
                      NEW p \in RetriedLater(s), NEW q \in RetriedLater(s), p < q
               PROVE  FALSE
    <3>1. \A t : RetriedLater(t) \subseteq Int
      BY PacketsAreNumbers DEF RetriedLater
    <3> QED BY <3>1 DEF OneRetriedPerSession
  <2>1. PICK t \in Sessions, a \in net : t > s /\ <<t, p>> = <<a.session, a.id>>
    BY DEF RetriedLater, Offered
  <2>2. PICK b \in net : <<s, q>> = <<b.session, b.id>>
    BY DEF RetriedLater, Offered
  <2>3. t <= s
    BY <2>1, <2>2 DEF DeliveryInv, OffersInOrder
  <2> QED BY <2>1, <2>3, SessionsAreNumbers
<1> QED BY <1>1, DeliveryInvariance, PTL

(* When the Mac is in the Pi's session, it has the session's mode, and has   *)
(* counted as sent no more than the Pi's process of that session has.        *)
THEOREM RunAgrees == Spec => []CurrentRunAgrees
<1>1. DeliveryInv => CurrentRunAgrees
  BY DEF DeliveryInv, InOrder, RunInOrder, NotLater, Below, CurrentRunAgrees
<1> QED BY <1>1, DeliveryInvariance, PTL

(* The Mac leaves a run only for one of a later session, as its reports      *)
(* arrive in the order of their sessions, also over broken connections and   *)
(* restarts of the agent; only its own restart makes it forget the run.      *)
THEOREM RunsOnlyMoveForward == Spec => RunsMoveForward
<1>1. ASSUME DeliveryInv, [Next]_deliveryVars, known, known'
      PROVE  \/ UNCHANGED <<expMode, expSession>>
             \/ expSession' > expSession
  <2> USE <1>1
  <2>1. CASE \/ LinkManagerStep \/ Enqueue \/ PushStatus \/ PushCounter \/ PiRestart
             \/ Break \/ UNCHANGED deliveryVars
    BY <2>1 DEF LinkManagerStep, Enqueue, PushStatus, PushCounter, PiRestart, Break,
                deliveryVars, storeVars, run
  <2>2. CASE Send
    BY <2>2, SendFacts DEF DeliveryInv, storeVars, run
  <2>3. CASE MacReceives
    <3>1. /\ 1 \in 1..Len(wire)
          /\ \/ IsReport(wire[1]) /\ UpdatePiStatus(R(wire[1]), wire[1].counts)
             \/ IngestSendCounter(wire[1].counts)
      BY <2>3, MacReceivesFacts DEF DeliveryInv
    <3>2. CASE IsReport(wire[1]) /\ UpdatePiStatus(R(wire[1]), wire[1].counts)
      <4>1. expSession \in Nat /\ R(wire[1]).session \in Nat
        BY <3>1, <3>2, MessageTypes, SessionsAreNumbers
           DEF DeliveryInv, DeliveryType, StoreInv, RunType
      <4>2. NotLater(expSession, expMode, R(wire[1]).session, R(wire[1]).mode)
        BY <3>1, <3>2 DEF DeliveryInv, InOrder, RunInOrder
      <4>3. \/ UNCHANGED <<expMode, expSession>>
            \/ /\ R(wire[1]).mode # expMode \/ R(wire[1]).session # expSession
               /\ expSession' = R(wire[1]).session
        BY <3>2 DEF UpdatePiStatus, StartRun, ContinueRun, NewContext
      <4> QED BY <4>1, <4>2, <4>3 DEF NotLater
    <3>3. CASE IngestSendCounter(wire[1].counts)
      BY <3>3 DEF IngestSendCounter, run
    <3> QED BY <3>1, <3>2, <3>3
  <2>4. CASE BridgeReceives
    BY <2>4 DEF BridgeReceives, IngestTelemetry, IngestDuplicate, IngestUnique, Received
  <2>5. CASE MacRestart
    BY <2>5 DEF MacRestart, StoreRestart
  <2>6. CASE CacheExpires
    BY <2>6 DEF CacheExpires, Expire, run
  <2> QED BY <2>1, <2>2, <2>3, <2>4, <2>5, <2>6 DEF Next
<1>2. DeliveryInv /\ [Next]_deliveryVars =>
        [known /\ known' => \/ UNCHANGED <<expMode, expSession>>
                           \/ expSession' > expSession]_deliveryVars
  BY <1>1
<1> QED BY <1>2, DeliveryInvariance, PTL DEF Spec, RunsMoveForward
=============================================================================
