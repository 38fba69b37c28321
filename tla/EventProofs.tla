----------------------------- MODULE EventProofs ----------------------------
(***************************************************************************)
(* The way of a contract event from the ledger to its readers, proved for  *)
(* all values of the constants.  The indexer: nothing behind a cursor was  *)
(* skipped, the checkpoints account for every ledger up to it, and side    *)
(* effects follow the commit.  Then what fans the events out: the badge of *)
(* the notification feed, the registries of the event stream, and the      *)
(* reports of webhook delivery.  And the default checker, which works from *)
(* the indexed events: its lock.                                           *)
(***************************************************************************)
EXTENDS EventIndexer, DefaultKeeper, Notifications, EventStream, WebhookDelivery, ArithmeticFacts

------------------------------------------------------------------------------
(* What storing a batch comes to.                                          *)

LEMMA EventsAreNaturals == Events \subseteq Nat /\ Events \subseteq 0 .. NEvents /\ NEvents \in Nat
BY IndexerConstants DEF Events

(* Putting events in order neither adds nor loses one.                     *)
LEMMA InOrderType ==
    ASSUME NEW S \in SUBSET Events
    PROVE  /\ InOrder(S) \in Seq(Events)
           /\ \A i \in DOMAIN InOrder(S) : InOrder(S)[i] \in S
<1>1. S \in SUBSET (0 .. NEvents)
  BY EventsAreNaturals
<1>2. PICK f \in Increasing(Cardinality(S), S) : TRUE
  BY <1>1, EventsAreNaturals, NumbersInOrder
<1>3. Cardinality(S) \in Nat
  <2>1. IsFiniteSet(0 .. NEvents)
    BY EventsAreNaturals, FS_Interval
  <2> QED BY <1>1, <2>1, FS_Subset, FS_CardinalityType
<1>4. f \in [1 .. Cardinality(S) -> S] /\ \A i, j \in DOMAIN f : i < j => f[i] < f[j]
  BY <1>2 DEF Increasing
<1>5. InOrder(S) \in [1 .. Cardinality(S) -> S]
  BY <1>4, Zenon DEF InOrder
<1> QED BY <1>3, <1>5

(* Having one row in common with an event is transitive: the unique keys   *)
(* split the events into classes.                                          *)
LEMMA SameRowTransitive ==
    ASSUME NEW e \in Events, NEW f \in Events, NEW g \in Events, SameRow(e, f), SameRow(f, g)
    PROVE  SameRow(e, g)
BY DEF SameRow

(* After the inserts every event of the batch has a row: its own, one that *)
(* was there before, or that of the first event of the batch with its key. *)
LEMMA BatchStored ==
    ASSUME NEW batch \in SUBSET Events, NEW e \in batch, stored \subseteq Events
    PROVE  \E s \in stored \cup Fresh(batch) : SameRow(e, s)
<1> DEFINE Equal == {f \in batch : SameRow(e, f)}
<1>1. e \in Equal
  BY DEF SameRow
<1>2. Equal \in SUBSET Nat
  BY EventsAreNaturals
<1>3. PICK f \in Equal : \A g \in Equal : f <= g
  BY <1>1, <1>2, LeastNatural
<1>4. CASE f \in Fresh(batch)
  BY <1>3, <1>4
<1>5. CASE f \notin Fresh(batch)
  <2>1. \/ \E s \in stored : SameRow(f, s)
        \/ \E g \in batch : g < f /\ SameRow(f, g)
    BY <1>3, <1>5 DEF Fresh
  <2>2. ASSUME NEW g \in batch, g < f, SameRow(f, g) PROVE FALSE
    <3>1. g \in Equal
      BY <1>3, <2>2, SameRowTransitive
    <3>2. f \in Nat /\ g \in Nat
      BY <1>2, <1>3, <3>1
    <3> QED BY <1>3, <2>2, <3>1, <3>2
  <2>3. ASSUME NEW s \in stored, SameRow(f, s) PROVE SameRow(e, s)
    BY <1>3, <2>3, SameRowTransitive
  <2> QED BY <2>1, <2>2, <2>3
<1> QED BY <1>4, <1>5

------------------------------------------------------------------------------
(* The inductive invariant.                                                *)

Steps == {"idle", "fetch", "store", "dispatch", "release", "checkpoint", "record", "advance"}
Jobs == {"none", "poll", "reindex", "reprocess"}
WorkerRecord ==
    [pc : Steps, job : Jobs, contract : Contracts, from : Nat, to : Nat, until : Nat,
     batch : SUBSET Events, inserted : Seq(Events), attempt : Nat, previous : Nat \cup {-1}]

IndexerTyped ==
    /\ latest \in Nat
    /\ stored \subseteq Events /\ quarantined \subseteq Events
    /\ cursor \in [Contracts -> Nat]
    /\ worker \in [Workers -> WorkerRecord]

(* A poller's chunk lies on the closed chain and starts no later than the  *)
(* ledger after the cursor, which other pollers only move forward.         *)
ChunkFollowsCursor(r) ==
    /\ r.job = "poll" => r.to <= latest /\ r.from <= cursor[r.contract] + 1
    /\ r.pc \in {"checkpoint", "record", "advance"} => r.job = "poll"

(* From the fetch on, each event of the chunk is accounted for or is in    *)
(* the batch that is being stored.                                         *)
ChunkAccounted(r) ==
    r.job = "poll" /\ r.pc \notin {"idle", "fetch"} =>
        \A e \in Events : EventContract[e] = r.contract /\ EventLedger[e] \in r.from .. r.to =>
            Accounted(e) \/ (r.pc = "store" /\ e \in r.batch)

(* What is pushed for dispatch is of the batch, and the batch is in the    *)
(* table before any of it is dispatched or taken out of quarantine.        *)
PushedIsStored(r) ==
    /\ r.pc = "fetch" => r.inserted = <<>> /\ r.job # "reprocess"
    /\ r.pc \in {"store", "dispatch"} => \A i \in DOMAIN r.inserted : r.inserted[i] \in r.batch
    /\ r.pc \in {"dispatch", "release"} => \A e \in r.batch : HasRow(e)

(* The cursor moves over a chunk only once its checkpoint is recorded.     *)
ChunkRecorded(r) ==
    r.pc = "advance" =>
        \E k \in checkpoints : k.contract = r.contract /\ k.start = r.from /\ k.end = r.to

WorkerSound(r) ==
    ChunkFollowsCursor(r) /\ ChunkAccounted(r) /\ PushedIsStored(r) /\ ChunkRecorded(r)

(* No cursor and no checkpoint runs ahead of the chain.                    *)
TablesBehindChain ==
    /\ \A c \in Contracts : cursor[c] <= latest
    /\ \A k \in checkpoints : k.end \in 0 .. latest

NoEffectBefore ==
    /\ DOMAIN dispatched = Events
    /\ \A e \in Events : ~HasRow(e) => dispatched[e] = 0 /\ applied[e] = 0

IndexerInv ==
    /\ IndexerTyped
    /\ \A w \in Workers : WorkerSound(worker[w])
    /\ EventsAccounted /\ CheckpointsContiguous /\ TablesBehindChain /\ NoEffectBefore

LEMMA IdleWorker ==
    /\ Idle \in WorkerRecord /\ Idle.pc = "idle" /\ Idle.job = "none" /\ Idle.inserted = <<>>
    /\ Idle.contract = FirstContract /\ WorkerSound(Idle)
<1>1. /\ Idle \in WorkerRecord /\ Idle.pc = "idle" /\ Idle.job = "none" /\ Idle.inserted = <<>>
      /\ Idle.contract = FirstContract
  BY IndexerConstants DEF Idle, WorkerRecord, Steps, Jobs
<1>2. WorkerSound(Idle)
  BY <1>1 DEF WorkerSound, ChunkFollowsCursor, ChunkAccounted, PushedIsStored, ChunkRecorded
<1> QED BY <1>1, <1>2

LEMMA IndexerInitial == IndexerInit => IndexerInv
<1> SUFFICES ASSUME IndexerInit PROVE IndexerInv
  OBVIOUS
<1>1. IndexerTyped /\ \A w \in Workers : WorkerSound(worker[w])
  BY IdleWorker DEF IndexerInit, IndexerTyped
<1>2. EventsAccounted
  BY IndexerConstants DEF IndexerInit, EventsAccounted
<1>3. CheckpointsContiguous
  BY DEF IndexerInit, CheckpointsContiguous
<1>4. NoEffectBefore /\ TablesBehindChain
  BY DEF IndexerInit, NoEffectBefore, TablesBehindChain
<1> QED BY <1>1, <1>2, <1>3, <1>4 DEF IndexerInv

(* The tables and the chain only gain: what was true of a worker that does *)
(* not move stays true.                                                    *)
Gains ==
    /\ latest <= latest' /\ latest' \in Nat
    /\ \A e \in Events : HasRow(e) => HasRow(e)'
    /\ \A e \in Events : Accounted(e) => Accounted(e)'
    /\ cursor' \in [Contracts -> Nat] /\ \A c \in Contracts : cursor[c] <= cursor'[c]
    /\ checkpoints \subseteq checkpoints'

LEMMA WorkerKept ==
    ASSUME IndexerTyped, Gains, NEW r \in WorkerRecord, WorkerSound(r)
    PROVE  WorkerSound(r)'
<1>1. r.to \in Nat /\ r.from \in Nat /\ r.contract \in Contracts /\ r.batch \subseteq Events
  BY DEF WorkerRecord
<1>2. ChunkFollowsCursor(r)'
  BY <1>1 DEF IndexerTyped, Gains, WorkerSound, ChunkFollowsCursor
<1>3. ChunkAccounted(r)'
  BY DEF Gains, WorkerSound, ChunkAccounted
<1>4. PushedIsStored(r)'
  BY <1>1 DEF Gains, WorkerSound, PushedIsStored
<1>5. ChunkRecorded(r)'
  BY DEF Gains, WorkerSound, ChunkRecorded
<1> QED BY <1>2, <1>3, <1>4, <1>5 DEF WorkerSound

------------------------------------------------------------------------------
(* What a worker becomes.                                                  *)

Polling(c, from, to) ==
    [Idle EXCEPT !.pc = "fetch", !.job = "poll", !.contract = c,
                 !.from = from, !.to = to, !.until = to]

LEMMA PollingRecord ==
    ASSUME NEW c \in Contracts, NEW from \in Nat, NEW to \in Nat
    PROVE  /\ Polling(c, from, to) \in WorkerRecord
           /\ Polling(c, from, to).pc = "fetch" /\ Polling(c, from, to).job = "poll"
           /\ Polling(c, from, to).contract = c /\ Polling(c, from, to).from = from
           /\ Polling(c, from, to).to = to /\ Polling(c, from, to).inserted = <<>>
<1> DEFINE Kept(r) == r \in WorkerRecord /\ r.pc = "fetch" /\ r.inserted = <<>>
<1>1. PICK r1 : r1 = [Idle EXCEPT !.pc = "fetch"]
  OBVIOUS
<1>2. Kept(r1)
  BY <1>1, IdleWorker DEF WorkerRecord, Steps
<1>3. PICK r2 : r2 = [r1 EXCEPT !.job = "poll"]
  OBVIOUS
<1>4. Kept(r2) /\ r2.job = "poll"
  BY <1>2, <1>3 DEF WorkerRecord, Jobs
<1>5. PICK r3 : r3 = [r2 EXCEPT !.contract = c]
  OBVIOUS
<1>6. Kept(r3) /\ r3.job = "poll" /\ r3.contract = c
  BY <1>4, <1>5 DEF WorkerRecord
<1>7. PICK r4 : r4 = [r3 EXCEPT !.from = from]
  OBVIOUS
<1>8. Kept(r4) /\ r4.job = "poll" /\ r4.contract = c /\ r4.from = from
  BY <1>6, <1>7 DEF WorkerRecord
<1>9. PICK r5 : r5 = [r4 EXCEPT !.to = to]
  OBVIOUS
<1>10. Kept(r5) /\ r5.job = "poll" /\ r5.contract = c /\ r5.from = from /\ r5.to = to
  BY <1>8, <1>9 DEF WorkerRecord
<1>11. PICK r6 : r6 = [r5 EXCEPT !.until = to]
  OBVIOUS
<1>12. Kept(r6) /\ r6.job = "poll" /\ r6.contract = c /\ r6.from = from /\ r6.to = to
  BY <1>10, <1>11 DEF WorkerRecord
<1>13. r6 = Polling(c, from, to)
  BY <1>1, <1>3, <1>5, <1>7, <1>9, <1>11, Zenon DEF Polling
<1> QED BY <1>12, <1>13

Reindexing(from, to, until) ==
    [Idle EXCEPT !.pc = "fetch", !.job = "reindex", !.from = from, !.to = to, !.until = until]

LEMMA ReindexingRecord ==
    ASSUME NEW from \in Nat, NEW to \in Nat, NEW until \in Nat
    PROVE  /\ Reindexing(from, to, until) \in WorkerRecord
           /\ Reindexing(from, to, until).pc = "fetch"
           /\ Reindexing(from, to, until).job = "reindex"
           /\ Reindexing(from, to, until).inserted = <<>>
<1> DEFINE Kept(r) == r \in WorkerRecord /\ r.pc = "fetch" /\ r.inserted = <<>>
<1>1. PICK r1 : r1 = [Idle EXCEPT !.pc = "fetch"]
  OBVIOUS
<1>2. Kept(r1)
  BY <1>1, IdleWorker DEF WorkerRecord, Steps
<1>3. PICK r2 : r2 = [r1 EXCEPT !.job = "reindex"]
  OBVIOUS
<1>4. Kept(r2) /\ r2.job = "reindex"
  BY <1>2, <1>3 DEF WorkerRecord, Jobs
<1>5. PICK r3 : r3 = [r2 EXCEPT !.from = from]
  OBVIOUS
<1>6. Kept(r3) /\ r3.job = "reindex"
  BY <1>4, <1>5 DEF WorkerRecord
<1>7. PICK r4 : r4 = [r3 EXCEPT !.to = to]
  OBVIOUS
<1>8. Kept(r4) /\ r4.job = "reindex"
  BY <1>6, <1>7 DEF WorkerRecord
<1>9. PICK r5 : r5 = [r4 EXCEPT !.until = until]
  OBVIOUS
<1>10. Kept(r5) /\ r5.job = "reindex"
  BY <1>8, <1>9 DEF WorkerRecord
<1>11. r5 = Reindexing(from, to, until)
  BY <1>1, <1>3, <1>5, <1>7, <1>9, Zenon DEF Reindexing
<1> QED BY <1>10, <1>11

Reprocessing(e) == [Idle EXCEPT !.pc = "store", !.job = "reprocess", !.batch = {e}]

LEMMA ReprocessingRecord ==
    ASSUME NEW e \in Events
    PROVE  /\ Reprocessing(e) \in WorkerRecord /\ Reprocessing(e).pc = "store"
           /\ Reprocessing(e).job = "reprocess" /\ Reprocessing(e).inserted = <<>>
<1>1. PICK r1 : r1 = [Idle EXCEPT !.pc = "store"]
  OBVIOUS
<1>2. r1 \in WorkerRecord /\ r1.pc = "store" /\ r1.inserted = <<>>
  BY <1>1, IdleWorker DEF WorkerRecord, Steps
<1>3. PICK r2 : r2 = [r1 EXCEPT !.job = "reprocess"]
  OBVIOUS
<1>4. r2 \in WorkerRecord /\ r2.pc = "store" /\ r2.inserted = <<>> /\ r2.job = "reprocess"
  BY <1>2, <1>3 DEF WorkerRecord, Jobs
<1>5. PICK r3 : r3 = [r2 EXCEPT !.batch = {e}]
  OBVIOUS
<1>6. r3 \in WorkerRecord /\ r3.pc = "store" /\ r3.inserted = <<>> /\ r3.job = "reprocess"
  BY <1>4, <1>5 DEF WorkerRecord
<1>7. r3 = Reprocessing(e)
  BY <1>1, <1>3, <1>5, Zenon DEF Reprocessing
<1> QED BY <1>6, <1>7

SameChunk(n, r) ==
    n.job = r.job /\ n.contract = r.contract /\ n.from = r.from /\ n.to = r.to

Moved(r, step) == [r EXCEPT !.pc = step]

LEMMA MovedRecord ==
    ASSUME NEW r \in WorkerRecord, NEW step \in Steps
    PROVE  /\ Moved(r, step) \in WorkerRecord /\ Moved(r, step).pc = step
           /\ SameChunk(Moved(r, step), r)
           /\ Moved(r, step).batch = r.batch /\ Moved(r, step).inserted = r.inserted
BY DEF Moved, WorkerRecord, SameChunk, Steps

Holding(r, batch) == [r EXCEPT !.pc = "store", !.batch = batch]

LEMMA HoldingRecord ==
    ASSUME NEW r \in WorkerRecord, NEW batch \in SUBSET Events
    PROVE  /\ Holding(r, batch) \in WorkerRecord /\ Holding(r, batch).pc = "store"
           /\ SameChunk(Holding(r, batch), r)
           /\ Holding(r, batch).batch = batch /\ Holding(r, batch).inserted = r.inserted
<1>1. PICK n : n = Moved(r, "store")
  OBVIOUS
<1>2. n \in WorkerRecord /\ n.pc = "store" /\ SameChunk(n, r) /\ n.inserted = r.inserted
  BY <1>1, MovedRecord DEF Steps
<1>3. PICK m : m = [n EXCEPT !.batch = batch]
  OBVIOUS
<1>4. m \in WorkerRecord /\ m.pc = "store" /\ SameChunk(m, r) /\ m.inserted = r.inserted
      /\ m.batch = batch
  BY <1>2, <1>3 DEF WorkerRecord, SameChunk
<1>5. m = Holding(r, batch)
  BY <1>1, <1>3, Zenon DEF Holding, Moved
<1> QED BY <1>4, <1>5

Pushed(r, seq) == [r EXCEPT !.pc = "dispatch", !.inserted = seq]

LEMMA PushedRecord ==
    ASSUME NEW r \in WorkerRecord, NEW seq \in Seq(Events)
    PROVE  /\ Pushed(r, seq) \in WorkerRecord /\ Pushed(r, seq).pc = "dispatch"
           /\ SameChunk(Pushed(r, seq), r)
           /\ Pushed(r, seq).batch = r.batch /\ Pushed(r, seq).inserted = seq
<1>1. PICK n : n = Moved(r, "dispatch")
  OBVIOUS
<1>2. n \in WorkerRecord /\ n.pc = "dispatch" /\ SameChunk(n, r) /\ n.batch = r.batch
  BY <1>1, MovedRecord DEF Steps
<1>3. PICK m : m = [n EXCEPT !.inserted = seq]
  OBVIOUS
<1>4. m \in WorkerRecord /\ m.pc = "dispatch" /\ SameChunk(m, r) /\ m.batch = r.batch
      /\ m.inserted = seq
  BY <1>2, <1>3 DEF WorkerRecord, SameChunk
<1>5. m = Pushed(r, seq)
  BY <1>1, <1>3, Zenon DEF Pushed, Moved
<1> QED BY <1>4, <1>5

Left(r, seq) == [r EXCEPT !.inserted = seq]

LEMMA LeftRecord ==
    ASSUME NEW r \in WorkerRecord, NEW seq \in Seq(Events)
    PROVE  /\ Left(r, seq) \in WorkerRecord /\ Left(r, seq).pc = r.pc
           /\ SameChunk(Left(r, seq), r)
           /\ Left(r, seq).batch = r.batch /\ Left(r, seq).inserted = seq
BY DEF Left, WorkerRecord, SameChunk

Retried(r, seq) == [r EXCEPT !.attempt = r.attempt + 1, !.inserted = seq]

LEMMA RetriedRecord ==
    ASSUME NEW r \in WorkerRecord, NEW seq \in Seq(Events)
    PROVE  /\ Retried(r, seq) \in WorkerRecord /\ Retried(r, seq).pc = r.pc
           /\ SameChunk(Retried(r, seq), r)
           /\ Retried(r, seq).batch = r.batch /\ Retried(r, seq).inserted = seq
<1>1. PICK n : n = [r EXCEPT !.attempt = r.attempt + 1]
  OBVIOUS
<1>2. n \in WorkerRecord /\ n.pc = r.pc /\ SameChunk(n, r) /\ n.batch = r.batch
  BY <1>1, SMTT(30) DEF WorkerRecord, SameChunk
<1>3. PICK m : m = Left(n, seq)
  OBVIOUS
<1>4. m \in WorkerRecord /\ m.pc = r.pc /\ SameChunk(m, r) /\ m.batch = r.batch
      /\ m.inserted = seq
  BY <1>2, <1>3, LeftRecord DEF SameChunk
<1>5. m = Retried(r, seq)
  BY <1>1, <1>3, Zenon DEF Retried, Left
<1> QED BY <1>4, <1>5

Reading(r, n) == [r EXCEPT !.pc = "record", !.previous = n]

LEMMA ReadingRecord ==
    ASSUME NEW r \in WorkerRecord, NEW last \in Nat \cup {-1}
    PROVE  /\ Reading(r, last) \in WorkerRecord /\ Reading(r, last).pc = "record"
           /\ SameChunk(Reading(r, last), r)
<1>1. PICK n : n = Moved(r, "record")
  OBVIOUS
<1>2. n \in WorkerRecord /\ n.pc = "record" /\ SameChunk(n, r)
  BY <1>1, MovedRecord DEF Steps
<1>3. PICK m : m = [n EXCEPT !.previous = last]
  OBVIOUS
<1>4. m \in WorkerRecord /\ m.pc = "record" /\ SameChunk(m, r)
  BY <1>2, <1>3 DEF WorkerRecord, SameChunk
<1>5. m = Reading(r, last)
  BY <1>1, <1>3, Zenon DEF Reading, Moved
<1> QED BY <1>4, <1>5

(* Where a worker goes after its chunk: a poller to its checkpoint, a      *)
(* reprocessed row out of quarantine, a reindex on or to its end.          *)
LEMMA AfterChunkRecord ==
    ASSUME IndexerTyped, NEW w \in Workers
    PROVE  /\ worker[w].job = "poll" => AfterChunk(w) = Moved(worker[w], "checkpoint")
           /\ worker[w].job = "reprocess" => AfterChunk(w) = Moved(worker[w], "release")
           /\ worker[w].job \notin {"poll", "reprocess"} =>
                  \/ AfterChunk(w) = Idle
                  \/ \E from, to, until \in Nat : AfterChunk(w) = Reindexing(from, to, until)
<1> DEFINE r == worker[w]
           next == r.to + 1
           end == next + LedgersPerChunk - 1
<1>1. r \in WorkerRecord /\ r.to \in Nat /\ r.until \in Nat
  BY DEF IndexerTyped, WorkerRecord
<1>2. next \in Nat /\ end \in Nat /\ (IF end < r.until THEN end ELSE r.until) \in Nat
  BY <1>1, IndexerConstants
<1>3. r.job = "poll" => AfterChunk(w) = Moved(r, "checkpoint")
  BY Zenon DEF AfterChunk, Moved
<1>4. r.job = "reprocess" => AfterChunk(w) = Moved(r, "release")
  <2> SUFFICES ASSUME r.job = "reprocess" PROVE AfterChunk(w) = Moved(r, "release")
    OBVIOUS
  <2>1. r.job # "poll"
    OBVIOUS
  <2> QED BY <2>1, Zenon DEF AfterChunk, Moved
<1>5. r.job \notin {"poll", "reprocess"} =>
          AfterChunk(w) = IF next > r.until THEN Idle
                          ELSE Reindexing(next, IF end < r.until THEN end ELSE r.until, r.until)
  <2> SUFFICES ASSUME r.job # "poll", r.job # "reprocess"
               PROVE  AfterChunk(w) = IF next > r.until THEN Idle
                          ELSE Reindexing(next, IF end < r.until THEN end ELSE r.until, r.until)
    OBVIOUS
  <2> QED BY Zenon DEF AfterChunk, Reindexing
<1> HIDE DEF next, end
<1> QED BY <1>1, <1>2, <1>3, <1>4, <1>5

------------------------------------------------------------------------------
(* Steps.                                                                  *)

(* One worker moves, the tables gain, the cursors stay.                    *)
LEMMA WorkerMoves ==
    ASSUME IndexerInv, Gains, stored' \subseteq Events, quarantined' \subseteq Events,
           NEW w \in Workers, NEW r \in WorkerRecord, Become(w, r), WorkerSound(r)'
    PROVE  IndexerTyped' /\ (\A v \in Workers : WorkerSound(worker[v]))'
<1>1. /\ worker' \in [Workers -> WorkerRecord]
      /\ \A v \in Workers : worker'[v] = IF v = w THEN r ELSE worker[v]
  BY DEF IndexerInv, IndexerTyped, Become
<1>2. IndexerTyped'
  BY <1>1 DEF IndexerTyped, Gains
<1>3. ASSUME NEW v \in Workers PROVE WorkerSound(worker[v])'
  <2>1. CASE v = w
    <3>1. worker'[v] = r
      BY <1>1, <2>1
    <3> QED BY <3>1 DEF WorkerSound, ChunkFollowsCursor, ChunkAccounted, PushedIsStored, ChunkRecorded
  <2>2. CASE v # w
    <3>1. PICK q : q = worker[v]
      OBVIOUS
    <3>2. q \in WorkerRecord /\ WorkerSound(q)
      BY <3>1 DEF IndexerInv, IndexerTyped
    <3>3. WorkerSound(q)'
      BY <3>2, WorkerKept DEF IndexerInv
    <3>4. worker'[v] = q
      BY <1>1, <2>2, <3>1
    <3> QED BY <3>3, <3>4 DEF WorkerSound, ChunkFollowsCursor, ChunkAccounted, PushedIsStored, ChunkRecorded
  <2> QED BY <2>1, <2>2
<1> QED BY <1>2, <1>3

LEMMA TablesKept ==
    ASSUME IndexerInv, Gains, UNCHANGED <<cursor, checkpoints>>
    PROVE  EventsAccounted' /\ CheckpointsContiguous' /\ TablesBehindChain'
<1>1. EventsAccounted' /\ CheckpointsContiguous'
  BY DEF IndexerInv, Gains, EventsAccounted, CheckpointsContiguous
<1>2. TablesBehindChain'
  BY DEF IndexerInv, IndexerTyped, Gains, TablesBehindChain
<1> QED BY <1>1, <1>2

LEMMA EffectsKept ==
    ASSUME IndexerInv, Gains, UNCHANGED <<dispatched, applied>>
    PROVE  NoEffectBefore'
BY DEF IndexerInv, Gains, NoEffectBefore

LEMMA QuietGains ==
    ASSUME IndexerInv, UNCHANGED database, latest' \in Nat, latest <= latest'
    PROVE  Gains /\ stored' \subseteq Events /\ quarantined' \subseteq Events
           /\ UNCHANGED <<cursor, checkpoints>>
BY DEF IndexerInv, IndexerTyped, database, Gains, HasRow, Accounted, SameRow

(* A worker moves and nothing else happens to the tables or the chain.     *)
LEMMA QuietMove ==
    ASSUME IndexerInv, UNCHANGED <<latest, database, dispatched, applied>>,
           NEW w \in Workers, NEW r \in WorkerRecord, Become(w, r), WorkerSound(r)
    PROVE  IndexerInv'
<1>1. Gains /\ stored' \subseteq Events /\ quarantined' \subseteq Events
      /\ UNCHANGED <<cursor, checkpoints>>
  BY QuietGains DEF IndexerInv, IndexerTyped
<1>2. WorkerSound(r)'
  BY <1>1, WorkerKept DEF IndexerInv
<1>3. IndexerTyped' /\ (\A v \in Workers : WorkerSound(worker[v]))'
  BY <1>1, <1>2, WorkerMoves
<1>4. EventsAccounted' /\ CheckpointsContiguous' /\ TablesBehindChain' /\ NoEffectBefore'
  BY <1>1, TablesKept, EffectsKept
<1> QED BY <1>3, <1>4 DEF IndexerInv

(* A worker that stands where none of its obligations apply.               *)
LEMMA BeginsSound ==
    ASSUME NEW r, r.pc \in {"idle", "fetch"} \/ (r.pc = "store" /\ r.job = "reprocess"),
           r.inserted = <<>>, r.pc = "fetch" => r.job # "reprocess",
           r.job = "poll" => r.to <= latest /\ r.from <= cursor[r.contract] + 1
    PROVE  WorkerSound(r)
BY DEF WorkerSound, ChunkFollowsCursor, ChunkAccounted, PushedIsStored, ChunkRecorded

LEMMA BeginStep ==
    ASSUME IndexerInv, NEW w \in Workers,
           \/ \E c \in Contracts : BeginPoll(w, c)
           \/ \E from, until \in 1..MaxLedger : BeginReindex(w, from, until)
           \/ \E e \in Events : BeginReprocess(w, e)
           \/ Fail(w)
    PROVE  IndexerInv'
<1>1. ASSUME NEW c \in Contracts, BeginPoll(w, c) PROVE IndexerInv'
  <2> DEFINE from == cursor[c] + 1
             end == from + LedgersPerChunk - 1
             to == IF end < latest THEN end ELSE latest
  <2>1. Become(w, Polling(c, from, to)) /\ UNCHANGED <<latest, database, dispatched, applied>>
    BY <1>1, Zenon DEF BeginPoll, Polling
  <2>2. from \in Nat /\ to \in Nat /\ to <= latest /\ from <= cursor[c] + 1
    BY IndexerConstants DEF IndexerInv, IndexerTyped
  <2> HIDE DEF from, to
  <2>3. PICK r : r = Polling(c, from, to)
    OBVIOUS
  <2>4. r \in WorkerRecord /\ WorkerSound(r)
    BY <2>2, <2>3, PollingRecord, BeginsSound
  <2> QED BY <2>1, <2>3, <2>4, QuietMove
<1>2. ASSUME NEW from \in 1..MaxLedger, NEW until \in 1..MaxLedger, BeginReindex(w, from, until)
      PROVE  IndexerInv'
  <2> DEFINE end == from + LedgersPerChunk - 1
             to == IF end < until THEN end ELSE until
  <2>1. Become(w, Reindexing(from, to, until)) /\ UNCHANGED <<latest, database, dispatched, applied>>
    BY <1>2, Zenon DEF BeginReindex, Reindexing
  <2>2. from \in Nat /\ to \in Nat /\ until \in Nat
    BY IndexerConstants
  <2> HIDE DEF to
  <2>3. PICK r : r = Reindexing(from, to, until)
    OBVIOUS
  <2>4. r \in WorkerRecord /\ WorkerSound(r)
    BY <2>2, <2>3, ReindexingRecord, BeginsSound
  <2> QED BY <2>1, <2>3, <2>4, QuietMove
<1>3. ASSUME NEW e \in Events, BeginReprocess(w, e) PROVE IndexerInv'
  <2>1. Become(w, Reprocessing(e)) /\ UNCHANGED <<latest, database, dispatched, applied>>
    BY <1>3, Zenon DEF BeginReprocess, Reprocessing
  <2>2. PICK r : r = Reprocessing(e)
    OBVIOUS
  <2>3. r \in WorkerRecord /\ WorkerSound(r)
    BY <2>2, ReprocessingRecord, BeginsSound
  <2> QED BY <2>1, <2>2, <2>3, QuietMove
<1>4. ASSUME Fail(w) PROVE IndexerInv'
  BY <1>4, IdleWorker, QuietMove DEF Fail
<1> QED BY <1>1, <1>2, <1>3, <1>4

(* A chunk that is done with, seen from the tables after the step.         *)
LEMMA AfterChunkSound ==
    ASSUME IndexerInv, Gains, NEW w \in Workers,
           worker[w].job = "poll" =>
               \A e \in Events :
                   EventContract[e] = worker[w].contract
                   /\ EventLedger[e] \in worker[w].from .. worker[w].to => Accounted(e)',
           worker[w].job = "reprocess" => \A e \in worker[w].batch : HasRow(e)'
    PROVE  \E r \in WorkerRecord : r = AfterChunk(w) /\ WorkerSound(r)'
<1>1. PICK q \in WorkerRecord : q = worker[w]
  BY DEF IndexerInv, IndexerTyped
<1>2. WorkerSound(q)
  BY <1>1 DEF IndexerInv
<1>3. ChunkFollowsCursor(q)'
  BY <1>2, WorkerKept DEF IndexerInv, WorkerSound
<1>4. CASE q.job = "poll"
  <2>1. PICK r : r = Moved(q, "checkpoint")
    OBVIOUS
  <2>2. r \in WorkerRecord /\ r.pc = "checkpoint" /\ SameChunk(r, q)
    BY <2>1, MovedRecord DEF Steps
  <2>3. ChunkFollowsCursor(r)'
    BY <1>3, <1>4, <2>2 DEF ChunkFollowsCursor, SameChunk
  <2>4. ChunkAccounted(r)'
    BY <1>1, <1>4, <2>2 DEF ChunkAccounted, SameChunk
  <2>5. PushedIsStored(r)' /\ ChunkRecorded(r)'
    BY <2>2 DEF PushedIsStored, ChunkRecorded
  <2>6. r = AfterChunk(w)
    BY <1>1, <1>4, <2>1, AfterChunkRecord DEF IndexerInv
  <2> QED BY <2>2, <2>3, <2>4, <2>5, <2>6 DEF WorkerSound
<1>5. CASE q.job = "reprocess"
  <2>1. PICK r : r = Moved(q, "release")
    OBVIOUS
  <2>2. r \in WorkerRecord /\ r.pc = "release" /\ SameChunk(r, q) /\ r.batch = q.batch
    BY <2>1, MovedRecord DEF Steps
  <2>3. ChunkFollowsCursor(r)' /\ ChunkAccounted(r)' /\ ChunkRecorded(r)'
    BY <1>5, <2>2 DEF ChunkFollowsCursor, ChunkAccounted, ChunkRecorded, SameChunk
  <2>4. PushedIsStored(r)'
    BY <1>1, <1>5, <2>2 DEF PushedIsStored
  <2>5. r = AfterChunk(w)
    BY <1>1, <1>5, <2>1, AfterChunkRecord DEF IndexerInv
  <2> QED BY <2>2, <2>3, <2>4, <2>5 DEF WorkerSound
<1>6. CASE q.job \notin {"poll", "reprocess"}
  <2>1. \/ AfterChunk(w) = Idle
        \/ \E from, to, until \in Nat : AfterChunk(w) = Reindexing(from, to, until)
    BY <1>1, <1>6, AfterChunkRecord DEF IndexerInv
  <2>2. PICK r : r = AfterChunk(w)
    OBVIOUS
  <2>3. /\ r \in WorkerRecord /\ r.pc \in {"idle", "fetch"} /\ r.job \in {"none", "reindex"}
        /\ r.inserted = <<>>
    BY <2>1, <2>2, IdleWorker, ReindexingRecord
  <2>4. WorkerSound(r)
    BY <2>3, BeginsSound
  <2>5. WorkerSound(r)'
    BY <2>3, <2>4, WorkerKept DEF IndexerInv
  <2> QED BY <2>2, <2>3, <2>5
<1> QED BY <1>4, <1>5, <1>6

LEMMA FetchStep ==
    ASSUME IndexerInv, NEW w \in Workers, Fetch(w)
    PROVE  IndexerInv'
<1> DEFINE spanned == InChunk(w)
           good == Parsed(spanned)
           bad == spanned \cap Typed \cap Unparsed
<1>1. PICK q \in WorkerRecord : q = worker[w]
  BY DEF IndexerInv, IndexerTyped
<1>2. /\ q.pc = "fetch" /\ WorkerSound(q)
      /\ UNCHANGED <<latest, stored, cursor, checkpoints, dispatched, applied>>
  BY <1>1 DEF Fetch, IndexerInv
<1>3. /\ Become(w, IF good = {} THEN AfterChunk(w) ELSE Holding(q, good))
      /\ quarantineEvent(bad)
  BY <1>1, Zenon DEF Fetch, Holding
<1>4. PICK missed \in SUBSET bad :
          /\ quarantined' = quarantined \cup (bad \ missed)
          /\ unrecorded' = unrecorded \cup (missed \ quarantined)
  BY <1>3 DEF quarantineEvent
<1>5. spanned \subseteq Events /\ good \subseteq Events /\ bad \subseteq Events
  BY DEF InChunk, Parsed
<1>6. Gains /\ stored' \subseteq Events /\ quarantined' \subseteq Events
  <2>1. \A e \in Events : HasRow(e) => HasRow(e)'
    BY <1>2 DEF HasRow, SameRow
  <2>2. \A e \in Events : Accounted(e) => Accounted(e)'
    BY <1>4, <2>1 DEF Accounted
  <2> QED BY <1>2, <1>4, <1>5, <2>1, <2>2 DEF Gains, IndexerInv, IndexerTyped
<1>7. \A e \in spanned : e \in good \/ Accounted(e)'
  BY <1>4, <1>5 DEF Parsed, Typed, Accounted
<1>8. q.job = "poll" =>
          \A e \in Events : EventContract[e] = q.contract /\ EventLedger[e] \in q.from .. q.to =>
              e \in spanned
  <2> SUFFICES ASSUME q.job = "poll", NEW e \in Events, EventContract[e] = q.contract,
                      EventLedger[e] \in q.from .. q.to
               PROVE  e \in spanned
    OBVIOUS
  <2>1. q.to \in Nat /\ q.from \in Nat /\ latest \in Nat /\ q.to <= latest
    BY <1>2 DEF WorkerRecord, IndexerInv, IndexerTyped, WorkerSound, ChunkFollowsCursor
  <2>2. EventLedger[e] \in Nat
    BY IndexerConstants
  <2>3. EventLedger[e] <= latest
    BY <2>1, <2>2
  <2> QED BY <1>1, <2>3 DEF InChunk
<1> HIDE DEF spanned, good, bad
<1>9. PICK r \in WorkerRecord : Become(w, r) /\ WorkerSound(r)'
  <2>1. CASE good = {}
    <3>1. q.job = "poll" =>
              \A e \in Events : EventContract[e] = q.contract /\ EventLedger[e] \in q.from .. q.to =>
                  Accounted(e)'
      BY <1>7, <1>8, <2>1
    <3>2. q.job # "reprocess"
      BY <1>2 DEF WorkerSound, PushedIsStored
    <3>3. PICK r \in WorkerRecord : r = AfterChunk(w) /\ WorkerSound(r)'
      BY <1>1, <1>6, <3>1, <3>2, AfterChunkSound
    <3> QED BY <1>3, <2>1, <3>3
  <2>2. CASE good # {}
    <3>1. PICK r : r = Holding(q, good)
      OBVIOUS
    <3>2. /\ r \in WorkerRecord /\ r.pc = "store" /\ SameChunk(r, q)
          /\ r.batch = good /\ r.inserted = q.inserted
      BY <1>5, <3>1, HoldingRecord
    <3>3. ChunkFollowsCursor(q)'
      BY <1>2, <1>6, WorkerKept DEF IndexerInv, WorkerSound
    <3>4. ChunkFollowsCursor(r)' /\ ChunkRecorded(r)'
      BY <3>2, <3>3 DEF ChunkFollowsCursor, ChunkRecorded, SameChunk
    <3>5. ChunkAccounted(r)'
      BY <1>7, <1>8, <3>2 DEF ChunkAccounted, SameChunk
    <3>6. PushedIsStored(r)'
      BY <1>2, <3>2 DEF WorkerSound, PushedIsStored
    <3>7. Become(w, r)
      BY <1>3, <2>2, <3>1
    <3> QED BY <3>2, <3>4, <3>5, <3>6, <3>7 DEF WorkerSound
  <2> QED BY <2>1, <2>2
<1>10. IndexerTyped' /\ (\A v \in Workers : WorkerSound(worker[v]))'
  BY <1>6, <1>9, WorkerMoves
<1>11. EventsAccounted' /\ CheckpointsContiguous' /\ TablesBehindChain' /\ NoEffectBefore'
  BY <1>2, <1>6, TablesKept, EffectsKept
<1> QED BY <1>10, <1>11 DEF IndexerInv

LEMMA ConcatenationOf ==
    ASSUME NEW s \in Seq(Events), NEW t \in Seq(Events), NEW batch,
           \A i \in DOMAIN s : s[i] \in batch, \A i \in DOMAIN t : t[i] \in batch
    PROVE  s \o t \in Seq(Events) /\ \A i \in DOMAIN (s \o t) : (s \o t)[i] \in batch
OBVIOUS

(* An event that was not pushed is not counted.                            *)
LEMMA NotPushedNotCounted ==
    ASSUME NEW seq, NEW e, \A i \in DOMAIN seq : seq[i] # e
    PROVE  Times(seq, e) = 0
<1>1. {i \in DOMAIN seq : seq[i] = e} = {}
  OBVIOUS
<1> QED BY <1>1, FS_EmptySet DEF Times

LEMMA CommitStep ==
    ASSUME IndexerInv, NEW w \in Workers, Commit(w)
    PROVE  IndexerInv'
<1>1. PICK q \in WorkerRecord : q = worker[w]
  BY DEF IndexerInv, IndexerTyped
<1> DEFINE fresh == Fresh(q.batch)
           inserted == q.inserted \o InOrder(fresh)
<1>2. /\ q.pc = "store" /\ WorkerSound(q) /\ q.batch \subseteq Events /\ q.inserted \in Seq(Events)
      /\ UNCHANGED <<latest, quarantined, unrecorded, cursor, checkpoints, dispatched>>
  BY <1>1 DEF Commit, IndexerInv, WorkerRecord
<1>3. /\ stored' = stored \cup fresh
      /\ applied' = [e \in Events |-> applied[e] + (IF Scoring(e) THEN Times(inserted, e) ELSE 0)]
      /\ Become(w, Pushed(q, inserted))
  BY <1>1, Zenon DEF Commit, Pushed
<1>4. fresh \subseteq q.batch /\ fresh \subseteq Events
  BY <1>2 DEF Fresh
<1>5. inserted \in Seq(Events) /\ \A i \in DOMAIN inserted : inserted[i] \in q.batch
  <2>1. \A i \in DOMAIN q.inserted : q.inserted[i] \in q.batch
    BY <1>2 DEF WorkerSound, PushedIsStored
  <2>2. InOrder(fresh) \in Seq(Events) /\ \A i \in DOMAIN InOrder(fresh) : InOrder(fresh)[i] \in q.batch
    BY <1>4, InOrderType
  <2> HIDE DEF fresh
  <2> QED BY <1>2, <2>1, <2>2, ConcatenationOf
<1>6. \A e \in q.batch : HasRow(e)'
  BY <1>2, <1>3, BatchStored DEF HasRow, SameRow, IndexerInv, IndexerTyped
<1>7. Gains /\ stored' \subseteq Events /\ quarantined' \subseteq Events
  <2>1. \A e \in Events : HasRow(e) => HasRow(e)'
    BY <1>3 DEF HasRow, SameRow
  <2>2. \A e \in Events : Accounted(e) => Accounted(e)'
    BY <1>2, <2>1 DEF Accounted
  <2> QED BY <1>2, <1>3, <1>4, <2>1, <2>2 DEF Gains, IndexerInv, IndexerTyped
<1> HIDE DEF fresh, inserted
<1>8. PICK r \in WorkerRecord : Become(w, r) /\ WorkerSound(r)'
  <2>1. PICK r : r = Pushed(q, inserted)
    OBVIOUS
  <2>2. /\ r \in WorkerRecord /\ r.pc = "dispatch" /\ SameChunk(r, q)
        /\ r.batch = q.batch /\ r.inserted = inserted
    BY <1>5, <2>1, PushedRecord
  <2>3. WorkerSound(q)'
    BY <1>2, <1>7, WorkerKept DEF IndexerInv
  <2>4. ChunkFollowsCursor(r)' /\ ChunkRecorded(r)'
    BY <2>2, <2>3 DEF WorkerSound, ChunkFollowsCursor, ChunkRecorded, SameChunk
  <2>5. ChunkAccounted(r)'
    <3>1. \A e \in Events : e \in q.batch => Accounted(e)'
      BY <1>6 DEF Accounted
    <3> QED BY <1>2, <2>2, <2>3, <3>1 DEF WorkerSound, ChunkAccounted, SameChunk
  <2>6. PushedIsStored(r)'
    BY <1>5, <1>6, <2>2 DEF PushedIsStored
  <2> QED BY <1>3, <2>1, <2>2, <2>4, <2>5, <2>6 DEF WorkerSound
<1>9. NoEffectBefore'
  <2> SUFFICES ASSUME NEW e \in Events, ~HasRow(e)' PROVE dispatched'[e] = 0 /\ applied'[e] = 0
    BY <1>2 DEF NoEffectBefore, IndexerInv
  <2>1. ~HasRow(e)
    BY <1>7 DEF Gains
  <2>2. dispatched[e] = 0 /\ applied[e] = 0
    BY <2>1 DEF IndexerInv, NoEffectBefore
  <2>3. Times(inserted, e) = 0
    BY <1>5, <1>6, NotPushedNotCounted
  <2> QED BY <1>2, <1>3, <2>2, <2>3
<1>10. IndexerTyped' /\ (\A v \in Workers : WorkerSound(worker[v]))'
  BY <1>7, <1>8, WorkerMoves
<1>11. EventsAccounted' /\ CheckpointsContiguous' /\ TablesBehindChain'
  BY <1>2, <1>7, TablesKept
<1> QED BY <1>9, <1>10, <1>11 DEF IndexerInv

LEMMA RetryStep ==
    ASSUME IndexerInv, NEW w \in Workers, RetryTransaction(w)
    PROVE  IndexerInv'
<1>1. PICK q \in WorkerRecord : q = worker[w]
  BY DEF IndexerInv, IndexerTyped
<1>2. PICK upto : Become(w, [q EXCEPT
                      !.attempt = @ + 1,
                      !.inserted = @ \o InOrder({e \in Fresh(q.batch) : e <= upto})])
  BY <1>1, Zenon DEF RetryTransaction
<1> DEFINE pushed == {e \in Fresh(q.batch) : e <= upto}
           inserted == q.inserted \o InOrder(pushed)
<1>3. Become(w, Retried(q, inserted))
  BY <1>2, Zenon DEF Retried
<1>4. /\ q.pc = "store" /\ WorkerSound(q) /\ q.batch \subseteq Events /\ q.inserted \in Seq(Events)
      /\ UNCHANGED <<latest, database, dispatched, applied>>
  BY <1>1 DEF RetryTransaction, IndexerInv, WorkerRecord
<1>5. inserted \in Seq(Events) /\ \A i \in DOMAIN inserted : inserted[i] \in q.batch
  <2>1. pushed \subseteq q.batch /\ pushed \subseteq Events
    BY <1>4 DEF Fresh
  <2>2. \A i \in DOMAIN q.inserted : q.inserted[i] \in q.batch
    BY <1>4 DEF WorkerSound, PushedIsStored
  <2>3. InOrder(pushed) \in Seq(Events)
        /\ \A i \in DOMAIN InOrder(pushed) : InOrder(pushed)[i] \in q.batch
    BY <2>1, InOrderType
  <2> HIDE DEF pushed
  <2> QED BY <1>4, <2>2, <2>3, ConcatenationOf
<1> HIDE DEF inserted
<1>6. PICK r : r = Retried(q, inserted)
  OBVIOUS
<1>7. /\ r \in WorkerRecord /\ r.pc = "store" /\ SameChunk(r, q)
      /\ r.batch = q.batch /\ r.inserted = inserted
  BY <1>4, <1>5, <1>6, RetriedRecord
<1>8. WorkerSound(r)
  BY <1>4, <1>5, <1>7
  DEF WorkerSound, ChunkFollowsCursor, ChunkAccounted, PushedIsStored, ChunkRecorded, SameChunk
<1> QED BY <1>3, <1>4, <1>6, <1>7, <1>8, QuietMove

LEMMA DispatchStep ==
    ASSUME IndexerInv, NEW w \in Workers, Dispatch(w)
    PROVE  IndexerInv'
<1>1. PICK q \in WorkerRecord : q = worker[w]
  BY DEF IndexerInv, IndexerTyped
<1> DEFINE head == Head(q.inserted)
           rest == Tail(q.inserted)
<1>2. /\ q.pc = "dispatch" /\ q.inserted # <<>>
      /\ dispatched' = [dispatched EXCEPT ![head] = @ + 1]
      /\ UNCHANGED <<latest, stored, quarantined, unrecorded, cursor, checkpoints, applied>>
  BY <1>1 DEF Dispatch
<1>3. Become(w, Left(q, rest)) \/ Become(w, Idle)
  BY <1>1, Zenon DEF Dispatch, Left
<1>4. WorkerSound(q) /\ q.inserted \in Seq(Events)
  BY <1>1 DEF IndexerInv, WorkerRecord
<1>5. /\ rest \in Seq(Events) /\ \A i \in DOMAIN rest : rest[i] \in q.batch
      /\ head \in Events /\ head \in q.batch
  BY <1>2, <1>4 DEF WorkerSound, PushedIsStored
<1>6. HasRow(head)
  BY <1>2, <1>4, <1>5 DEF WorkerSound, PushedIsStored
<1> HIDE DEF head, rest
<1>7. Gains /\ stored' \subseteq Events /\ quarantined' \subseteq Events
  BY <1>2 DEF Gains, HasRow, Accounted, SameRow, IndexerInv, IndexerTyped
<1>8. PICK r \in WorkerRecord : Become(w, r) /\ WorkerSound(r)
  <2>1. CASE Become(w, Idle)
    BY <2>1, IdleWorker
  <2>2. CASE Become(w, Left(q, rest))
    <3>1. PICK r : r = Left(q, rest)
      OBVIOUS
    <3>2. /\ r \in WorkerRecord /\ r.pc = "dispatch" /\ SameChunk(r, q)
          /\ r.batch = q.batch /\ r.inserted = rest
      BY <1>2, <1>5, <3>1, LeftRecord
    <3>3. WorkerSound(r)
      BY <1>2, <1>4, <1>5, <3>2
      DEF WorkerSound, ChunkFollowsCursor, ChunkAccounted, PushedIsStored, ChunkRecorded, SameChunk
    <3> QED BY <2>2, <3>1, <3>2, <3>3
  <2> QED BY <1>3, <2>1, <2>2
<1>9. WorkerSound(r)'
  BY <1>7, <1>8, WorkerKept DEF IndexerInv
<1>10. IndexerTyped' /\ (\A v \in Workers : WorkerSound(worker[v]))'
  BY <1>7, <1>8, <1>9, WorkerMoves
<1>11. EventsAccounted' /\ CheckpointsContiguous' /\ TablesBehindChain'
  BY <1>2, <1>7, TablesKept
<1>12. NoEffectBefore'
  <2>1. DOMAIN dispatched' = Events
    BY <1>2 DEF IndexerInv, NoEffectBefore
  <2>2. ASSUME NEW e \in Events, ~HasRow(e)' PROVE dispatched'[e] = 0 /\ applied'[e] = 0
    <3>1. ~HasRow(e)
      BY <1>7, <2>2 DEF Gains
    <3>2. e # head
      BY <1>6, <3>1
    <3> QED BY <1>2, <3>1, <3>2 DEF IndexerInv, NoEffectBefore
  <2> QED BY <2>1, <2>2 DEF NoEffectBefore
<1> QED BY <1>10, <1>11, <1>12 DEF IndexerInv

LEMMA EndDispatchStep ==
    ASSUME IndexerInv, NEW w \in Workers, EndDispatch(w)
    PROVE  IndexerInv'
<1>1. PICK q \in WorkerRecord : q = worker[w]
  BY DEF IndexerInv, IndexerTyped
<1>2. /\ q.pc = "dispatch" /\ WorkerSound(q) /\ Become(w, AfterChunk(w))
      /\ UNCHANGED <<latest, database, dispatched, applied>>
  BY <1>1 DEF EndDispatch, IndexerInv
<1>3. Gains /\ stored' \subseteq Events /\ quarantined' \subseteq Events
      /\ UNCHANGED <<cursor, checkpoints>>
  BY <1>2, QuietGains DEF IndexerInv, IndexerTyped
<1>4. \A e \in q.batch : HasRow(e)'
  BY <1>2, <1>3 DEF WorkerSound, PushedIsStored, Gains, WorkerRecord
<1>5. q.job = "poll" =>
          \A e \in Events : EventContract[e] = q.contract /\ EventLedger[e] \in q.from .. q.to =>
              Accounted(e)'
  BY <1>2, <1>3 DEF WorkerSound, ChunkAccounted, Gains
<1>6. PICK r \in WorkerRecord : r = AfterChunk(w) /\ WorkerSound(r)'
  BY <1>1, <1>3, <1>4, <1>5, AfterChunkSound
<1>7. IndexerTyped' /\ (\A v \in Workers : WorkerSound(worker[v]))'
  BY <1>2, <1>3, <1>6, WorkerMoves
<1>8. EventsAccounted' /\ CheckpointsContiguous' /\ TablesBehindChain' /\ NoEffectBefore'
  BY <1>2, <1>3, TablesKept, EffectsKept
<1> QED BY <1>7, <1>8 DEF IndexerInv

(* The row leaves quarantine when the event has a row of its key.          *)
LEMMA ReleaseStep ==
    ASSUME IndexerInv, NEW w \in Workers, ReleaseQuarantined(w)
    PROVE  IndexerInv'
<1>1. /\ worker[w].pc = "release" /\ Become(w, Idle)
      /\ quarantined' = quarantined \ worker[w].batch
      /\ UNCHANGED <<latest, stored, unrecorded, cursor, checkpoints, dispatched, applied>>
  BY DEF ReleaseQuarantined
<1>2. \A e \in worker[w].batch : HasRow(e)
  BY <1>1 DEF IndexerInv, WorkerSound, PushedIsStored
<1>3. Gains /\ stored' \subseteq Events /\ quarantined' \subseteq Events
  <2>1. \A e \in Events : HasRow(e) => HasRow(e)'
    BY <1>1 DEF HasRow, SameRow
  <2>2. \A e \in Events : Accounted(e) => Accounted(e)'
    BY <1>1, <1>2, <2>1 DEF Accounted
  <2> QED BY <1>1, <2>1, <2>2 DEF Gains, IndexerInv, IndexerTyped
<1>5. PICK r : r = Idle
  OBVIOUS
<1>6. r \in WorkerRecord /\ Become(w, r) /\ WorkerSound(r)
  BY <1>1, <1>5, IdleWorker
<1>7. WorkerSound(r)'
  BY <1>3, <1>6, WorkerKept DEF IndexerInv
<1>8. IndexerTyped' /\ (\A v \in Workers : WorkerSound(worker[v]))'
  BY <1>3, <1>6, <1>7, WorkerMoves
<1>9. EventsAccounted' /\ CheckpointsContiguous' /\ TablesBehindChain' /\ NoEffectBefore'
  BY <1>1, <1>3, TablesKept, EffectsKept
<1> QED BY <1>8, <1>9 DEF IndexerInv

LEMMA ReadCheckpointStep ==
    ASSUME IndexerInv, NEW w \in Workers, ReadCheckpoint(w)
    PROVE  IndexerInv'
<1>1. PICK q \in WorkerRecord : q = worker[w]
  BY DEF IndexerInv, IndexerTyped
<1> DEFINE ends == RangeEnds(q.contract)
           last == IF ends = {} THEN -1 ELSE CHOOSE m \in ends : \A n \in ends : n <= m
<1>2. /\ q.pc = "checkpoint" /\ WorkerSound(q) /\ UNCHANGED <<latest, database, dispatched, applied>>
  BY <1>1 DEF ReadCheckpoint, IndexerInv
<1>3. Become(w, Reading(q, last))
  BY <1>1, Zenon DEF ReadCheckpoint, Reading
<1>4. last \in Nat \cup {-1}
  <2>1. ends \in SUBSET (0 .. latest) /\ latest \in Nat
    BY DEF RangeEnds, IndexerInv, IndexerTyped, TablesBehindChain
  <2> HIDE DEF ends
  <2>2. CASE ends # {}
    <3>1. \E m \in ends : \A n \in ends : n <= m
      BY <2>1, <2>2, GreatestNatural
    <3>2. last \in ends
      BY <2>2, <3>1
    <3> HIDE DEF last
    <3> QED BY <2>1, <3>2
  <2> QED BY <2>2
<1> HIDE DEF last
<1>5. PICK r : r = Reading(q, last)
  OBVIOUS
<1>6. r \in WorkerRecord /\ r.pc = "record" /\ SameChunk(r, q)
  BY <1>4, <1>5, ReadingRecord
<1>7. WorkerSound(r)
  BY <1>2, <1>6
  DEF WorkerSound, ChunkFollowsCursor, ChunkAccounted, PushedIsStored, ChunkRecorded, SameChunk
<1> QED BY <1>2, <1>3, <1>5, <1>6, <1>7, QuietMove

(* The chunk's own range, and a suspect one for a gap before it: both end  *)
(* on the closed chain.                                                    *)
LEMMA RecordStep ==
    ASSUME IndexerInv, NEW w \in Workers, recordCheckpoint(w)
    PROVE  IndexerInv'
<1>1. PICK q \in WorkerRecord : q = worker[w]
  BY DEF IndexerInv, IndexerTyped
<1> DEFINE range(a, b, status) == [contract |-> q.contract, start |-> a, end |-> b, status |-> status]
           gap == IF q.previous # -1 /\ q.from > q.previous + 1
                  THEN {range(q.previous + 1, q.from - 1, "suspect")} ELSE {}
<1>2. /\ q.pc = "record" /\ WorkerSound(q)
      /\ UNCHANGED <<latest, stored, quarantined, unrecorded, cursor, dispatched, applied>>
  BY <1>1 DEF recordCheckpoint, IndexerInv
<1>3. /\ checkpoints' = checkpoints \cup gap \cup {range(q.from, q.to, "verified")}
      /\ Become(w, Moved(q, "advance"))
  BY <1>1, Zenon DEF recordCheckpoint, Moved
<1>4. /\ q.job = "poll" /\ q.from \in Nat /\ q.to \in Nat /\ q.contract \in Contracts
      /\ q.previous \in Nat \cup {-1}
      /\ latest \in Nat /\ cursor[q.contract] \in Nat /\ cursor[q.contract] <= latest
      /\ q.to <= latest /\ q.from <= cursor[q.contract] + 1
  BY <1>2 DEF WorkerSound, ChunkFollowsCursor, WorkerRecord, IndexerInv, IndexerTyped,
              TablesBehindChain
<1>5. \A k \in checkpoints' : k \in checkpoints \/ k.end \in 0 .. latest
  <2>1. range(q.from, q.to, "verified").end \in 0 .. latest
    BY <1>4
  <2>2. \A k \in gap : k.end \in 0 .. latest
    BY <1>4
  <2> HIDE DEF gap, range
  <2> QED BY <1>3, <2>1, <2>2
<1>6. \E k \in checkpoints' : k.contract = q.contract /\ k.start = q.from /\ k.end = q.to
  <2>1. PICK k : k = range(q.from, q.to, "verified")
    OBVIOUS
  <2>2. k.contract = q.contract /\ k.start = q.from /\ k.end = q.to
    BY <2>1
  <2> QED BY <1>3, <2>1, <2>2
<1>7. checkpoints \subseteq checkpoints'
  BY <1>3
<1> HIDE DEF gap, range
<1>8. Gains /\ stored' \subseteq Events /\ quarantined' \subseteq Events
  BY <1>2, <1>7 DEF Gains, HasRow, Accounted, SameRow, IndexerInv, IndexerTyped
<1>9. PICK r : r = Moved(q, "advance")
  OBVIOUS
<1>10. r \in WorkerRecord /\ r.pc = "advance" /\ SameChunk(r, q)
  BY <1>9, MovedRecord DEF Steps
<1>11. WorkerSound(r)'
  <2>1. WorkerSound(q)'
    BY <1>2, <1>8, WorkerKept DEF IndexerInv
  <2>2. ChunkFollowsCursor(r)' /\ ChunkAccounted(r)' /\ PushedIsStored(r)'
    BY <1>2, <1>4, <1>10, <2>1
    DEF WorkerSound, ChunkFollowsCursor, ChunkAccounted, PushedIsStored, SameChunk
  <2>3. ChunkRecorded(r)'
    BY <1>6, <1>10 DEF ChunkRecorded, SameChunk
  <2> QED BY <2>2, <2>3 DEF WorkerSound
<1>12. IndexerTyped' /\ (\A v \in Workers : WorkerSound(worker[v]))'
  BY <1>3, <1>8, <1>9, <1>10, <1>11, WorkerMoves
<1>13. EventsAccounted' /\ CheckpointsContiguous'
  BY <1>2, <1>7, <1>8 DEF IndexerInv, Gains, EventsAccounted, CheckpointsContiguous
<1>14. TablesBehindChain' /\ NoEffectBefore'
  BY <1>2, <1>5, <1>8, EffectsKept DEF IndexerInv, TablesBehindChain
<1> QED BY <1>12, <1>13, <1>14 DEF IndexerInv

(* The cursor moves over a chunk that is accounted for and recorded.       *)
LEMMA AdvanceStep ==
    ASSUME IndexerInv, NEW w \in Workers, updateLastIndexedLedger(w)
    PROVE  IndexerInv'
<1>1. PICK q \in WorkerRecord : q = worker[w]
  BY DEF IndexerInv, IndexerTyped
<1>2. /\ q.pc = "advance" /\ WorkerSound(q) /\ Become(w, Idle)
      /\ UNCHANGED <<latest, stored, quarantined, unrecorded, checkpoints, dispatched, applied>>
      /\ cursor' = [cursor EXCEPT ![q.contract] = IF q.to > @ THEN q.to ELSE @]
  BY <1>1 DEF updateLastIndexedLedger, IndexerInv
<1>3. /\ q.job = "poll" /\ q.from \in Nat /\ q.to \in Nat /\ q.contract \in Contracts
      /\ latest \in Nat /\ cursor \in [Contracts -> Nat]
      /\ q.to <= latest /\ q.from <= cursor[q.contract] + 1
  BY <1>2 DEF WorkerSound, ChunkFollowsCursor, WorkerRecord, IndexerInv, IndexerTyped
<1>4. /\ cursor' \in [Contracts -> Nat]
      /\ \A c \in Contracts : cursor[c] <= cursor'[c]
      /\ \A c \in Contracts : \A l \in Nat :
             l <= cursor'[c] => l <= cursor[c] \/ (c = q.contract /\ l \in q.from .. q.to)
  BY <1>2, <1>3
<1>5. Gains /\ stored' \subseteq Events /\ quarantined' \subseteq Events
  BY <1>2, <1>3, <1>4 DEF Gains, HasRow, Accounted, SameRow, IndexerInv, IndexerTyped
<1>6. PICK r : r = Idle
  OBVIOUS
<1>7. r \in WorkerRecord /\ Become(w, r) /\ WorkerSound(r)
  BY <1>2, <1>6, IdleWorker
<1>8. WorkerSound(r)'
  BY <1>5, <1>7, WorkerKept DEF IndexerInv
<1>9. IndexerTyped' /\ (\A v \in Workers : WorkerSound(worker[v]))'
  BY <1>5, <1>7, <1>8, WorkerMoves
<1>10. EventsAccounted'
  <2> SUFFICES ASSUME NEW e \in Events, EventLedger[e] <= cursor'[EventContract[e]]
               PROVE  Accounted(e)'
    BY DEF EventsAccounted
  <2>1. EventLedger[e] \in Nat /\ EventContract[e] \in Contracts
    BY IndexerConstants
  <2>2. CASE EventLedger[e] <= cursor[EventContract[e]]
    BY <1>5, <2>2 DEF IndexerInv, EventsAccounted, Gains
  <2>3. CASE EventContract[e] = q.contract /\ EventLedger[e] \in q.from .. q.to
    BY <1>2, <1>3, <1>5, <2>3 DEF WorkerSound, ChunkAccounted, Gains
  <2> QED BY <1>4, <2>1, <2>2, <2>3
<1>11. CheckpointsContiguous'
  <2> SUFFICES ASSUME NEW c \in Contracts, NEW l \in 1 .. cursor'[c]
               PROVE  \E k \in checkpoints : k.contract = c /\ l \in k.start .. k.end
    BY <1>2 DEF CheckpointsContiguous
  <2>1. l \in Nat /\ l <= cursor'[c] /\ cursor[c] \in Nat /\ cursor'[c] \in Nat /\ l >= 1
    BY <1>3, <1>4
  <2>2. CASE l <= cursor[c]
    <3>1. l \in 1 .. cursor[c]
      BY <2>1, <2>2
    <3> QED BY <3>1 DEF IndexerInv, CheckpointsContiguous
  <2>3. CASE c = q.contract /\ l \in q.from .. q.to
    BY <1>2, <2>3 DEF WorkerSound, ChunkRecorded
  <2> QED BY <1>4, <2>1, <2>2, <2>3
<1>12. TablesBehindChain' /\ NoEffectBefore'
  <2>1. NoEffectBefore'
    BY <1>2, <1>5, EffectsKept
  <2>2. \A c \in Contracts : cursor'[c] <= latest
    BY <1>2, <1>3 DEF IndexerInv, TablesBehindChain
  <2> QED BY <1>2, <2>1, <2>2 DEF IndexerInv, TablesBehindChain
<1> QED BY <1>9, <1>10, <1>11, <1>12 DEF IndexerInv

(* The chain grows, a process restarts or re-reads the pause flag.         *)
LEMMA ProcessStep ==
    ASSUME IndexerInv,
           CloseLedger \/ (\E p \in IndexerProcesses : RefreshPause(p) \/ Restart(p))
               \/ UNCHANGED indexerVars
    PROVE  IndexerInv'
<1>1. /\ UNCHANGED <<database, dispatched, applied>> /\ latest' \in Nat /\ latest <= latest'
      /\ worker' = worker \/ \E p \in IndexerProcesses :
             worker' = [w \in Workers |-> IF w[1] = p THEN Idle ELSE worker[w]]
  <2>1. latest \in Nat
    BY DEF IndexerInv, IndexerTyped
  <2>2. CASE CloseLedger
    BY <2>1, <2>2 DEF CloseLedger
  <2>3. CASE UNCHANGED indexerVars
    BY <2>1, <2>3 DEF indexerVars
  <2>4. CASE \E p \in IndexerProcesses : RefreshPause(p)
    BY <2>1, <2>4 DEF RefreshPause
  <2>5. CASE \E p \in IndexerProcesses : Restart(p)
    BY <2>1, <2>5 DEF Restart
  <2> QED BY <2>2, <2>3, <2>4, <2>5
<1>2. Gains /\ stored' \subseteq Events /\ quarantined' \subseteq Events
      /\ UNCHANGED <<cursor, checkpoints>>
  BY <1>1, QuietGains
<1>3. /\ worker' \in [Workers -> WorkerRecord]
      /\ \A v \in Workers : worker'[v] = worker[v] \/ worker'[v] = Idle
  BY <1>1, IdleWorker DEF IndexerInv, IndexerTyped
<1>4. IndexerTyped'
  BY <1>2, <1>3 DEF IndexerTyped, Gains
<1>5. ASSUME NEW v \in Workers PROVE WorkerSound(worker[v])'
  <2>1. PICK r : r = worker'[v]
    OBVIOUS
  <2>2. r \in WorkerRecord /\ WorkerSound(r)
    BY <1>3, <2>1, IdleWorker DEF IndexerInv, IndexerTyped
  <2>3. WorkerSound(r)'
    BY <1>2, <2>2, WorkerKept DEF IndexerInv
  <2> QED BY <2>1, <2>3
      DEF WorkerSound, ChunkFollowsCursor, ChunkAccounted, PushedIsStored, ChunkRecorded
<1>6. EventsAccounted' /\ CheckpointsContiguous' /\ TablesBehindChain' /\ NoEffectBefore'
  BY <1>1, <1>2, TablesKept, EffectsKept
<1> QED BY <1>4, <1>5, <1>6 DEF IndexerInv

LEMMA IndexerStep == IndexerInv /\ [IndexerNext]_indexerVars => IndexerInv'
<1> SUFFICES ASSUME IndexerInv, [IndexerNext]_indexerVars PROVE IndexerInv'
  OBVIOUS
<1>1. ASSUME NEW w \in Workers, WorkerNext(w) PROVE IndexerInv'
  <2>1. CASE Fetch(w)
    BY <2>1, FetchStep
  <2>2. CASE Commit(w)
    BY <2>2, CommitStep
  <2>3. CASE Dispatch(w)
    BY <2>3, DispatchStep
  <2>4. CASE EndDispatch(w)
    BY <2>4, EndDispatchStep
  <2>5. CASE ReleaseQuarantined(w)
    BY <2>5, ReleaseStep
  <2>6. CASE ReadCheckpoint(w)
    BY <2>6, ReadCheckpointStep
  <2>7. CASE recordCheckpoint(w)
    BY <2>7, RecordStep
  <2>8. CASE updateLastIndexedLedger(w)
    BY <2>8, AdvanceStep
  <2>9. CASE RetryTransaction(w)
    BY <2>9, RetryStep
  <2>10. CASE \/ \E c \in Contracts : BeginPoll(w, c)
              \/ \E from, until \in 1..MaxLedger : BeginReindex(w, from, until)
              \/ \E e \in Events : BeginReprocess(w, e)
              \/ Fail(w)
    BY <2>10, BeginStep
  <2> HIDE DEF IndexerInv
  <2> QED BY <1>1, <2>1, <2>2, <2>3, <2>4, <2>5, <2>6, <2>7, <2>8, <2>9, <2>10
          DEF WorkerNext, Proceed
<1>2. CASE CloseLedger \/ (\E p \in IndexerProcesses : RefreshPause(p) \/ Restart(p))
               \/ UNCHANGED indexerVars
  BY <1>2, ProcessStep
<1> HIDE DEF IndexerInv
<1> QED BY <1>1, <1>2 DEF IndexerNext

(* Nothing behind a cursor was skipped, for any number of backend          *)
(* instances polling the same database, any chunk size, and any            *)
(* interleaving of retries, failures, restarts, new parsers, reindexing    *)
(* and reprocessing requests (services/eventIndexer.ts): every event up to *)
(* the cursor is stored, quarantined, unsupported or reported, and the     *)
(* checkpoints leave no ledger below the cursor out.                       *)
THEOREM CursorsCoverEverything == IndexerSpec => []CursorCovers
<1>1. IndexerInv => CursorCovers
  BY DEF IndexerInv, CursorCovers
<1> QED BY IndexerInitial, IndexerStep, <1>1, PTL DEF IndexerSpec

(* Side effects follow the commit (storeEvents, and the dispatch loop      *)
(* after it): an event is announced or counted in a score only when a row  *)
(* of its unique key is in contract_events, whatever was rolled back.      *)
THEOREM EffectsAlwaysFollowCommit == IndexerSpec => []EffectsFollowCommit
<1>1. IndexerInv => EffectsFollowCommit
  BY DEF IndexerInv, NoEffectBefore, EffectsFollowCommit
<1> QED BY IndexerInitial, IndexerStep, <1>1, PTL DEF IndexerSpec

------------------------------------------------------------------------------
(* Notifications.                                                          *)

FeedInv ==
    /\ DOMAIN initial \subseteq Notices
    /\ DOMAIN feed.rows \subseteq Notices
    /\ BadgeCountsTheFeed

LEMMA FeedInitial == NoticeInit => FeedInv
<1> SUFFICES ASSUME NoticeInit PROVE FeedInv
  OBVIOUS
<1>1. DOMAIN initial = {} /\ DOMAIN feed.rows = {} /\ feed.unreadCount = 0
  BY DEF NoticeInit
<1>2. {i \in DOMAIN feed.rows : ~feed.rows[i]} = {}
  BY <1>1
<1> QED BY <1>1, <1>2, FS_EmptySet DEF FeedInv, BadgeCountsTheFeed

LEMMA FeedUntouched ==
    ASSUME FeedInv, DOMAIN initial' \subseteq Notices, UNCHANGED feed
    PROVE  FeedInv'
BY DEF FeedInv, BadgeCountsTheFeed

(* A pushed notification that the feed does not hold yet is one more.      *)
LEMMA PushCounts ==
    ASSUME FeedInv, NEW i \in Notices, UNCHANGED initial, feed' = WithPushed(i)
    PROVE  FeedInv'
<1>1. CASE i \in DOMAIN feed.rows
  BY <1>1, FeedUntouched DEF WithPushed, FeedInv
<1>2. CASE i \notin DOMAIN feed.rows
  <2> DEFINE unread == {j \in DOMAIN feed.rows : ~feed.rows[j]}
  <2>1. /\ feed'.unreadCount = feed.unreadCount + 1
        /\ feed'.rows = [j \in DOMAIN feed.rows \cup {i} |-> IF j = i THEN FALSE ELSE feed.rows[j]]
    BY <1>2 DEF WithPushed
  <2>2. DOMAIN feed'.rows = DOMAIN feed.rows \cup {i}
    BY <2>1
  <2>3. {j \in DOMAIN feed'.rows : ~feed'.rows[j]} = unread \cup {i}
    BY <1>2, <2>1
  <2>4. IsFiniteSet(unread) /\ i \notin unread
    <3>1. unread \in SUBSET Notices
      BY DEF FeedInv
    <3> QED BY <1>2, <3>1, NoticeConstants, FS_Subset
  <2>5. Cardinality(unread \cup {i}) = Cardinality(unread) + 1
    BY <2>4, FS_AddElement
  <2> QED BY <2>1, <2>2, <2>3, <2>5 DEF FeedInv, BadgeCountsTheFeed
<1> QED BY <1>1, <1>2

(* The init message rebuilds the count.                                    *)
LEMMA MergeCounts ==
    ASSUME FeedInv, feed' = MergeInit, DOMAIN initial' \subseteq Notices
    PROVE  FeedInv'
<1> DEFINE rows == [i \in DOMAIN initial \cup DOMAIN feed.rows |->
                       IF i \in DOMAIN feed.rows THEN feed.rows[i] ELSE initial[i]]
<1>1. /\ feed'.rows = rows
      /\ feed'.unreadCount = Cardinality({i \in DOMAIN rows : ~rows[i]})
  BY DEF MergeInit
<1>2. DOMAIN rows \subseteq Notices
  BY DEF FeedInv
<1> HIDE DEF rows
<1> QED BY <1>1, <1>2 DEF FeedInv, BadgeCountsTheFeed

LEMMA FeedStep == FeedInv /\ [NoticeNext]_noticeVars => FeedInv'
<1> SUFFICES ASSUME FeedInv, [NoticeNext]_noticeVars PROVE FeedInv'
  OBVIOUS
<1>0. DOMAIN initial \subseteq Notices /\ DOMAIN [i \in {} |-> FALSE] \subseteq Notices
  BY DEF FeedInv
<1>1. ASSUME NEW i \in Notices, InsertNotice(i) \/ notifyAdmins(i) \/ notifyUserExternal(i)
                                    \/ archiveNotifications(i)
      PROVE  FeedInv'
  BY <1>0, <1>1, FeedUntouched
  DEF InsertNotice, notifyAdmins, Inserted, notifyUserExternal, archiveNotifications
<1>2. ASSUME NEW i \in Notices, broadcastNotice(i) PROVE FeedInv'
  BY <1>0, <1>2, FeedUntouched, PushCounts DEF broadcastNotice
<1>3. CASE (\E ids \in SUBSET Notices : markRead(ids)) \/ markAllRead \/ DayPasses \/ CleanUp
               \/ useNotifications \/ UNCHANGED noticeVars
  BY <1>0, <1>3, FeedUntouched
  DEF markRead, markAllRead, DayPasses, CleanUp, useNotifications, noticeVars
<1>4. CASE streamNotifications
  <2> DEFINE rows == getNotificationsForUser(Viewer)
  <2>1. DOMAIN rows \subseteq Notices
    BY DEF getNotificationsForUser
  <2>2. initial' = [i \in {j \in DOMAIN rows : ~rows[j]} |-> rows[i]] /\ UNCHANGED feed
    BY <1>4 DEF streamNotifications
  <2> HIDE DEF rows
  <2> QED BY <2>1, <2>2, FeedUntouched
<1>5. CASE SubscribeStream
  BY <1>0, <1>5, FeedUntouched, MergeCounts DEF SubscribeStream
<1>6. CASE StreamDrops \/ BackendDies
  BY <1>0, <1>6, FeedUntouched DEF StreamDrops, BackendDies
<1> HIDE DEF FeedInv
<1> QED BY <1>1, <1>2, <1>3, <1>4, <1>5, <1>6 DEF NoticeNext

(* The badge counts the unread entries of the feed (useNotificationStream) *)
(* for any notifications, pushes, init messages, restarts and limits.      *)
THEOREM BadgeAlwaysCounts == NoticeSpec => []BadgeCountsTheFeed
<1>1. FeedInv => BadgeCountsTheFeed
  BY DEF FeedInv
<1> QED BY FeedInitial, FeedStep, <1>1, PTL DEF NoticeSpec

------------------------------------------------------------------------------
(* The event stream.                                                       *)

TabSteps == {"unmounted", "connecting", "backoff", "polling", "idle", "open"}
TabRecord == [pc : TabSteps, attempts : Nat, response : Responses \cup {NoTab}]
Stages == {"unused", "query", "subscribe", "streaming"}
HandlerRecord == [tab : Tabs \cup {NoTab}, stage : Stages, rows : SUBSET Nat]

StreamTyped ==
    /\ committed \in Nat /\ broadcasted \in Nat
    /\ tab \in [Tabs -> TabRecord]
    /\ handler \in [Responses -> HandlerRecord]
    /\ connected \subseteq Responses /\ userClients \subseteq Responses
    /\ DOMAIN received = Tabs

(* A tab and the response it reads from know each other.                   *)
Linked ==
    /\ \A t \in Tabs : tab[t].pc = "open" =>
           tab[t].response \in connected /\ handler[tab[t].response].tab = t
    /\ \A r \in connected : tab[handler[r].tab].pc = "open" /\ tab[handler[r].tab].response = r

(* A response in use is of an allowed request, holds rows for its tab, and *)
(* has its peer or lost it early; one that is not is in no registry.       *)
InUse(r) == handler[r].stage # "unused"

Entitled ==
    \A r \in Responses :
        IF InUse(r)
        THEN /\ handler[r].tab \in Tabs /\ Allowed(handler[r].tab)
             /\ \A e \in handler[r].rows : Concerns(handler[r].tab, e)
             /\ r \in connected \cup leftEarly
        ELSE r \notin connected \cup userClients

Registered ==
    /\ \A r \in connected : handler[r].stage = "streaming" => r \in clients
    /\ clients \subseteq userClients
    /\ userClients \subseteq connected \cup leftEarly

OwnEventsOnly ==
    \A t \in Tabs : TabUser[t] \notin Administrators =>
        \A e \in received[t] : StreamedAddress[e] = TabUser[t]

StreamInv == StreamTyped /\ Linked /\ Entitled /\ Registered /\ OwnEventsOnly

(* What an allowed stream carries is its user's, unless that is an admin.  *)
LEMMA AllowedConcerns ==
    ASSUME NEW t \in Tabs, Allowed(t), TabUser[t] \notin Administrators, NEW e, Concerns(t, e)
    PROVE  StreamedAddress[e] = TabUser[t]
BY StreamConstants DEF Allowed, Concerns, Followed

LEMMA StreamInitial == StreamInit => StreamInv
<1> SUFFICES ASSUME StreamInit PROVE StreamInv
  OBVIOUS
<1>1. StreamTyped
  BY DEF StreamInit, StreamTyped, Unmounted, Unused, TabRecord, HandlerRecord, TabSteps, Stages
<1>2. Linked
  BY DEF StreamInit, Linked, Unmounted
<1>3. Entitled
  BY DEF StreamInit, Entitled, InUse, Unused
<1>4. Registered /\ OwnEventsOnly
  BY DEF StreamInit, Registered, OwnEventsOnly
<1> QED BY <1>1, <1>2, <1>3, <1>4 DEF StreamInv

LEMMA ClosedTab ==
    ASSUME StreamTyped, NEW t \in Tabs
    PROVE  /\ AfterClose(t) \in TabRecord /\ AfterClose(t).pc # "open"
           /\ Unmounted \in TabRecord /\ Unmounted.pc # "open"
<1>1. Unmounted \in TabRecord /\ Unmounted.pc # "open"
  BY DEF Unmounted, TabRecord, TabSteps
<1>2. tab[t].attempts + 1 \in Nat
  BY DEF StreamTyped, TabRecord
<1>3. AfterClose(t) \in TabRecord /\ AfterClose(t).pc # "open"
  BY <1>2 DEF AfterClose, TabRecord, TabSteps
<1> QED BY <1>1, <1>3

(* A tab that is not connected moves on: no registry is concerned.         *)
LEMMA TabMoves ==
    ASSUME StreamInv, NEW t \in Tabs, tab[t].pc # "open", NEW n \in TabRecord, n.pc # "open",
           tab' = [tab EXCEPT ![t] = n],
           UNCHANGED <<committed, broadcasted, handler, connected, leftEarly, clients,
                       userClients, received>>
    PROVE  StreamInv'
<1>1. /\ tab' \in [Tabs -> TabRecord] /\ tab'[t].pc # "open"
      /\ \A u \in Tabs : u # t => tab'[u] = tab[u]
  BY DEF StreamInv, StreamTyped
<1>2. StreamTyped'
  BY <1>1 DEF StreamInv, StreamTyped
<1>3. \A r \in connected : handler[r].tab \in Tabs
  BY DEF StreamInv, StreamTyped, Entitled
<1>4. Linked'
  BY <1>1, <1>3 DEF StreamInv, Linked
<1>5. Entitled' /\ Registered' /\ OwnEventsOnly'
  BY DEF StreamInv, Entitled, InUse, Registered, OwnEventsOnly
<1> QED BY <1>2, <1>4, <1>5 DEF StreamInv

LEMMA HookStep ==
    ASSUME StreamInv, NEW t \in Tabs,
           \/ Mount(t) \/ Reconnect(t) \/ Refused(t)
           \/ /\ tab[t].pc \notin {"open", "unmounted"}
              /\ tab' = [tab EXCEPT ![t] = Unmounted]
              /\ UNCHANGED <<committed, broadcasted, handler, connected, leftEarly, clients,
                             userClients, received, streamFaults>>
    PROVE  StreamInv'
<1>0. StreamTyped /\ tab[t] \in TabRecord
  BY DEF StreamInv, StreamTyped
<1>1. CASE Mount(t) \/ Reconnect(t)
  <2>1. PICK n : n = [tab[t] EXCEPT !.pc = "connecting"]
    OBVIOUS
  <2>2. n \in TabRecord /\ n.pc # "open"
    BY <1>0, <2>1 DEF TabRecord, TabSteps
  <2>3. tab' = [tab EXCEPT ![t] = n] /\ tab[t].pc # "open"
    BY <1>1, <2>1 DEF Mount, Reconnect
  <2> QED BY <1>1, <2>2, <2>3, TabMoves DEF Mount, Reconnect
<1>2. CASE Refused(t)
  <2>1. PICK n : n = AfterClose(t)
    OBVIOUS
  <2> QED BY <1>0, <1>2, <2>1, ClosedTab, TabMoves DEF Refused
<1>3. CASE /\ tab[t].pc \notin {"open", "unmounted"}
           /\ tab' = [tab EXCEPT ![t] = Unmounted]
           /\ UNCHANGED <<committed, broadcasted, handler, connected, leftEarly, clients,
                          userClients, received, streamFaults>>
  <2>1. PICK n : n = Unmounted
    OBVIOUS
  <2> QED BY <1>0, <1>3, <2>1, ClosedTab, TabMoves
<1> QED BY <1>1, <1>2, <1>3

LEMMA OpenStep ==
    ASSUME StreamInv, NEW t \in Tabs, NEW q \in Responses, streamEvents(t, q)
    PROVE  StreamInv'
<1>1. PICK h : h = [tab |-> t, stage |-> "query", rows |-> {}]
  OBVIOUS
<1>2. PICK n : n = [pc |-> "open", attempts |-> 0, response |-> q]
  OBVIOUS
<1>3. /\ h \in HandlerRecord /\ h.tab = t /\ h.stage = "query" /\ h.rows = {}
      /\ n \in TabRecord /\ n.pc = "open" /\ n.response = q
  BY <1>1, <1>2 DEF HandlerRecord, TabRecord, TabSteps, Stages
<1>4. /\ tab[t].pc = "connecting" /\ handler[q].stage = "unused" /\ q \notin userClients
      /\ Allowed(t)
      /\ handler' = [handler EXCEPT ![q] = h] /\ tab' = [tab EXCEPT ![t] = n]
      /\ connected' = connected \cup {q}
      /\ UNCHANGED <<committed, broadcasted, leftEarly, clients, userClients, received>>
  BY <1>1, <1>2 DEF streamEvents
<1>5. /\ tab' \in [Tabs -> TabRecord] /\ tab'[t] = n /\ \A u \in Tabs : u # t => tab'[u] = tab[u]
      /\ handler' \in [Responses -> HandlerRecord] /\ handler'[q] = h
      /\ \A r \in Responses : r # q => handler'[r] = handler[r]
  BY <1>3, <1>4 DEF StreamInv, StreamTyped
<1>6. q \notin connected /\ connected \subseteq Responses
      /\ \A r \in connected : handler[r].tab \in Tabs /\ handler[r].tab # t
  BY <1>4 DEF StreamInv, StreamTyped, Entitled, InUse, Linked
<1>7. StreamTyped'
  BY <1>4, <1>5 DEF StreamInv, StreamTyped
<1>8. Linked'
  BY <1>3, <1>4, <1>5, <1>6 DEF StreamInv, Linked
<1>9. Entitled'
  <2> SUFFICES ASSUME NEW r \in Responses
               PROVE  IF InUse(r)'
                      THEN /\ handler'[r].tab \in Tabs /\ Allowed(handler'[r].tab)
                           /\ \A e \in handler'[r].rows : Concerns(handler'[r].tab, e)
                           /\ r \in connected' \cup leftEarly'
                      ELSE r \notin connected' \cup userClients'
    BY DEF Entitled, Allowed, Concerns, Followed
  <2>1. CASE r = q
    BY <1>3, <1>4, <1>5, <2>1 DEF InUse
  <2>2. CASE r # q
    BY <1>4, <1>5, <2>2 DEF StreamInv, Entitled, InUse
  <2> QED BY <2>1, <2>2
<1>10. Registered' /\ OwnEventsOnly'
  BY <1>3, <1>4, <1>5, <1>6 DEF StreamInv, Registered, OwnEventsOnly
<1> QED BY <1>7, <1>8, <1>9, <1>10 DEF StreamInv

(* A request in use goes on; its rows are its tab's.                       *)
LEMMA RequestMoves ==
    ASSUME StreamInv, NEW q \in Responses, InUse(q), NEW stage_ \in Stages \ {"unused"},
           NEW rows \in SUBSET Nat, \A e \in rows : Concerns(handler[q].tab, e),
           GoesOn(q, stage_, rows), UNCHANGED <<committed, broadcasted, tab, connected, leftEarly>>,
           \/ stage_ # "streaming" /\ UNCHANGED <<clients, userClients>>
           \/ clients' = clients \cup {q} /\ userClients' = userClients \cup {q},
           DOMAIN received' = Tabs, OwnEventsOnly'
    PROVE  StreamInv'
<1>1. PICK h : h = [tab |-> handler[q].tab, stage |-> stage_, rows |-> rows]
  OBVIOUS
<1>2. h \in HandlerRecord /\ h.tab = handler[q].tab /\ h.stage = stage_ /\ h.rows = rows
  BY <1>1 DEF HandlerRecord, StreamInv, StreamTyped
<1>3. /\ handler' \in [Responses -> HandlerRecord] /\ handler'[q] = h
      /\ \A r \in Responses : r # q => handler'[r] = handler[r]
  BY <1>1, <1>2 DEF GoesOn, StreamInv, StreamTyped
<1>4. StreamTyped'
  BY <1>3 DEF StreamInv, StreamTyped
<1>5. \A r \in Responses : handler'[r].tab = handler[r].tab
  BY <1>2, <1>3
<1>6. Linked'
  BY <1>5 DEF StreamInv, StreamTyped, Linked, TabRecord
<1>7. Entitled'
  <2> SUFFICES ASSUME NEW r \in Responses
               PROVE  IF InUse(r)'
                      THEN /\ handler'[r].tab \in Tabs /\ Allowed(handler'[r].tab)
                           /\ \A e \in handler'[r].rows : Concerns(handler'[r].tab, e)
                           /\ r \in connected' \cup leftEarly'
                      ELSE r \notin connected' \cup userClients'
    BY DEF Entitled, Allowed, Concerns, Followed
  <2>1. CASE r = q
    BY <1>2, <1>3, <2>1 DEF StreamInv, Entitled, InUse
  <2>2. CASE r # q
    BY <1>3, <2>2 DEF StreamInv, Entitled, InUse
  <2> QED BY <2>1, <2>2
<1>8. Registered'
  <2>1. \A r \in connected : handler'[r].stage = "streaming" => r \in clients'
    BY <1>2, <1>3 DEF StreamInv, StreamTyped, Registered
  <2>2. q \in connected \cup leftEarly
    BY DEF StreamInv, Entitled
  <2> QED BY <2>1, <2>2 DEF StreamInv, Registered
<1> QED BY <1>4, <1>6, <1>7, <1>8 DEF StreamInv

LEMMA ReplayStep ==
    ASSUME StreamInv, NEW q \in Responses, ReplayQuery(q)
    PROVE  StreamInv'
<1>1. PICK rows \in SUBSET Nat :
          GoesOn(q, "subscribe", rows) /\ \A e \in rows : Concerns(handler[q].tab, e)
  <2>1. /\ Replayed(handler[q].tab) \in SUBSET Nat
        /\ \A e \in Replayed(handler[q].tab) : Concerns(handler[q].tab, e)
    BY DEF Replayed, StreamInv, StreamTyped
  <2>2. {} \in SUBSET Nat /\ \A e \in {} : Concerns(handler[q].tab, e)
    OBVIOUS
  <2> QED BY <2>1, <2>2 DEF ReplayQuery
<1>2. /\ InUse(q)
      /\ UNCHANGED <<committed, broadcasted, tab, connected, leftEarly, clients, userClients, received>>
  BY DEF ReplayQuery, InUse
<1>3. OwnEventsOnly' /\ DOMAIN received' = Tabs
  BY <1>2 DEF StreamInv, StreamTyped, OwnEventsOnly
<1> QED BY <1>1, <1>2, <1>3, RequestMoves DEF Stages

(* Events for one tab, of the kind its stream may carry.                   *)
LEMMA DeliveredToTab ==
    ASSUME StreamInv, NEW t \in Tabs, Allowed(t), NEW events, \A e \in events : Concerns(t, e),
           received' = [received EXCEPT ![t] = received[t] \cup events]
    PROVE  DOMAIN received' = Tabs /\ OwnEventsOnly'
<1>1. DOMAIN received' = Tabs
  BY DEF StreamInv, StreamTyped
<1>2. ASSUME NEW u \in Tabs, TabUser[u] \notin Administrators, NEW e \in received'[u]
      PROVE  StreamedAddress[e] = TabUser[u]
  <2>1. CASE e \in received[u]
    BY <1>2, <2>1 DEF StreamInv, OwnEventsOnly
  <2>2. CASE u = t /\ e \in events
    BY <1>2, <2>2, AllowedConcerns
  <2> QED BY <1>2, <2>1, <2>2 DEF StreamInv, StreamTyped
<1> QED BY <1>1, <1>2 DEF OwnEventsOnly

LEMMA SubscribeStep ==
    ASSUME StreamInv, NEW q \in Responses, subscribe(q)
    PROVE  StreamInv'
<1>1. /\ InUse(q) /\ GoesOn(q, "streaming", {}) /\ Deliver(q, handler[q].rows)
      /\ clients' = clients \cup {q} /\ userClients' = userClients \cup {q}
      /\ UNCHANGED <<committed, broadcasted, tab, connected, leftEarly>>
  BY DEF subscribe, InUse
<1>2. /\ handler[q].tab \in Tabs /\ Allowed(handler[q].tab)
      /\ \A e \in handler[q].rows : Concerns(handler[q].tab, e)
  BY <1>1 DEF StreamInv, Entitled
<1>3. OwnEventsOnly' /\ DOMAIN received' = Tabs
  <2>1. CASE q \in connected
    <3>1. received' = [received EXCEPT ![handler[q].tab] = received[handler[q].tab] \cup handler[q].rows]
      BY <1>1, <2>1 DEF Deliver
    <3> QED BY <1>2, <3>1, DeliveredToTab
  <2>2. CASE q \notin connected
    BY <1>1, <2>2 DEF Deliver, StreamInv, StreamTyped, OwnEventsOnly
  <2> QED BY <2>1, <2>2
<1>4. {} \in SUBSET Nat /\ "streaming" \in Stages \ {"unused"}
  BY DEF Stages
<1> QED BY <1>1, <1>3, <1>4, RequestMoves

LEMMA UnusedHandler == Unused \in HandlerRecord /\ Unused.stage = "unused"
BY DEF Unused, HandlerRecord, Stages

(* The connection goes: with the close listeners installed the response is *)
(* taken out everywhere, before that its request goes on without peer.     *)
LEMMA DisconnectStep ==
    ASSUME StreamInv, NEW t \in Tabs, NEW n \in TabRecord, n.pc # "open", Disconnect(t, n)
    PROVE  StreamInv'
<1>1. PICK q : q = tab[t].response
  OBVIOUS
<1>2. /\ tab[t].pc = "open" /\ tab' = [tab EXCEPT ![t] = n] /\ connected' = connected \ {q}
      /\ UNCHANGED <<committed, broadcasted, received>>
      /\ \/ /\ handler[q].stage = "streaming"
            /\ clients' = clients \ {q} /\ userClients' = userClients \ {q}
            /\ handler' = [handler EXCEPT ![q] = Unused] /\ UNCHANGED leftEarly
         \/ /\ handler[q].stage # "streaming" /\ leftEarly' = leftEarly \cup {q}
            /\ UNCHANGED <<clients, userClients, handler>>
  BY <1>1 DEF Disconnect
<1>3. q \in connected /\ handler[q].tab = t /\ q \in Responses
  BY <1>1, <1>2 DEF StreamInv, StreamTyped, Linked
<1>4. /\ tab' \in [Tabs -> TabRecord] /\ tab'[t] = n /\ \A u \in Tabs : u # t => tab'[u] = tab[u]
      /\ handler' \in [Responses -> HandlerRecord]
      /\ \A r \in Responses : r # q => handler'[r] = handler[r]
      /\ handler'[q] = handler[q] \/ handler'[q].stage = "unused"
      /\ handler[q].stage = "streaming" => handler'[q].stage = "unused"
  BY <1>2, <1>3, UnusedHandler DEF StreamInv, StreamTyped
<1>5. \A r \in connected' : r \in connected /\ r # q /\ r \in Responses /\ handler'[r] = handler[r]
                            /\ handler[r].tab \in Tabs /\ handler[r].tab # t
  BY <1>1, <1>2, <1>3, <1>4 DEF StreamInv, StreamTyped, Entitled, Linked
<1>6. StreamTyped'
  BY <1>2, <1>4 DEF StreamInv, StreamTyped
<1>7. Linked'
  <2>1. ASSUME NEW u \in Tabs, tab'[u].pc = "open"
        PROVE  tab'[u].response \in connected' /\ handler'[tab'[u].response].tab = u
    <3>1. u # t /\ tab'[u] = tab[u]
      BY <1>4, <2>1
    <3>2. tab[u].response \in connected /\ handler[tab[u].response].tab = u
      BY <2>1, <3>1 DEF StreamInv, Linked
    <3>3. tab[u].response # q
      BY <1>3, <3>1, <3>2
    <3> QED BY <1>2, <1>5, <3>1, <3>2, <3>3
  <2>2. \A r \in connected' : tab'[handler'[r].tab].pc = "open" /\ tab'[handler'[r].tab].response = r
    BY <1>4, <1>5 DEF StreamInv, Linked
  <2> QED BY <2>1, <2>2 DEF Linked
<1>8. Entitled'
  <2> SUFFICES ASSUME NEW r \in Responses
               PROVE  IF InUse(r)'
                      THEN /\ handler'[r].tab \in Tabs /\ Allowed(handler'[r].tab)
                           /\ \A e \in handler'[r].rows : Concerns(handler'[r].tab, e)
                           /\ r \in connected' \cup leftEarly'
                      ELSE r \notin connected' \cup userClients'
    BY DEF Entitled, Allowed, Concerns, Followed
  <2>1. CASE r = q
    <3>1. CASE handler[q].stage = "streaming"
      BY <1>2, <1>4, <2>1, <3>1 DEF InUse
    <3>2. CASE handler[q].stage # "streaming"
      BY <1>2, <1>3, <2>1, <3>2 DEF StreamInv, Entitled, InUse
    <3> QED BY <3>1, <3>2
  <2>2. CASE r # q
    BY <1>2, <1>4, <2>2 DEF StreamInv, Entitled, InUse
  <2> QED BY <2>1, <2>2
<1>9. Registered'
  BY <1>2, <1>3, <1>4, <1>5 DEF StreamInv, Registered
<1>10. OwnEventsOnly'
  BY <1>2 DEF StreamInv, OwnEventsOnly
<1> QED BY <1>6, <1>7, <1>8, <1>9, <1>10 DEF StreamInv

(* A registered response without peer is removed.                          *)
LEMMA RemoveStep ==
    ASSUME StreamInv, NEW q \in Responses, removeClient(q)
    PROVE  StreamInv'
<1>1. /\ q \in clients \ connected /\ clients' = clients \ {q} /\ userClients' = userClients \ {q}
      /\ handler' = [handler EXCEPT ![q] = Unused] /\ leftEarly' = leftEarly \ {q}
      /\ UNCHANGED <<committed, broadcasted, tab, connected, received>>
  BY DEF removeClient
<1>2. /\ handler' \in [Responses -> HandlerRecord] /\ handler'[q].stage = "unused"
      /\ \A r \in Responses : r # q => handler'[r] = handler[r]
  BY <1>1, UnusedHandler DEF StreamInv, StreamTyped
<1>3. StreamTyped'
  BY <1>1, <1>2 DEF StreamInv, StreamTyped
<1>4. \A r \in connected : r # q /\ r \in Responses /\ handler'[r] = handler[r]
  BY <1>1, <1>2 DEF StreamInv, StreamTyped
<1>5. Linked'
  BY <1>1, <1>4 DEF StreamInv, Linked
<1>6. Entitled'
  <2> SUFFICES ASSUME NEW r \in Responses
               PROVE  IF InUse(r)'
                      THEN /\ handler'[r].tab \in Tabs /\ Allowed(handler'[r].tab)
                           /\ \A e \in handler'[r].rows : Concerns(handler'[r].tab, e)
                           /\ r \in connected' \cup leftEarly'
                      ELSE r \notin connected' \cup userClients'
    BY DEF Entitled, Allowed, Concerns, Followed
  <2>1. CASE r = q
    BY <1>1, <1>2, <2>1 DEF InUse
  <2>2. CASE r # q
    BY <1>1, <1>2, <2>2 DEF StreamInv, Entitled, InUse
  <2> QED BY <2>1, <2>2
<1>7. Registered' /\ OwnEventsOnly'
  BY <1>1, <1>4 DEF StreamInv, Registered, OwnEventsOnly
<1> QED BY <1>3, <1>5, <1>6, <1>7 DEF StreamInv

LEMMA BroadcastStep ==
    ASSUME StreamInv, broadcast
    PROVE  StreamInv'
<1>1. PICK e : e = broadcasted + 1
  OBVIOUS
<1>2. PICK failed \in SUBSET (Listening(e) \ connected) : clients' = clients \ failed
  BY <1>1 DEF broadcast
<1>3. /\ broadcasted' = e
      /\ received' = [t \in Tabs |->
             IF \E r \in Listening(e) \cap connected : handler[r].tab = t
             THEN received[t] \cup {e} ELSE received[t]]
      /\ UNCHANGED <<committed, tab, handler, connected, leftEarly, userClients>>
  BY <1>1 DEF broadcast
<1>4. StreamTyped'
  BY <1>1, <1>3 DEF StreamInv, StreamTyped
<1>5. Linked' /\ Entitled'
  BY <1>3 DEF StreamInv, Linked, Entitled, InUse, Allowed, Concerns, Followed
<1>6. Registered'
  BY <1>2, <1>3 DEF StreamInv, Registered
<1>7. OwnEventsOnly'
  <2> SUFFICES ASSUME NEW t \in Tabs, TabUser[t] \notin Administrators, NEW f \in received'[t]
               PROVE  StreamedAddress[f] = TabUser[t]
    BY DEF OwnEventsOnly
  <2>1. CASE f \in received[t]
    BY <2>1 DEF StreamInv, OwnEventsOnly
  <2>2. CASE f \notin received[t]
    <3>1. f = e /\ \E r \in Listening(e) \cap connected : handler[r].tab = t
      BY <1>3, <2>2
    <3>2. PICK r \in Listening(e) \cap connected : handler[r].tab = t
      BY <3>1
    <3>3. Concerns(t, e)
      BY <3>2 DEF Listening
    <3>4. Allowed(t)
      BY <3>2 DEF StreamInv, StreamTyped, Entitled
    <3> QED BY <3>1, <3>3, <3>4, AllowedConcerns
  <2> QED BY <2>1, <2>2
<1> QED BY <1>4, <1>5, <1>6, <1>7 DEF StreamInv

(* A restart takes every connection with it.                               *)
LEMMA ShutdownStep ==
    ASSUME StreamInv, closeAllConnections
    PROVE  StreamInv'
<1>1. /\ clients' = {} /\ userClients' = {} /\ connected' = {} /\ leftEarly' = {}
      /\ handler' = [r \in Responses |-> Unused]
      /\ tab' = [t \in Tabs |-> IF tab[t].pc = "open" THEN AfterClose(t) ELSE tab[t]]
      /\ UNCHANGED <<committed, broadcasted, received>>
  BY DEF closeAllConnections
<1>2. ASSUME NEW t \in Tabs PROVE tab'[t] \in TabRecord /\ tab'[t].pc # "open"
  <2>1. CASE tab[t].pc = "open"
    <3>1. tab'[t] = AfterClose(t)
      BY <1>1, <2>1
    <3> QED BY <3>1, ClosedTab DEF StreamInv
  <2>2. CASE tab[t].pc # "open"
    BY <1>1, <2>2 DEF StreamInv, StreamTyped
  <2> QED BY <2>1, <2>2
<1>3. StreamTyped'
  BY <1>1, <1>2, UnusedHandler DEF StreamInv, StreamTyped
<1>4. Linked'
  BY <1>1, <1>2 DEF Linked
<1>5. Entitled' /\ Registered' /\ OwnEventsOnly'
  BY <1>1, UnusedHandler DEF StreamInv, Entitled, InUse, Registered, OwnEventsOnly
<1> QED BY <1>3, <1>4, <1>5 DEF StreamInv

LEMMA StreamStep == StreamInv /\ [StreamNext]_streamVars => StreamInv'
<1> SUFFICES ASSUME StreamInv, [StreamNext]_streamVars PROVE StreamInv'
  OBVIOUS
<1>1. ASSUME NEW t \in Tabs, Mount(t) \/ Reconnect(t) \/ Connecting(t) \/ ConnectionLost(t) \/ Unmount(t)
      PROVE  StreamInv'
  <2>1. ASSUME NEW n, n = AfterClose(t) \/ n = Unmounted, Disconnect(t, n) PROVE StreamInv'
    BY <2>1, ClosedTab, DisconnectStep DEF StreamInv
  <2>2. ASSUME NEW r \in Responses, streamEvents(t, r) PROVE StreamInv'
    BY <2>2, OpenStep
  <2> HIDE DEF StreamInv
  <2> QED BY <1>1, <2>1, <2>2, HookStep DEF Connecting, ConnectionLost, Unmount
<1>2. ASSUME NEW r \in Responses, ReplayQuery(r) \/ subscribe(r) \/ removeClient(r) PROVE StreamInv'
  BY <1>2, ReplayStep, SubscribeStep, RemoveStep
<1>3. CASE broadcast \/ closeAllConnections
  BY <1>3, BroadcastStep, ShutdownStep
<1>4. CASE CommitEvent \/ UNCHANGED streamVars
  <2>1. /\ committed' \in Nat
        /\ UNCHANGED <<broadcasted, tab, handler, connected, leftEarly, clients, userClients, received>>
    BY <1>4 DEF CommitEvent, streamVars, StreamInv, StreamTyped
  <2> QED BY <2>1 DEF StreamInv, StreamTyped, Linked, Entitled, InUse, Allowed, Concerns,
                      Followed, Registered, OwnEventsOnly
<1> HIDE DEF StreamInv
<1> QED BY <1>1, <1>2, <1>3, <1>4 DEF StreamNext

(* The registries of eventStreamService agree with the connections and a   *)
(* borrower's stream carries its own events only, for any tabs, responses, *)
(* limits, replays, lost connections and restarts.                         *)
THEOREM StreamsAlwaysAccounted == StreamSpec => []StreamsAccounted
<1>1. StreamInv => StreamsAccounted
  BY DEF StreamInv, Registered, OwnEventsOnly, StreamsAccounted
<1> QED BY StreamInitial, StreamStep, <1>1, PTL DEF StreamSpec

------------------------------------------------------------------------------
(* Webhook delivery.                                                       *)

RowRecord == [attempts : Nat, delivered : BOOLEAN, due : Nat \cup {Never}]
PostStages == {"none", "post", "ok", "error"}
SendingRecord == [by : Servers \cup {"none"}, stage : PostStages]
BatchEntry == [delivery : Deliveries, attempts : Nat]

WebhookTyped ==
    /\ row \in [Deliveries -> RowRecord]
    /\ sending \in [Deliveries -> SendingRecord]
    /\ retrying \in [Servers -> Seq(BatchEntry)]
    /\ stage \in [Servers -> PostStages]
    /\ accepted \in [Deliveries -> BOOLEAN]

(* A first attempt is made once and before there is a row.                 *)
FirstAttempts ==
    \A k \in Deliveries :
        /\ sending[k].stage # "none" => row[k] = NoRecord
        /\ k[2] \notin announced => row[k] = NoRecord /\ sending[k].stage = "none"

(* An attempt that counts as a success was accepted by the endpoint.       *)
SuccessesAccepted ==
    /\ \A k \in Deliveries : sending[k].stage = "ok" => accepted[k]
    /\ \A s \in Servers : retrying[s] # <<>> /\ stage[s] = "ok" => accepted[Head(retrying[s]).delivery]

WebhookInv == WebhookTyped /\ FirstAttempts /\ SuccessesAccepted

LEMMA StatusCases ==
    ASSUME NEW r
    PROVE  /\ statusOf(NoRecord) = "none"
           /\ r # NoRecord => statusOf(r) =
                  IF r.delivered THEN "made" ELSE IF r.due # Never THEN "pending" ELSE "givenup"
<1>1. statusOf(NoRecord) = "none"
  BY Zenon DEF statusOf
<1>2. CASE r # NoRecord /\ r.delivered
  BY <1>1, <1>2, Zenon DEF statusOf
<1>3. CASE r # NoRecord /\ ~r.delivered /\ r.due # Never
  BY <1>1, <1>3, Zenon DEF statusOf
<1>4. CASE r # NoRecord /\ ~r.delivered /\ r.due = Never
  BY <1>1, <1>4, Zenon DEF statusOf
<1> QED BY <1>1, <1>2, <1>3, <1>4

LEMMA StartsAsPromised == WebhookInit => Promised!Start
<1> SUFFICES ASSUME WebhookInit PROVE Promised!Start
  OBVIOUS
<1>1. \A k \in Deliveries : statusOf(row[k]) = "none"
  BY StatusCases DEF WebhookInit
<1>2. accepted = [k \in Deliveries |-> FALSE]
  BY DEF WebhookInit
<1> QED BY <1>1, <1>2 DEF Promised!Start

(* Finitely many rows are due: a batch lists them.                         *)
LEMMA BatchTyped ==
    ASSUME WebhookTyped
    PROVE  SetToSeq({[delivery |-> k, attempts |-> row[k].attempts] :
                        k \in {d \in Deliveries : Due(d)}}) \in Seq(BatchEntry)
<1> DEFINE due == {d \in Deliveries : Due(d)}
           batch == {[delivery |-> k, attempts |-> row[k].attempts] : k \in due}
           f == [k \in due |-> [delivery |-> k, attempts |-> row[k].attempts]]
<1>1. IsFiniteSet(due)
  <2>1. IsFiniteSet(Deliveries)
    BY HookConstants, FS_Product DEF Deliveries
  <2>2. due \in SUBSET Deliveries
    OBVIOUS
  <2> HIDE DEF due
  <2> QED BY <2>1, <2>2, FS_Subset
<1>2. f \in Surjection(due, batch)
  BY DEF Surjection
<1>3. batch \subseteq BatchEntry
  BY DEF WebhookTyped, RowRecord, BatchEntry
<1> HIDE DEF due, batch, f
<1>4. IsFiniteSet(batch)
  BY <1>1, <1>2, FS_Surjection
<1>5. Cardinality(batch) \in Nat /\ ExistsBijection(1 .. Cardinality(batch), batch)
  BY <1>4, FS_CardinalityType
<1>6. PICK g \in [1 .. Cardinality(batch) -> batch] : IsInjective(g)
  BY <1>5 DEF ExistsBijection, Bijection, Injection
<1>7. SetToSeq(batch) \in [1 .. Cardinality(batch) -> batch]
  BY <1>6, Zenon DEF SetToSeq
<1>8. SetToSeq(batch) \in Seq(BatchEntry)
  BY <1>3, <1>5, <1>7
<1> QED BY <1>8 DEF batch, due

LEMMA WebhookInitial == WebhookInit => WebhookInv
<1> SUFFICES ASSUME WebhookInit PROVE WebhookInv
  OBVIOUS
<1>1. NoRecord \in RowRecord /\ NotSending \in SendingRecord /\ NotSending.stage = "none"
  BY DEF NoRecord, Never, RowRecord, NotSending, SendingRecord, PostStages
<1>2. WebhookTyped
  BY <1>1 DEF WebhookInit, WebhookTyped, PostStages
<1>3. FirstAttempts /\ SuccessesAccepted
  BY <1>1 DEF WebhookInit, FirstAttempts, SuccessesAccepted
<1> QED BY <1>2, <1>3 DEF WebhookInv

------------------------------------------------------------------------------
(* Each step is one of Delivery's, or none.                                *)

Kept == Promised!Step \/ UNCHANGED Promised!abstractVars

LEMMA NothingReported ==
    ASSUME UNCHANGED <<row, accepted>>
    PROVE  Kept
BY DEF Kept, Promised!abstractVars

LEMMA EndpointAccepts ==
    ASSUME NEW k \in Deliveries, UNCHANGED row, accepted' = [accepted EXCEPT ![k] = TRUE]
    PROVE  Kept
<1>1. Promised!Accept(k)
  BY DEF Promised!Accept
<1> QED BY <1>1 DEF Kept, Promised!Step

(* The moves of a report that Record and Settle allow.                     *)
MayMove(before, after, made) ==
    \/ before = after
    \/ before = "none" /\ after = "pending"
    \/ before \in {"none", "pending", "givenup"} /\ after = "made" /\ made
    \/ before = "pending" /\ after = "givenup"
    \/ before = "givenup" /\ after = "pending"

LEMMA RowMoves ==
    ASSUME WebhookTyped, NEW k \in Deliveries, NEW r, row' = [row EXCEPT ![k] = r],
           UNCHANGED accepted, MayMove(statusOf(row[k]), statusOf(r), accepted[k])
    PROVE  Kept
<1> DEFINE before == [d \in Deliveries |-> statusOf(row[d])]
           after == [d \in Deliveries |-> statusOf(row'[d])]
<1>1. /\ row'[k] = r /\ \A d \in Deliveries : d # k => row'[d] = row[d]
  BY DEF WebhookTyped
<1>2. after = [before EXCEPT ![k] = statusOf(r)] /\ before[k] = statusOf(row[k])
  <2>1. \A d \in Deliveries : d # k => statusOf(row'[d]) = statusOf(row[d])
    BY <1>1, Zenon
  <2>2. statusOf(row'[k]) = statusOf(r)
    BY <1>1, Zenon
  <2> QED BY <2>1, <2>2
<1>3. CASE statusOf(row[k]) = statusOf(r)
  <2>1. after = before
    BY <1>2, <1>3
  <2> QED BY <2>1 DEF Kept, Promised!abstractVars
<1>4. CASE statusOf(row[k]) = "none" /\ (statusOf(r) = "pending" \/ (statusOf(r) = "made" /\ accepted[k]))
  <2>1. Promised!Record(k)
    BY <1>2, <1>4 DEF Promised!Record
  <2> QED BY <2>1 DEF Kept, Promised!Step
<1>5. CASE \/ statusOf(row[k]) \in {"pending", "givenup"} /\ statusOf(r) = "made" /\ accepted[k]
           \/ statusOf(row[k]) = "pending" /\ statusOf(r) = "givenup"
           \/ statusOf(row[k]) = "givenup" /\ statusOf(r) = "pending"
  <2>1. Promised!Settle(k)
    BY <1>2, <1>5 DEF Promised!Settle
  <2> QED BY <2>1 DEF Kept, Promised!Step
<1> QED BY <1>3, <1>4, <1>5 DEF MayMove

(* Delays are never NULL, and rows that were written are not empty.        *)
LEMMA DelayIsNat == \A attempt \in Nat : getRetryDelayMs(attempt) \in Nat
<1> SUFFICES ASSUME NEW attempt \in Nat PROVE getRetryDelayMs(attempt) \in Nat
  OBVIOUS
<1>1. PICK n : n = Len(RETRY_DELAYS)
  OBVIOUS
<1>2. n \in Nat \ {0} /\ \A i \in 1 .. n : RETRY_DELAYS[i] \in Nat
  BY <1>1, HookConstants
<1> DEFINE index == IF attempt < n THEN attempt ELSE n
           i == IF index < 1 THEN 1 ELSE index
<1>3. i \in 1 .. n
  BY <1>2
<1> HIDE DEF index, i
<1>4. getRetryDelayMs(attempt) = RETRY_DELAYS[i]
  BY <1>1, Zenon DEF getRetryDelayMs, i, index
<1> QED BY <1>2, <1>3, <1>4

LEMMA FirstRows ==
    /\ FirstRow("ok") \in RowRecord /\ statusOf(FirstRow("ok")) = "made"
    /\ FirstRow("error") \in RowRecord /\ statusOf(FirstRow("error")) = "pending"
<1>1. PICK d \in Nat : d = getRetryDelayMs(1)
  BY DelayIsNat
<1>2. PICK ok : ok = [attempts |-> 1, delivered |-> TRUE, due |-> Never]
  OBVIOUS
<1>3. PICK err : err = [attempts |-> 1, delivered |-> FALSE, due |-> d]
  OBVIOUS
<1>4. /\ ok \in RowRecord /\ ok # NoRecord /\ ok.delivered = TRUE
      /\ err \in RowRecord /\ err # NoRecord /\ err.delivered = FALSE /\ err.due = d /\ d # Never
  BY <1>2, <1>3 DEF RowRecord, NoRecord, Never
<1>5. FirstRow("ok") = ok /\ FirstRow("error") = err
  BY <1>1, <1>2, <1>3 DEF FirstRow
<1> QED BY <1>4, <1>5, StatusCases

LEMMA RetriedRows ==
    ASSUME NEW r \in RowRecord, r # NoRecord, NEW n \in Nat
    PROVE  /\ AfterSuccess(r, n) \in RowRecord /\ statusOf(AfterSuccess(r, n)) = "made"
           /\ AfterFailure(r, n) \in RowRecord
           /\ \A made \in BOOLEAN : MayMove(statusOf(r), statusOf(AfterFailure(r, n)), made)
           /\ MayMove(statusOf(r), "made", TRUE)
<1>1. PICK d \in Nat : d = getRetryDelayMs(n + 1)
  BY DelayIsNat
<1>2. PICK ok : ok = AfterSuccess(r, n)
  OBVIOUS
<1>3. ok \in RowRecord /\ ok # NoRecord /\ ok.delivered = TRUE
  BY <1>2 DEF AfterSuccess, RowRecord, NoRecord, Never
<1>4. PICK due : due = IF n + 1 < MAX_RETRY_ATTEMPTS THEN d ELSE Never
  OBVIOUS
<1>5. PICK r1 : r1 = [r EXCEPT !.attempts = n + 1]
  OBVIOUS
<1>6. r1 \in RowRecord /\ r1.attempts = n + 1 /\ r1.delivered = r.delivered
  BY <1>5 DEF RowRecord
<1>7. PICK err : err = [r1 EXCEPT !.due = due]
  OBVIOUS
<1>8. err \in RowRecord /\ err.attempts = n + 1 /\ err.delivered = r.delivered /\ err.due = due
  BY <1>4, <1>6, <1>7 DEF RowRecord
<1>9. err = AfterFailure(r, n)
  BY <1>1, <1>4, <1>5, <1>7, Zenon DEF AfterFailure
<1>10. err # NoRecord
  BY <1>8 DEF NoRecord
<1>11. statusOf(ok) = "made"
  BY <1>3, StatusCases
<1>12. MayMove(statusOf(r), "made", TRUE) /\ \A made \in BOOLEAN : MayMove(statusOf(r), statusOf(err), made)
  BY <1>8, <1>10, StatusCases DEF MayMove
<1> QED BY <1>2, <1>3, <1>8, <1>9, <1>11, <1>12

LEMMA SubscriptionStep ==
    ASSUME WebhookInv, NEW h \in Hooks, createWebhookSubscription(h) \/ deleteWebhookSubscription(h)
    PROVE  WebhookInv' /\ Kept
<1>1. CASE createWebhookSubscription(h)
  <2>1. UNCHANGED <<announced, sending, row, retrying, stage, accepted>>
    BY <1>1 DEF createWebhookSubscription
  <2>2. WebhookInv'
    BY <2>1 DEF WebhookInv, WebhookTyped, FirstAttempts, SuccessesAccepted
  <2> QED BY <2>1, <2>2, NothingReported
<1>2. CASE deleteWebhookSubscription(h)
  <2>1. /\ row' = [k \in Deliveries |-> IF k[1] = h THEN NoRecord ELSE row[k]]
        /\ UNCHANGED <<announced, sending, retrying, stage, accepted>>
    BY <1>2 DEF deleteWebhookSubscription
  <2>2. NoRecord \in RowRecord
    BY DEF NoRecord, Never, RowRecord
  <2>3. WebhookInv'
    BY <2>1, <2>2 DEF WebhookInv, WebhookTyped, FirstAttempts, SuccessesAccepted
  <2>4. PICK K \in SUBSET Deliveries : \A k \in Deliveries : k \in K <=> k[1] = h
    <3>1. {k \in Deliveries : k[1] = h} \in SUBSET Deliveries
      OBVIOUS
    <3> QED BY <3>1
  <2>5. \A k \in Deliveries : statusOf(row'[k]) = IF k \in K THEN "none" ELSE statusOf(row[k])
    <3> SUFFICES ASSUME NEW k \in Deliveries
                 PROVE  statusOf(row'[k]) = IF k \in K THEN "none" ELSE statusOf(row[k])
      OBVIOUS
    <3>1. row'[k] = IF k \in K THEN NoRecord ELSE row[k]
      BY <2>1, <2>4
    <3>2. CASE k \in K
      BY <3>1, <3>2, StatusCases
    <3>3. CASE k \notin K
      BY <3>1, <3>3
    <3> QED BY <3>2, <3>3
  <2>6. Promised!Forget(K)
    BY <2>1, <2>5 DEF Promised!Forget
  <2> QED BY <2>3, <2>6 DEF Kept, Promised!Step
<1> QED BY <1>1, <1>2

LEMMA FirstDeliveriesStep ==
    ASSUME WebhookInv, NEW s \in Servers, NEW e \in HookEvents, dispatch(s, e)
    PROVE  WebhookInv' /\ Kept
<1>1. /\ e \notin announced /\ announced' = announced \cup {e}
      /\ UNCHANGED <<row, retrying, stage, accepted>>
  BY DEF dispatch
<1>2. \A k \in Deliveries : sending'[k] = sending[k] \/ (k[2] = e /\ sending'[k] = [by |-> s, stage |-> "post"])
  BY DEF dispatch
<1>3. sending' \in [Deliveries -> SendingRecord]
  BY DEF dispatch, WebhookInv, WebhookTyped, SendingRecord, PostStages
<1>4. WebhookTyped'
  BY <1>1, <1>3 DEF WebhookInv, WebhookTyped
<1>5. FirstAttempts'
  BY <1>1, <1>2 DEF WebhookInv, FirstAttempts
<1>6. SuccessesAccepted'
  BY <1>1, <1>2 DEF WebhookInv, SuccessesAccepted
<1> QED BY <1>1, <1>4, <1>5, <1>6, NothingReported DEF WebhookInv

(* Whatever a POST comes to, what counts as a success was accepted, and    *)
(* nothing that was accepted is not.                                       *)
LEMMA Posted ==
    ASSUME WebhookTyped, NEW k \in Deliveries, NEW outcome, postWebhook(k, outcome), UNCHANGED row
    PROVE  /\ outcome \in {"ok", "error"}
           /\ accepted' \in [Deliveries -> BOOLEAN]
           /\ \A d \in Deliveries : accepted[d] => accepted'[d]
           /\ outcome = "ok" => accepted'[k]
           /\ Kept
<1>1. outcome \in {"ok", "error"}
  BY DEF postWebhook
<1>2. CASE accepted' = [accepted EXCEPT ![k] = TRUE]
  BY <1>1, <1>2, EndpointAccepts DEF WebhookTyped
<1>3. CASE outcome = "error" /\ UNCHANGED accepted
  BY <1>1, <1>3, NothingReported DEF WebhookTyped
<1> QED BY <1>2, <1>3 DEF postWebhook

LEMMA FirstPostStep ==
    ASSUME WebhookInv, NEW k \in Deliveries, FirstPost(k)
    PROVE  WebhookInv' /\ Kept
<1>1. PICK outcome \in {"ok", "error"} :
          postWebhook(k, outcome) /\ sending' = [sending EXCEPT ![k].stage = outcome]
  BY DEF FirstPost
<1>2. sending[k].stage = "post" /\ UNCHANGED <<announced, row, retrying, stage>>
  BY DEF FirstPost
<1>3. /\ accepted' \in [Deliveries -> BOOLEAN]
      /\ \A d \in Deliveries : accepted[d] => accepted'[d]
      /\ outcome = "ok" => accepted'[k]
      /\ Kept
  BY <1>1, <1>2, Posted DEF WebhookInv
<1>4. PICK n : n = [sending[k] EXCEPT !.stage = outcome]
  OBVIOUS
<1>5. n \in SendingRecord /\ n.stage = outcome
  BY <1>4 DEF WebhookInv, WebhookTyped, SendingRecord, PostStages
<1>6. sending' = [sending EXCEPT ![k] = n]
  BY <1>1, <1>4, Zenon
<1>7. WebhookTyped'
  BY <1>2, <1>3, <1>5, <1>6 DEF WebhookInv, WebhookTyped
<1>8. FirstAttempts'
  BY <1>2, <1>5, <1>6 DEF WebhookInv, WebhookTyped, FirstAttempts
<1>9. SuccessesAccepted'
  <2>1. \A d \in Deliveries : sending'[d].stage = "ok" => accepted'[d]
    BY <1>3, <1>5, <1>6 DEF WebhookInv, WebhookTyped, SuccessesAccepted
  <2>2. ASSUME NEW s \in Servers, retrying[s] # <<>>, stage[s] = "ok"
        PROVE  accepted'[Head(retrying[s]).delivery]
    <3>1. Head(retrying[s]) \in BatchEntry
      BY <2>2 DEF WebhookInv, WebhookTyped
    <3> QED BY <1>3, <2>2, <3>1 DEF WebhookInv, SuccessesAccepted, BatchEntry
  <2> QED BY <1>2, <2>1, <2>2 DEF SuccessesAccepted
<1> QED BY <1>3, <1>7, <1>8, <1>9 DEF WebhookInv

LEMMA RecordAttemptStep ==
    ASSUME WebhookInv, NEW k \in Deliveries, sendToWebhook(k)
    PROVE  WebhookInv' /\ Kept
<1>1. /\ sending[k].stage \in {"ok", "error"}
      /\ sending' = [sending EXCEPT ![k] = NotSending]
      /\ UNCHANGED <<announced, retrying, stage, accepted>>
  BY DEF sendToWebhook
<1>2. NotSending \in SendingRecord /\ NotSending.stage = "none"
  BY DEF NotSending, SendingRecord, PostStages
<1>3. row[k] = NoRecord /\ k[2] \in announced
  BY <1>1 DEF WebhookInv, FirstAttempts
<1>4. SuccessesAccepted'
  BY <1>1, <1>2 DEF WebhookInv, WebhookTyped, SuccessesAccepted
<1>5. CASE UNCHANGED row
  <2>1. WebhookTyped' /\ FirstAttempts'
    BY <1>1, <1>2, <1>5 DEF WebhookInv, WebhookTyped, FirstAttempts
  <2> QED BY <1>1, <1>4, <1>5, <2>1, NothingReported DEF WebhookInv
<1>6. ASSUME NEW outcome, \/ outcome = "error"
                          \/ outcome = "ok" /\ sending[k].stage = "ok",
             row' = [row EXCEPT ![k] = FirstRow(outcome)]
      PROVE  WebhookInv' /\ Kept
  <2>1. FirstRow(outcome) \in RowRecord
    BY <1>6, FirstRows
  <2>2. WebhookTyped'
    BY <1>1, <1>2, <1>6, <2>1 DEF WebhookInv, WebhookTyped
  <2>3. FirstAttempts'
    BY <1>1, <1>2, <1>3, <1>6 DEF WebhookInv, WebhookTyped, FirstAttempts
  <2>4. statusOf(row[k]) = "none"
    BY <1>3, StatusCases
  <2>5. accepted[k] \/ outcome = "error"
    BY <1>6 DEF WebhookInv, SuccessesAccepted
  <2>6. MayMove(statusOf(row[k]), statusOf(FirstRow(outcome)), accepted[k])
    BY <1>6, <2>4, <2>5, FirstRows DEF MayMove
  <2>7. Kept
    BY <1>1, <1>6, <2>6, RowMoves DEF WebhookInv
  <2> QED BY <1>4, <2>2, <2>3, <2>7 DEF WebhookInv
<1>7. \/ UNCHANGED row
      \/ row' = [row EXCEPT ![k] = FirstRow("error")]
      \/ sending[k].stage = "ok" /\ row' = [row EXCEPT ![k] = FirstRow("ok")]
  BY <1>1 DEF sendToWebhook
<1> QED BY <1>5, <1>6, <1>7

LEMMA BatchStep ==
    ASSUME WebhookInv, NEW s \in Servers, processRetries(s)
    PROVE  WebhookInv' /\ Kept
<1>1. PICK batch \in Seq(BatchEntry) : retrying' = [retrying EXCEPT ![s] = batch]
  BY BatchTyped DEF processRetries, WebhookInv
<1>2. stage' = [stage EXCEPT ![s] = "post"] /\ UNCHANGED <<announced, sending, row, accepted>>
  BY DEF processRetries
<1>3. WebhookTyped'
  BY <1>1, <1>2 DEF WebhookInv, WebhookTyped, PostStages
<1>4. FirstAttempts'
  BY <1>2 DEF WebhookInv, FirstAttempts
<1>5. SuccessesAccepted'
  BY <1>1, <1>2 DEF WebhookInv, WebhookTyped, SuccessesAccepted
<1> QED BY <1>2, <1>3, <1>4, <1>5, NothingReported DEF WebhookInv

LEMMA RetryPostStep ==
    ASSUME WebhookInv, NEW s \in Servers, RetryPost(s)
    PROVE  WebhookInv' /\ Kept
<1>1. PICK k : k = Head(retrying[s]).delivery
  OBVIOUS
<1>2. PICK outcome \in {"ok", "error"} :
          postWebhook(k, outcome) /\ stage' = [stage EXCEPT ![s] = outcome]
  BY <1>1 DEF RetryPost
<1>3. retrying[s] # <<>> /\ UNCHANGED <<announced, sending, row, retrying>>
  BY DEF RetryPost
<1>4. \A u \in Servers : retrying[u] # <<>> => Head(retrying[u]).delivery \in Deliveries
  <2> SUFFICES ASSUME NEW u \in Servers, retrying[u] # <<>>
               PROVE  Head(retrying[u]).delivery \in Deliveries
    OBVIOUS
  <2>1. Head(retrying[u]) \in BatchEntry
    BY DEF WebhookInv, WebhookTyped
  <2> QED BY <2>1 DEF BatchEntry
<1>5. /\ accepted' \in [Deliveries -> BOOLEAN]
      /\ \A d \in Deliveries : accepted[d] => accepted'[d]
      /\ outcome = "ok" => accepted'[k]
      /\ Kept
  BY <1>1, <1>2, <1>3, <1>4, Posted DEF WebhookInv
<1>6. WebhookTyped'
  BY <1>2, <1>3, <1>5 DEF WebhookInv, WebhookTyped, PostStages
<1>7. FirstAttempts'
  BY <1>3 DEF WebhookInv, FirstAttempts
<1>8. SuccessesAccepted'
  <2>1. \A d \in Deliveries : sending[d].stage = "ok" => accepted'[d]
    BY <1>5 DEF WebhookInv, SuccessesAccepted
  <2>2. ASSUME NEW u \in Servers, retrying[u] # <<>>, stage'[u] = "ok"
        PROVE  accepted'[Head(retrying[u]).delivery]
    <3>1. CASE u = s
      BY <1>1, <1>2, <1>5, <2>2, <3>1 DEF WebhookInv, WebhookTyped
    <3>2. CASE u # s
      BY <1>2, <1>4, <1>5, <2>2, <3>2 DEF WebhookInv, WebhookTyped, SuccessesAccepted
    <3> QED BY <3>1, <3>2
  <2> QED BY <1>3, <2>1, <2>2 DEF SuccessesAccepted
<1> QED BY <1>5, <1>6, <1>7, <1>8 DEF WebhookInv

LEMMA UpdateStep ==
    ASSUME WebhookInv, NEW s \in Servers, retryWebhookDelivery(s)
    PROVE  WebhookInv' /\ Kept
<1>1. PICK k : k = Head(retrying[s]).delivery
  OBVIOUS
<1>2. PICK n : n = Head(retrying[s]).attempts
  OBVIOUS
<1>3. /\ retrying[s] # <<>> /\ stage[s] \in {"ok", "error"}
      /\ UNCHANGED <<announced, sending, accepted>>
  BY DEF retryWebhookDelivery
<1>4. k \in Deliveries /\ n \in Nat
  <2>1. Head(retrying[s]) \in BatchEntry
    BY <1>3 DEF WebhookInv, WebhookTyped
  <2> QED BY <1>1, <1>2, <2>1 DEF BatchEntry
<1>5. PICK rest \in Seq(BatchEntry) :
          /\ retrying' = [retrying EXCEPT ![s] = rest]
          /\ stage' = [stage EXCEPT ![s] = IF rest = <<>> THEN "none" ELSE "post"]
  <2>1. Tail(retrying[s]) \in Seq(BatchEntry) /\ <<>> \in Seq(BatchEntry)
    BY <1>3 DEF WebhookInv, WebhookTyped
  <2> QED BY <2>1 DEF retryWebhookDelivery, NextInBatch
<1>6. SuccessesAccepted'
  BY <1>3, <1>5 DEF WebhookInv, WebhookTyped, SuccessesAccepted
<1>7. retrying' \in [Servers -> Seq(BatchEntry)] /\ stage' \in [Servers -> PostStages]
  BY <1>5 DEF WebhookInv, WebhookTyped, PostStages
<1>8. CASE UNCHANGED row
  <2>1. WebhookTyped' /\ FirstAttempts'
    BY <1>3, <1>7, <1>8 DEF WebhookInv, WebhookTyped, FirstAttempts
  <2> QED BY <1>3, <1>6, <1>8, <2>1, NothingReported DEF WebhookInv
<1>9. ASSUME NEW r, row[k] # NoRecord, row' = [row EXCEPT ![k] = r],
             \/ r = AfterFailure(row[k], n)
             \/ r = AfterSuccess(row[k], n) /\ stage[s] = "ok"
      PROVE  WebhookInv' /\ Kept
  <2>1. row[k] \in RowRecord
    BY <1>4 DEF WebhookInv, WebhookTyped
  <2>2. accepted[k] \in BOOLEAN
    BY <1>4 DEF WebhookInv, WebhookTyped
  <2>3. r \in RowRecord
    BY <1>4, <1>9, <2>1, RetriedRows
  <2>4. WebhookTyped'
    BY <1>3, <1>4, <1>7, <1>9, <2>3 DEF WebhookInv, WebhookTyped
  <2>5. FirstAttempts'
    BY <1>3, <1>4, <1>9 DEF WebhookInv, WebhookTyped, FirstAttempts
  <2>6. MayMove(statusOf(row[k]), statusOf(r), accepted[k])
    <3>1. CASE r = AfterFailure(row[k], n)
      BY <1>4, <1>9, <2>1, <2>2, <3>1, RetriedRows
    <3>2. CASE r = AfterSuccess(row[k], n) /\ stage[s] = "ok"
      <4>1. accepted[k] = TRUE
        BY <1>1, <1>3, <2>2, <3>2 DEF WebhookInv, SuccessesAccepted
      <4>2. statusOf(r) = "made" /\ MayMove(statusOf(row[k]), "made", TRUE)
        BY <1>4, <1>9, <2>1, <3>2, RetriedRows
      <4> QED BY <4>1, <4>2
    <3> QED BY <1>9, <3>1, <3>2
  <2>7. Kept
    BY <1>3, <1>4, <1>9, <2>6, RowMoves DEF WebhookInv
  <2> QED BY <1>6, <2>4, <2>5, <2>7 DEF WebhookInv
<1>10. \/ UNCHANGED row
       \/ row' = Updated(k, AfterFailure(row[k], n))
       \/ stage[s] = "ok" /\ row' = Updated(k, AfterSuccess(row[k], n))
  BY <1>1, <1>2, <1>3, Zenon DEF retryWebhookDelivery
<1>11. ASSUME NEW r, row' = Updated(k, r)
       PROVE  \/ UNCHANGED row
              \/ row[k] # NoRecord /\ row' = [row EXCEPT ![k] = r]
  BY <1>11 DEF Updated
<1> HIDE DEF WebhookInv
<1> QED BY <1>8, <1>9, <1>10, <1>11

(* A row whose retry comes a tick closer says what it said.                *)
LEMMA TickStep ==
    ASSUME WebhookInv, HookTick
    PROVE  WebhookInv' /\ Kept
<1>1. /\ row' = [k \in Deliveries |-> IF row[k].due > 0 THEN [row[k] EXCEPT !.due = @ - 1]
                                      ELSE row[k]]
      /\ UNCHANGED <<announced, sending, retrying, stage, accepted>>
  BY DEF HookTick
<1>2. ASSUME NEW k \in Deliveries
      PROVE  /\ row'[k] \in RowRecord /\ statusOf(row'[k]) = statusOf(row[k])
             /\ row[k] = NoRecord => row'[k] = NoRecord
  <2>1. row[k] \in RowRecord
    BY DEF WebhookInv, WebhookTyped
  <2>2. CASE row[k].due > 0
    <3>1. PICK d : d = row[k].due - 1
      OBVIOUS
    <3>2. d \in Nat /\ d # Never /\ row[k].due # Never
      BY <2>1, <2>2, <3>1 DEF RowRecord, Never
    <3>3. PICK r : r = [row[k] EXCEPT !.due = d]
      OBVIOUS
    <3>4. r \in RowRecord /\ r.delivered = row[k].delivered /\ r.due = d
      BY <2>1, <3>2, <3>3 DEF RowRecord
    <3>5. row'[k] = r
      BY <1>1, <2>2, <3>1, <3>3
    <3>6. r # NoRecord /\ row[k] # NoRecord
      BY <3>2, <3>4 DEF NoRecord
    <3>7. statusOf(r) = statusOf(row[k])
      BY <3>2, <3>4, <3>6, StatusCases
    <3> QED BY <3>4, <3>5, <3>6, <3>7
  <2>3. CASE ~(row[k].due > 0)
    <3>1. row'[k] = row[k]
      BY <1>1, <2>3
    <3> QED BY <2>1, <3>1
  <2> QED BY <2>2, <2>3
<1>3. WebhookTyped'
  BY <1>1, <1>2 DEF WebhookInv, WebhookTyped
<1>4. FirstAttempts' /\ SuccessesAccepted'
  BY <1>1, <1>2 DEF WebhookInv, FirstAttempts, SuccessesAccepted
<1>5. Kept
  BY <1>1, <1>2 DEF Kept, Promised!abstractVars
<1> QED BY <1>3, <1>4, <1>5 DEF WebhookInv

LEMMA RestartStep ==
    ASSUME WebhookInv, NEW s \in Servers, ServerRestarts(s)
    PROVE  WebhookInv' /\ Kept
<1>1. /\ retrying' = [retrying EXCEPT ![s] = <<>>]
      /\ stage' = [stage EXCEPT ![s] = "none"]
      /\ sending' = [k \in Deliveries |-> IF sending[k].by = s THEN NotSending ELSE sending[k]]
      /\ UNCHANGED <<announced, row, accepted>>
  BY DEF ServerRestarts
<1>2. NotSending \in SendingRecord /\ NotSending.stage = "none"
  BY DEF NotSending, SendingRecord, PostStages
<1>3. WebhookTyped'
  BY <1>1, <1>2 DEF WebhookInv, WebhookTyped, PostStages
<1>4. FirstAttempts' /\ SuccessesAccepted'
  BY <1>1, <1>2 DEF WebhookInv, WebhookTyped, FirstAttempts, SuccessesAccepted
<1> QED BY <1>1, <1>3, <1>4, NothingReported DEF WebhookInv

LEMMA WebhookStep == WebhookInv /\ [WebhookNext]_webhookVars => WebhookInv' /\ Kept
<1> SUFFICES ASSUME WebhookInv, [WebhookNext]_webhookVars PROVE WebhookInv' /\ Kept
  OBVIOUS
<1>1. CASE UNCHANGED webhookVars
  BY <1>1, NothingReported DEF webhookVars, WebhookInv, WebhookTyped, FirstAttempts, SuccessesAccepted
<1> HIDE DEF WebhookInv
<1>2. ASSUME NEW s \in Servers, ProcessorStep(s) PROVE WebhookInv' /\ Kept
  BY <1>2, BatchStep, RetryPostStep, UpdateStep DEF ProcessorStep
<1> QED BY <1>1, <1>2, SubscriptionStep, FirstDeliveriesStep, FirstPostStep, RecordAttemptStep, RestartStep, TickStep
        DEF WebhookNext

(* The delivery log of WebhookDelivery implements the reports of Delivery: *)
(* for any subscriptions, events, retry delays and competing processors,   *)
(* lost answers, failing statements and restarts, a row says delivered     *)
(* only after the endpoint accepted the event and says so until its        *)
(* subscription is deleted.                                                *)
THEOREM DeliveryReportsAreTrue == WebhookSpec => Promised!TrueReports
<1>1. WebhookInv /\ [WebhookNext]_webhookVars => [Promised!Step]_(Promised!abstractVars)
  BY WebhookStep DEF Kept
<1> QED BY StartsAsPromised, WebhookInitial, WebhookStep, <1>1, PTL
        DEF WebhookSpec, Promised!TrueReports

------------------------------------------------------------------------------
(* The default checker: no run deletes a lock that is another process's.   *)

(* What a process remembers of the lock is one of its own runs: the value  *)
(* of another of its runs, perhaps, but never of another process.          *)
KeeperInv ==
    /\ checkerLock \in Runs \cup {NoRun}
    /\ lockValue \in [Processes -> Runs \cup {NoRun}]
    /\ \A p \in Processes : lockValue[p] # NoRun => ProcessOf(lockValue[p]) = p
    /\ DOMAIN checkRun = Runs /\ DOMAIN serving = Processes

LEMMA RunsHaveProcesses == \A r \in Runs : ProcessOf(r) \in Processes /\ r # NoRun
BY KeeperConstants DEF ProcessOf

LEMMA KeeperInvHolds == KeeperSpec => []KeeperInv
<1>1. KeeperInit => KeeperInv
  BY DEF KeeperInit, KeeperInv
<1>2. ASSUME KeeperInv, [KeeperNext]_keeperVars PROVE KeeperInv'
  <2> USE <1>2 DEF KeeperInv
  <2>1. ASSUME NEW p \in Processes, startServer(p) PROVE KeeperInv'
    BY <2>1 DEF startServer
  <2>2. ASSUME NEW p \in Processes, shutdown(p) PROVE KeeperInv'
    BY <2>2 DEF shutdown
  <2>3. ASSUME NEW r \in Runs, acquireLock(r) PROVE KeeperInv'
    BY <2>3, RunsHaveProcesses DEF acquireLock, RunGoto
  <2>4. ASSUME NEW r \in Runs, hasSuspectLedgerRanges(r) PROVE KeeperInv'
    BY <2>4 DEF hasSuspectLedgerRanges, RunGoto
  <2>5. ASSUME NEW r \in Runs, checkOverdueLoans(r) PROVE KeeperInv'
    BY <2>5 DEF checkOverdueLoans
  <2>6. ASSUME NEW r \in Runs, finishRun(r) PROVE KeeperInv'
    BY <2>6 DEF finishRun, RunGoto
  <2>7. ASSUME NEW r \in Runs, releaseLock(r) PROVE KeeperInv'
    BY <2>7, RunsHaveProcesses DEF releaseLock, RunGoto
  <2>8. ASSUME NEW r \in Runs, NEW batch, submitCheckDefaults(r, batch) PROVE KeeperInv'
    BY <2>8 DEF submitCheckDefaults
  <2>9. CASE checkerLockExpires
    BY <2>9 DEF checkerLockExpires
  <2>10. CASE UNCHANGED <<checkerLock, lockValue, checkRun, serving>>
    BY <2>10
  <2>11. ASSUME NEW l \in KeptLoans, ChainStep(l) PROVE KeeperInv'
    BY <2>10, <2>11 DEF ChainStep, defaultWindowEnds, liquidate, indexerSees, borrowerRepays, Elsewhere
  <2>12. ASSUME NEW batch \in lateBatches, lateBatchApplies(batch) PROVE KeeperInv'
    BY <2>10, <2>12 DEF lateBatchApplies
  <2>13. CASE gapFound
    BY <2>10, <2>13 DEF gapFound, Elsewhere
  <2>14. CASE loanFallsDue
    BY <2>10, <2>14 DEF loanFallsDue, Elsewhere
  <2>15. CASE UNCHANGED keeperVars
    BY <2>10, <2>15 DEF keeperVars
  <2> QED
    BY <2>1, <2>2, <2>3, <2>4, <2>5, <2>6, <2>7, <2>8, <2>9, <2>11, <2>12, <2>13, <2>14, <2>15
    DEF KeeperNext, RunStep
<1> QED BY <1>1, <1>2, PTL DEF KeeperSpec

(* LockFenced for any processes, runs, loans and batch sizes: an action    *)
(* that takes a run from its release to idle, other than the end of its    *)
(* process, compares the value with a run of the same process.             *)
THEOREM LockAlwaysFenced == KeeperSpec => LockFenced
<1>1. ASSUME KeeperInv, [KeeperNext]_keeperVars PROVE [FencedRelease]_keeperVars
  <2> SUFFICES ASSUME NEW r \in Runs, checkRun[r].pc = "release", checkRun'[r].pc = "idle",
                      serving' = serving, checkerLock # NoRun,
                      ProcessOf(checkerLock) # ProcessOf(r)
               PROVE  checkerLock' = checkerLock
    BY DEF FencedRelease
  <2> USE <1>1 DEF KeeperInv
  <2>1. ASSUME NEW p \in Processes, startServer(p) PROVE FALSE
    BY <2>1 DEF startServer
  <2>2. ASSUME NEW p \in Processes, shutdown(p) PROVE FALSE
    BY <2>2 DEF shutdown
  <2>3. ASSUME NEW s \in Runs, acquireLock(s) PROVE FALSE
    BY <2>3 DEF acquireLock
  <2>4. ASSUME NEW s \in Runs, RunStep(s), ~ releaseLock(s) PROVE checkerLock' = checkerLock
    BY <2>4 DEF RunStep, hasSuspectLedgerRanges, checkOverdueLoans, finishRun, submitCheckDefaults
  <2>5. ASSUME NEW s \in Runs, releaseLock(s) PROVE checkerLock' = checkerLock
    <3>1. s = r
      BY <2>5 DEF releaseLock, RunGoto
    <3> QED BY <2>5, <3>1, RunsHaveProcesses DEF releaseLock
  <2>6. CASE checkerLockExpires
    BY <2>6 DEF checkerLockExpires
  <2>7. ASSUME NEW l \in KeptLoans, ChainStep(l) PROVE checkerLock' = checkerLock
    BY <2>7 DEF ChainStep, defaultWindowEnds, liquidate, indexerSees, borrowerRepays, Elsewhere
  <2>8. ASSUME NEW batch \in lateBatches, lateBatchApplies(batch) PROVE checkerLock' = checkerLock
    BY <2>8 DEF lateBatchApplies
  <2>9. CASE gapFound
    BY <2>9 DEF gapFound, Elsewhere
  <2>10. CASE loanFallsDue
    BY <2>10 DEF loanFallsDue, Elsewhere
  <2>11. CASE UNCHANGED keeperVars
    BY <2>11 DEF keeperVars
  <2> QED
    BY <2>1, <2>2, <2>3, <2>4, <2>5, <2>6, <2>7, <2>8, <2>9, <2>10, <2>11 DEF KeeperNext
<1> QED BY <1>1, KeeperInvHolds, PTL DEF KeeperSpec, LockFenced
==============================================================================
