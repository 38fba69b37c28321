---------------------------- MODULE EventIndexer ----------------------------
(***************************************************************************)
(* The event indexer of the backend (services/eventIndexer.ts), the pause  *)
(* flag and the score rows it maintains, and the admin endpoints that run  *)
(* it (controllers/indexerController.ts).                                  *)
(*                                                                         *)
(* A process runs one poller and may serve one admin request at the same   *)
(* time; both are workers.  A worker's steps are the stretches between two *)
(* awaits that another worker, or a crash, can tell apart.  Events are     *)
(* numbered in chain order.                                                *)
(***************************************************************************)
EXTENDS Integers, Sequences, FiniteSets, SequencesExt

CONSTANTS
    IndexerProcesses, \* backend instances sharing one database
    Contracts,        \* the indexed contracts
    FirstContract,    \* getContractId(): the only one reindexRange visits
    Users,
    NEvents,          \* events 1..NEvents happen on the chain
    EventType,        \* [1..NEvents -> type]
    EventContract, EventLedger, EventLoan, EventUser,
    Malformed,        \* the events parseEvent throws on
    Unsupported,      \* the events parseEvent returns null for
    NoLoan, NoUser, NoRow,
    LedgersPerChunk,  \* ledgers per chunk
    MAX_TX_RETRIES,   \* withTransaction's maxRetries
    ScoreMin, ScoreMax, ScoreBase, RepaymentDelta, DefaultPenalty,
    MaxLedger, MaxIndexerFaults, MaxAdminJobs

Events == 1..NEvents
Workers == IndexerProcesses \X {"poll", "admin"}

ASSUME IndexerConstants ==
    /\ NEvents \in Nat /\ LedgersPerChunk \in Nat \ {0} /\ MAX_TX_RETRIES \in Nat
    /\ MaxLedger \in Nat /\ MaxIndexerFaults \in Nat /\ MaxAdminJobs \in Nat
    /\ FirstContract \in Contracts
    /\ EventLedger \in [Events -> 1..MaxLedger]
    /\ EventContract \in [Events -> Contracts]
    /\ EventLoan \in [Events -> Nat \cup {NoLoan}]
    /\ EventUser \in [Events -> Users \cup {NoUser}]
    /\ ScoreMin \in Nat /\ ScoreBase \in Nat /\ ScoreMax \in Nat
    /\ ScoreMin <= ScoreBase /\ ScoreBase <= ScoreMax

VARIABLES
    latest,           \* the chain's last closed ledger
    stored,           \* contract_events
    quarantined,      \* quarantine_events
    unrecorded,       \* malformed events whose quarantine insert failed
    scores,           \* scores: borrower -> score, NoRow without a row
    cursor,           \* indexer_state: contract -> last_ledger
    checkpoints,      \* ledger_checkpoints
    pauseRow,         \* pause_state.is_paused
    pausedHere,       \* process -> globalPauseState.isPaused
    understood,       \* malformed events the deployed parser now accepts
    worker,           \* what each worker is doing
    dispatched,       \* event -> how often side effects were started
    applied,          \* event -> how often its delta reached a score row
    indexerFaults, adminJobs \* counters behind the bounds

database == <<stored, quarantined, unrecorded, scores, cursor, checkpoints, pauseRow>>
counters == <<indexerFaults, adminJobs>>
indexerVars == <<latest, database, pausedHere, understood, worker, dispatched, applied, counters>>

Idle == [pc |-> "idle", job |-> "none", contract |-> FirstContract, from |-> 1,
         to |-> 0, until |-> 0, batch |-> {}, inserted |-> <<>>, attempt |-> 0,
         previous |-> 0]

------------------------------------------------------------------------------
(* Parsing and storing.                                                    *)

(* parseEvent throws on these: an address, an amount or a tuple that does  *)
(* not decode.                                                             *)
Unparsed == Malformed \ understood

(* decodeEventType finds a name, or an alias of one, that is supported.    *)
Typed == Events \ Unsupported

(* What parseEvent makes a row of.                                         *)
Parsed(batch) == (batch \cap Typed) \ Unparsed

(* The types with one row per loan; every other type has one row per loan  *)
(* and ledger (unique indexes that ON CONFLICT DO NOTHING falls under).    *)
OncePerLoan == {"LoanApproved", "LoanDefaulted"}

SameRow(e, f) ==
    \/ e = f
    \/ /\ EventLoan[e] # NoLoan /\ EventLoan[e] = EventLoan[f]
       /\ EventType[e] = EventType[f]
       /\ EventType[e] \in OncePerLoan \/ EventLedger[e] = EventLedger[f]

(* What storing the batch inserts: of equal rows, the first.               *)
Fresh(batch) ==
    {e \in batch : /\ \A s \in stored : ~SameRow(e, s)
                   /\ \A f \in batch : f < e => ~SameRow(e, f)}

InOrder(set) ==
    CHOOSE seq \in [1..Cardinality(set) -> set] :
        \A i, j \in DOMAIN seq : i < j => seq[i] < seq[j]

(* The delta an inserted event adds to scoreUpdates.                       *)
Scoring(e) ==
    EventUser[e] # NoUser /\ EventType[e] \in {"LoanRepaid", "LoanDefaulted", "CollateralLiquidated"}

DeltaOf(e) ==
    IF EventType[e] = "LoanRepaid" THEN RepaymentDelta ELSE -DefaultPenalty

(* A worker's scoreUpdates: insertedEvents and scoreUpdates are filled side *)
(* by side, outside the transaction callback.                              *)
DeltasFor(inserted, u) ==
    FoldLeft(LAMBDA sum, e : IF Scoring(e) /\ EventUser[e] = u
                             THEN sum + DeltaOf(e) ELSE sum, 0, inserted)

Touched(inserted) ==
    {u \in Users : \E i \in DOMAIN inserted : Scoring(inserted[i]) /\ EventUser[inserted[i]] = u}

Clamp(n) == IF n < ScoreMin THEN ScoreMin ELSE IF n > ScoreMax THEN ScoreMax ELSE n

(* The row the upsert writes: it proposes ScoreBase - delta, and on        *)
(* conflict adds the proposal's distance from ScoreBase.                   *)
applyScoreUpdates(inserted) ==
    [u \in Users |->
        LET excluded == Clamp(ScoreBase - DeltasFor(inserted, u))
        IN  IF u \notin Touched(inserted) THEN scores[u]
            ELSE IF scores[u] = NoRow THEN excluded
            ELSE Clamp(scores[u] + excluded - ScoreBase)]

Times(seq, e) == Cardinality({i \in DOMAIN seq : seq[i] = e})

------------------------------------------------------------------------------
(* A poll iteration and the admin jobs: what each fetches.                 *)

Become(w, record) == worker' = [worker EXCEPT ![w] = record]

BeginPoll(w, c) ==
    /\ w[2] = "poll" /\ worker[w].pc = "idle"
    /\ latest > cursor[c]
    /\ LET from == cursor[c] + 1
           end == from + LedgersPerChunk - 1
           to == IF end < latest THEN end ELSE latest
       IN  Become(w, [Idle EXCEPT !.pc = "fetch", !.job = "poll", !.contract = c,
                                  !.from = from, !.to = to, !.until = to])
    /\ UNCHANGED <<latest, database, pausedHere, understood, dispatched, applied, counters>>

(* reindexLedgerRange checks the range it is asked for ...                 *)
RangeAllowed(from, until) == from >= 1 /\ from <= until

(* ... and reindexRange goes through it chunk by chunk, always of the first *)
(* configured contract.                                                    *)
BeginReindex(w, from, until) ==
    LET end == from + LedgersPerChunk - 1
    IN  /\ w[2] = "admin" /\ worker[w].pc = "idle"
        /\ adminJobs < MaxAdminJobs
        /\ RangeAllowed(from, until)
        /\ Become(w, [Idle EXCEPT !.pc = "fetch", !.job = "reindex", !.from = from,
                          !.to = IF end < until THEN end ELSE until, !.until = until])
        /\ adminJobs' = adminJobs + 1
        /\ UNCHANGED <<latest, database, pausedHere, understood, dispatched, applied, indexerFaults>>

(* The rows that decode and parse by now.                                  *)
Reparsed == {e \in quarantined : e \notin Unparsed}

(* reprocessQuarantinedEvents, for one row: an event that still does not   *)
(* parse is counted as failed and stays.                                   *)
BeginReprocess(w, e) ==
    /\ w[2] = "admin" /\ worker[w].pc = "idle"
    /\ adminJobs < MaxAdminJobs
    /\ e \in Reparsed
    /\ Become(w, [Idle EXCEPT !.pc = "store", !.job = "reprocess", !.batch = {e}])
    /\ adminJobs' = adminJobs + 1
    /\ UNCHANGED <<latest, database, pausedHere, understood, dispatched, applied, indexerFaults>>

InChunk(w) ==
    {e \in Events : /\ EventContract[e] = worker[w].contract
                    /\ EventLedger[e] \in worker[w].from..worker[w].to
                    /\ EventLedger[e] <= latest}

(* Where a worker goes once its chunk is stored and dispatched.            *)
AfterChunk(w) ==
    LET next == worker[w].to + 1
        end == next + LedgersPerChunk - 1
    IN  CASE worker[w].job = "poll" -> [worker[w] EXCEPT !.pc = "checkpoint"]
          [] worker[w].job = "reprocess" -> [worker[w] EXCEPT !.pc = "release"]
          [] OTHER -> IF next > worker[w].until THEN Idle
                      ELSE [Idle EXCEPT !.pc = "fetch", !.job = "reindex", !.from = next,
                                !.to = IF end < worker[w].until THEN end ELSE worker[w].until,
                                !.until = worker[w].until]

(* quarantineEvent: an insert that fails is only logged.                   *)
quarantineEvent(batch) ==
    \E missed \in SUBSET batch :
        /\ missed # {} => indexerFaults < MaxIndexerFaults
        /\ indexerFaults' = indexerFaults + (IF missed = {} THEN 0 ELSE 1)
        /\ quarantined' = quarantined \cup (batch \ missed)
        /\ unrecorded' = unrecorded \cup (missed \ quarantined)

(* Fetching, and parsing what came: malformed events go to quarantine.     *)
Fetch(w) ==
    LET good == Parsed(InChunk(w))
    IN  /\ worker[w].pc = "fetch"
        /\ quarantineEvent(InChunk(w) \cap Typed \cap Unparsed)
        /\ Become(w, IF good = {} THEN AfterChunk(w)
                     ELSE [worker[w] EXCEPT !.pc = "store", !.batch = good])
        /\ UNCHANGED <<latest, stored, scores, cursor, checkpoints, pauseRow, pausedHere,
                       understood, dispatched, applied, adminJobs>>

------------------------------------------------------------------------------
(* storeEvents: the transaction and its retries.                           *)

Commit(w) ==
    LET inserted == worker[w].inserted \o InOrder(Fresh(worker[w].batch))
    IN  /\ worker[w].pc = "store"
        /\ stored' = stored \cup Fresh(worker[w].batch)
        /\ scores' = applyScoreUpdates(inserted)
        /\ applied' = [e \in Events |->
               applied[e] + (IF Scoring(e) THEN Times(inserted, e) ELSE 0)]
        /\ Become(w, [worker[w] EXCEPT !.pc = "dispatch", !.inserted = inserted])
        /\ UNCHANGED <<latest, quarantined, unrecorded, cursor, checkpoints, pauseRow,
                       pausedHere, understood, dispatched, counters>>

(* A transient error rolls the transaction back after some of the inserts  *)
(* and runs the callback again; what it pushed stays pushed.               *)
RetryTransaction(w) ==
    /\ worker[w].pc = "store"
    /\ worker[w].attempt < MAX_TX_RETRIES
    /\ indexerFaults < MaxIndexerFaults
    /\ indexerFaults' = indexerFaults + 1
    /\ \E upto \in {0} \cup Fresh(worker[w].batch) :
          Become(w, [worker[w] EXCEPT
                        !.attempt = @ + 1,
                        !.inserted = @ \o InOrder({e \in Fresh(worker[w].batch) : e <= upto})])
    /\ UNCHANGED <<latest, database, pausedHere, understood, dispatched, applied, adminJobs>>

Fail_Swallowed(w) ==
    /\ worker[w].pc = "store"
    /\ indexerFaults < MaxIndexerFaults
    /\ indexerFaults' = indexerFaults + 1
    /\ Become(w, [worker[w] EXCEPT !.pc = "dispatch"])
    /\ UNCHANGED <<latest, database, pausedHere, understood, dispatched, applied, adminJobs>>

Fail_Unscheduled(w) ==
    /\ worker[w].pc \notin {"idle", "dispatch", "stopped"}
    /\ indexerFaults < MaxIndexerFaults
    /\ indexerFaults' = indexerFaults + 1
    /\ Become(w, [Idle EXCEPT !.pc = "stopped"])
    /\ UNCHANGED <<latest, database, pausedHere, understood, dispatched, applied, adminJobs>>

(* Any other error, of the RPC or the database, ends the iteration: the    *)
(* poller starts over at the cursor, an admin request answers 500.         *)
Fail(w) ==
    /\ worker[w].pc \notin {"idle", "dispatch"}
    /\ indexerFaults < MaxIndexerFaults
    /\ indexerFaults' = indexerFaults + 1
    /\ Become(w, Idle)
    /\ UNCHANGED <<latest, database, pausedHere, understood, dispatched, applied, adminJobs>>

------------------------------------------------------------------------------
(* After the commit: side effects, the pause flag, checkpoint and cursor.  *)

IsPauseEvent(e) == EventType[e] \in {"PoolPaused", "PoolUnpaused"}

(* The row of all instances, then the flag of this one.                    *)
setPauseState(p, flag) ==
    /\ pauseRow' = flag
    /\ pausedHere' = [pausedHere EXCEPT ![p] = flag]

(* Webhooks, stream and notification of the next inserted event are        *)
(* started without waiting; a pause event awaits setPauseState, whose      *)
(* error ends the loop.  (It hands JSON to a TEXT[] column, which Postgres *)
(* refuses, so the error is the rule; the properties hold with either.)    *)
Dispatch(w) ==
    LET e == Head(worker[w].inserted)
    IN  /\ worker[w].pc = "dispatch" /\ worker[w].inserted # <<>>
        /\ dispatched' = [dispatched EXCEPT ![e] = @ + 1]
        /\ \/ /\ IF IsPauseEvent(e) THEN setPauseState(w[1], EventType[e] = "PoolPaused")
                 ELSE UNCHANGED <<pauseRow, pausedHere>>
              /\ Become(w, [worker[w] EXCEPT !.inserted = Tail(@)])
           \/ /\ IsPauseEvent(e)
              /\ Become(w, Idle)
              /\ UNCHANGED <<pauseRow, pausedHere>>
        /\ UNCHANGED <<latest, stored, quarantined, unrecorded, scores, cursor, checkpoints,
                       understood, applied, counters>>

EndDispatch(w) ==
    /\ worker[w].pc = "dispatch" /\ worker[w].inserted = <<>>
    /\ Become(w, AfterChunk(w))
    /\ UNCHANGED <<latest, database, pausedHere, understood, dispatched, applied, counters>>

(* reprocessQuarantinedEvents deletes the row once the event is ingested.  *)
ReleaseQuarantined(w) ==
    /\ worker[w].pc = "release"
    /\ quarantined' = quarantined \ worker[w].batch
    /\ Become(w, Idle)
    /\ UNCHANGED <<latest, stored, unrecorded, scores, cursor, checkpoints, pauseRow,
                   pausedHere, understood, dispatched, applied, counters>>

RangeEnds(c) == {k.end : k \in {k \in checkpoints : k.contract = c}}

(* recordCheckpoint reads the last range of the contract ...               *)
ReadCheckpoint(w) ==
    LET ends == RangeEnds(worker[w].contract)
    IN  /\ worker[w].pc = "checkpoint"
        /\ Become(w, [worker[w] EXCEPT !.pc = "record",
               !.previous = IF ends = {} THEN -1 ELSE CHOOSE m \in ends : \A n \in ends : n <= m])
        /\ UNCHANGED <<latest, database, pausedHere, understood, dispatched, applied, counters>>

(* ... and then records its own, with a suspect range for a gap before it. *)
(* The suspect range is a statement of its own in the code, and one that   *)
(* never runs: only pollers record, each from the ledger after the cursor, *)
(* and a range is recorded before the cursor moves over it.  An action of  *)
(* its own for it could not fire, so it is part of this one.               *)
recordCheckpoint(w) ==
    LET c == worker[w].contract
        previous == worker[w].previous
        range(a, b, status) == [contract |-> c, start |-> a, end |-> b, status |-> status]
        gap == IF previous # -1 /\ worker[w].from > previous + 1
               THEN {range(previous + 1, worker[w].from - 1, "suspect")} ELSE {}
    IN  /\ worker[w].pc = "record"
        /\ checkpoints' = checkpoints \cup gap
                              \cup {range(worker[w].from, worker[w].to, "verified")}
        /\ Become(w, [worker[w] EXCEPT !.pc = "advance"])
        /\ UNCHANGED <<latest, stored, quarantined, unrecorded, scores, cursor, pauseRow,
                       pausedHere, understood, dispatched, applied, counters>>

updateLastIndexedLedger_ToLatest(w) ==
    /\ worker[w].pc = "advance"
    /\ cursor' = [cursor EXCEPT ![worker[w].contract] = latest]
    /\ Become(w, Idle)
    /\ UNCHANGED <<latest, stored, quarantined, unrecorded, scores, checkpoints, pauseRow,
                   pausedHere, understood, dispatched, applied, counters>>

(* GREATEST(last_ledger, $1).                                              *)
updateLastIndexedLedger(w) ==
    /\ worker[w].pc = "advance"
    /\ cursor' = [cursor EXCEPT ![worker[w].contract] =
                     IF worker[w].to > @ THEN worker[w].to ELSE @]
    /\ Become(w, Idle)
    /\ UNCHANGED <<latest, stored, quarantined, unrecorded, scores, checkpoints, pauseRow,
                   pausedHere, understood, dispatched, applied, counters>>

------------------------------------------------------------------------------
(* The processes and the chain.                                            *)

(* updatePauseStateFromDatabase, behind GET /status.                       *)
RefreshPause(p) ==
    /\ pausedHere[p] # pauseRow
    /\ pausedHere' = [pausedHere EXCEPT ![p] = pauseRow]
    /\ UNCHANGED <<latest, database, understood, worker, dispatched, applied, counters>>

(* The flag is loaded before the process serves.                           *)
initializePauseState(p) == pausedHere' = [pausedHere EXCEPT ![p] = pauseRow]

(* A process dies, perhaps for a new release with a better parser, and     *)
(* starts again.                                                           *)
Restart(p) ==
    /\ indexerFaults < MaxIndexerFaults
    /\ indexerFaults' = indexerFaults + 1
    /\ worker' = [w \in Workers |-> IF w[1] = p THEN Idle ELSE worker[w]]
    /\ initializePauseState(p)
    /\ understood' \in {understood, Malformed}
    /\ UNCHANGED <<latest, database, dispatched, applied, adminJobs>>

CloseLedger ==
    /\ latest < MaxLedger
    /\ latest' = latest + 1
    /\ UNCHANGED <<database, pausedHere, understood, worker, dispatched, applied, counters>>

IndexerInit ==
    /\ latest = 0
    /\ stored = {} /\ quarantined = {} /\ unrecorded = {}
    /\ scores = [u \in Users |-> NoRow]
    /\ cursor = [c \in Contracts |-> 0]
    /\ checkpoints = {}
    /\ pauseRow = FALSE /\ pausedHere = [p \in IndexerProcesses |-> FALSE]
    /\ understood = {}
    /\ worker = [w \in Workers |-> Idle]
    /\ dispatched = [e \in Events |-> 0] /\ applied = [e \in Events |-> 0]
    /\ indexerFaults = 0 /\ adminJobs = 0

(* What a worker does by itself once begun.                                *)
Proceed(w) ==
    \/ Fetch(w) \/ Commit(w) \/ Dispatch(w) \/ EndDispatch(w) \/ ReleaseQuarantined(w)
    \/ ReadCheckpoint(w) \/ recordCheckpoint(w) \/ updateLastIndexedLedger(w)

WorkerNext(w) ==
    \/ Proceed(w) \/ RetryTransaction(w) \/ Fail(w)
    \/ \E c \in Contracts : BeginPoll(w, c)
    \/ \E from, until \in 1..MaxLedger : BeginReindex(w, from, until)
    \/ \E e \in Events : BeginReprocess(w, e)

IndexerNext ==
    \/ \E w \in Workers : WorkerNext(w)
    \/ \E p \in IndexerProcesses : RefreshPause(p) \/ Restart(p)
    \/ CloseLedger

(* The timers of a running process keep firing, and what is awaited        *)
(* settles: every poller step is weakly fair.                              *)
PollerFairness ==
    \A p \in IndexerProcesses :
        /\ WF_indexerVars(Proceed(<<p, "poll">>))
        /\ \A c \in Contracts : WF_indexerVars(BeginPoll(<<p, "poll">>, c))

IndexerSpec == IndexerInit /\ [][IndexerNext]_indexerVars /\ PollerFairness

------------------------------------------------------------------------------
(* Correctness.                                                            *)

(* The event is in the table: itself, or the row its unique key met.       *)
HasRow(e) == \E s \in stored : SameRow(e, s)

Accounted(e) == HasRow(e) \/ e \in quarantined \cup unrecorded \cup Unsupported

EventsAccounted ==
    \A e \in Events : EventLedger[e] <= cursor[EventContract[e]] => Accounted(e)

CheckpointsContiguous ==
    \A c \in Contracts : \A l \in 1..cursor[c] :
        \E k \in checkpoints : k.contract = c /\ l \in k.start..k.end

(* Nothing behind the cursor was skipped, whatever failed, crashed or ran  *)
(* twice: an event of a ledger the poller has moved past is in the table   *)
(* (itself, or the row its unique key collides with), in quarantine, of no *)
(* interest, or was reported when its quarantine insert failed; and the    *)
(* checkpoints account for every ledger up to the cursor (the              *)
(* contiguous-cursor invariant of recordCheckpoint).                       *)
CursorCovers == EventsAccounted /\ CheckpointsContiguous

(* Side effects follow the commit: events are pushed for dispatch while    *)
(* the transaction may still roll back, yet none of a rolled back or       *)
(* failed transaction is announced, or counted in a score, before a row of *)
(* its key is in the table.  (The row may be another event's: one that a   *)
(* retried transaction pushed may have lost to a concurrent insert.)       *)
EffectsFollowCommit ==
    \A e \in Events : dispatched[e] + applied[e] > 0 => HasRow(e)

(* "both the event inserts and the score changes are committed or rolled   *)
(* back together" (storeEvents): an event moves its borrower's score once. *)
ScoreCountsOnce == \A e \in Events : applied[e] <= 1

(* The poller catches up with the chain after the last fault.              *)
CatchesUp == \A c \in Contracts : <>[](cursor[c] = latest)
==============================================================================
