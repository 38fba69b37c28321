----------------------------- MODULE Idempotency -----------------------------
(***************************************************************************)
(* The Idempotency-Key middleware (middleware/idempotency.ts) over Redis   *)
(* (services/cacheService.ts), for requests of several processes.  Every   *)
(* await is a step of its own; the handler behind it is one step.          *)
(***************************************************************************)
EXTENDS Integers, FiniteSets

CONSTANTS
    Calls,              \* requests, retries included
    CallKey,            \* [Calls -> Idempotency-Key]
    CallPrint,          \* [Calls -> fingerprint: method, path and body hash]
    NoCall,
    MaxKeyFaults        \* Redis errors, early expiries and crashes

ASSUME IdempotencyConstants ==
    /\ IsFiniteSet(Calls)
    /\ NoCall \notin Calls
    /\ Calls \cap {"none", "fresh", "serverError", "conflict"} = {}

Keys == {CallKey[c] : c \in Calls}

VARIABLES
    call,               \* call -> where it is in the middleware
    outcome,            \* call -> "none", "fresh", "serverError", "conflict" or the call replayed
    locks,              \* key -> the call whose reservation Redis holds, or NoCall
    responses,          \* key -> the call whose response Redis holds, or NoCall
    ran,                \* the calls whose handler has run
    lapses,             \* key -> reservations that expired under a running handler
    keyFaults

idempotencyVars == <<call, outcome, locks, responses, ran, lapses, keyFaults>>

IdempotencyInit ==
    /\ call = [c \in Calls |-> "client"]
    /\ outcome = [c \in Calls |-> "none"]
    /\ locks = [k \in Keys |-> NoCall]
    /\ responses = [k \in Keys |-> NoCall]
    /\ ran = {}
    /\ lapses = [k \in Keys |-> 0]
    /\ keyFaults = 0

(* Every operation of cacheService swallows a Redis error.                 *)
RedisOk == UNCHANGED keyFaults
RedisFails == keyFaults < MaxKeyFaults /\ keyFaults' = keyFaults + 1

Answer(c, how) ==
    /\ call' = [call EXCEPT ![c] = "answered"]
    /\ outcome' = [outcome EXCEPT ![c] = how]

(* Fault: the cached response is replayed without comparing fingerprints.         *)
lookup_Faulty(c) ==
    /\ call[c] = "client"
    /\ IF responses[CallKey[c]] = NoCall
       THEN call' = [call EXCEPT ![c] = "reserve"] /\ UNCHANGED outcome
       ELSE Answer(c, responses[CallKey[c]])
    /\ UNCHANGED <<locks, responses, ran, lapses, keyFaults>>

(* The request arrives; the cached response is read.  A read that fails is *)
(* a miss.                                                                 *)
lookup(c) ==
    LET cached == responses[CallKey[c]]
        Miss == call' = [call EXCEPT ![c] = "reserve"] /\ UNCHANGED outcome
    IN  /\ call[c] = "client"
        /\ \/ /\ RedisOk
              /\ \/ cached = NoCall /\ Miss
                 \/ /\ cached # NoCall
                    /\ Answer(c, IF CallPrint[cached] = CallPrint[c] THEN cached
                                 ELSE "conflict")
           \/ RedisFails /\ Miss
        /\ UNCHANGED <<locks, responses, ran, lapses>>

(* SET NX: a key that exists and a Redis error both answer 409.            *)
setNotExists(c) ==
    LET k == CallKey[c]
    IN  /\ call[c] = "reserve"
        /\ \/ /\ RedisOk /\ locks[k] = NoCall
              /\ locks' = [locks EXCEPT ![k] = c]
              /\ call' = [call EXCEPT ![c] = "handler"]
              /\ UNCHANGED outcome
           \/ /\ \/ RedisOk /\ locks[k] # NoCall
                 \/ RedisFails
              /\ Answer(c, "conflict")
              /\ UNCHANGED locks
        /\ UNCHANGED <<responses, ran, lapses>>

(* next(): the handler runs and answers; 5xx is told apart.                *)
runHandler(c) ==
    /\ call[c] = "handler"
    /\ ran' = ran \cup {c}
    /\ call' = [call EXCEPT ![c] = "release"]
    /\ \E how \in {"fresh", "serverError"} : outcome' = [outcome EXCEPT ![c] = how]
    /\ UNCHANGED <<locks, responses, lapses, keyFaults>>

(* The finish listener deletes the lock, whoever holds it ...              *)
releaseLock(c) ==
    /\ call[c] = "release"
    /\ call' = [call EXCEPT ![c] = "remember"]
    /\ \/ RedisOk /\ locks' = [locks EXCEPT ![CallKey[c]] = NoCall]
       \/ RedisFails /\ UNCHANGED locks
    /\ UNCHANGED <<outcome, responses, ran, lapses>>

(* ... and then caches any answer but a 5xx.                               *)
cacheResponse(c) ==
    /\ call[c] = "remember"
    /\ call' = [call EXCEPT ![c] = "answered"]
    /\ \/ /\ RedisOk
          /\ responses' = IF outcome[c] = "serverError" THEN responses
                          ELSE [responses EXCEPT ![CallKey[c]] = c]
       \/ RedisFails /\ UNCHANGED responses
    /\ UNCHANGED <<outcome, locks, ran, lapses>>

InFlight(k) == {c \in Calls : CallKey[c] = k /\ call[c] \in {"handler", "release"}}

(* LOCK_TTL_SECONDS: the only way out of a reservation whose holder is     *)
(* gone, and possible while a slow handler still runs.                     *)
lockExpires(k) ==
    /\ locks[k] # NoCall
    /\ IF locks[k] \in InFlight(k)
       THEN RedisFails /\ lapses' = [lapses EXCEPT ![k] = @ + 1]
       ELSE RedisOk /\ UNCHANGED lapses
    /\ locks' = [locks EXCEPT ![k] = NoCall]
    /\ UNCHANGED <<call, outcome, responses, ran>>

(* IDEMPOTENCY_TTL.                                                        *)
responseExpires(k) ==
    /\ responses[k] # NoCall
    /\ RedisFails
    /\ responses' = [responses EXCEPT ![k] = NoCall]
    /\ UNCHANGED <<call, outcome, locks, ran, lapses>>

(* The process dies under a request: no listener ever runs.                *)
processDies(c) ==
    /\ call[c] \in {"reserve", "handler", "release", "remember"}
    /\ RedisFails
    /\ call' = [call EXCEPT ![c] = "lost"]
    /\ UNCHANGED <<outcome, locks, responses, ran, lapses>>

IdempotencyNext ==
    \/ \E c \in Calls :
          \/ lookup(c) \/ setNotExists(c) \/ runHandler(c)
          \/ releaseLock(c) \/ cacheResponse(c) \/ processDies(c)
    \/ \E k \in Keys : lockExpires(k) \/ responseExpires(k)

IdempotencySpec == IdempotencyInit /\ [][IdempotencyNext]_idempotencyVars

------------------------------------------------------------------------------
(* A replayed response was produced by a run of the handler for the same   *)
(* key and the same method, path and body: the fingerprint check of the    *)
(* cached response, whatever locks expire or writes fail in between.       *)
ReplaysAreTrue ==
    \A c \in Calls : outcome[c] \in Calls =>
        /\ outcome[c] \in ran
        /\ CallKey[outcome[c]] = CallKey[c]
        /\ CallPrint[outcome[c]] = CallPrint[c]
        /\ outcome[outcome[c]] = "fresh"

(* The handlers running under one key are at most one more than the        *)
(* reservations that expired under a running handler: the unfenced delete  *)
(* of releaseLock frees other calls' reservations, and still never lets in *)
(* more than it takes out.                                                 *)
InFlightBounded == \A k \in Keys : Cardinality(InFlight(k)) <= 1 + lapses[k]

(* A key protects its request: replays are true, and runs do not pile up.  *)
KeysProtect == ReplaysAreTrue /\ InFlightBounded
==============================================================================
