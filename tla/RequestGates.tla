---------------------------- MODULE RequestGates ----------------------------
(***************************************************************************)
(* What a request passes before its handler: the limiters over counters in *)
(* Redis (middleware/rateLimiter.ts and rateLimitMiddleware.ts over        *)
(* services/rateLimitService.ts), the pause guard, and, on administrative  *)
(* routes, the audit log, whose row is written after the answer has gone   *)
(* (middleware/auditLog.ts).  The handlers are the other modules'.         *)
(***************************************************************************)
EXTENDS Naturals, Sequences

CONSTANTS
    Gated,              \* requests
    RouteOf,            \* request -> the route it is sent to
    IpOf, UserOf,       \* request -> its address; the wallet it names
    MaxOf,              \* limiter -> the "max" it is configured with
    MaxGateFaults       \* bounds Redis and database failures, crashes and pauses

VARIABLES
    hits,               \* key -> the counter in Redis (0: no such key)
    timed,              \* the keys that have an expiry
    gated,              \* request -> [pc, gate, status]
    blind,              \* the keys a failed check has let requests past
    admitted,           \* key -> how many it let through in this window
    pausedNow,          \* globalPauseState.isPaused of this process
    auditing, audited,  \* rows being inserted; audit_logs
    unaudited,          \* rows lost to a failed insert or a crash
    gateFaults

limiterVars == <<hits, timed, blind, admitted>>
auditVars == <<auditing, audited, unaudited>>
gateVars == <<limiterVars, gated, pausedNow, auditVars, gateFaults>>

(* app.use order, then the route's own limiters.                           *)
LimitersOf(route) ==
    CASE route = "scoreUpdate" -> <<"global", "scoreUpdate">>
      [] route = "login" -> <<"global", "ipLogin", "login">>
      [] route = "challenge" -> <<"global", "challenge">>
      [] route = "simulate" -> <<"global", "simulation">>
      [] route = "adminJob" -> <<"global", "strict">>
      [] OTHER -> <<"global">>

Mutating(route) == route # "read"
Audited(route) == route = "adminJob"

KeyOf(limiter, r) ==
    CASE limiter = "login" -> <<limiter, IpOf[r], UserOf[r]>>
      [] limiter \in {"scoreUpdate", "simulation"} -> <<limiter, UserOf[r]>>
      [] OTHER -> <<limiter, IpOf[r]>>

GateKeys == UNION {{KeyOf(LimitersOf(RouteOf[r])[i], r) : i \in DOMAIN LimitersOf(RouteOf[r])} :
                      r \in Gated}

(* Every limiter a route passes is configured, with a positive maximum.    *)
ASSUME GateConstants ==
    \A r \in Gated : \A i \in DOMAIN LimitersOf(RouteOf[r]) :
        MaxOf[LimitersOf(RouteOf[r])[i]] \in Nat \ {0}

GatesInit ==
    /\ hits = [k \in GateKeys |-> 0]
    /\ timed = {}
    /\ gated = [r \in Gated |-> [pc |-> "new", gate |-> 1, status |-> 0]]
    /\ blind = {}
    /\ admitted = [k \in GateKeys |-> 0]
    /\ pausedNow = FALSE
    /\ auditing = {} /\ audited = {} /\ unaudited = {}
    /\ gateFaults = 0

GateFault == gateFaults < MaxGateFaults /\ gateFaults' = gateFaults + 1

------------------------------------------------------------------------------
(* Limiters.                                                               *)

(* Fault: the counter is raised and its expiry is left to a second call.   *)
incrAndExpire_Faulty(k) ==
    /\ hits' = [hits EXCEPT ![k] = @ + 1]
    /\ UNCHANGED timed

(* The script runs as one step of Redis; the first hit starts the window.  *)
incrAndExpire(k) ==
    /\ hits' = [hits EXCEPT ![k] = @ + 1]
    /\ timed' = IF hits[k] = 0 THEN timed \cup {k} ELSE timed

(* checkRateLimit compares with "<", the library with "<=".                *)
Within(limiter, count) ==
    IF limiter = "scoreUpdate" THEN count < MaxOf[limiter] ELSE count <= MaxOf[limiter]

errorHandler(kind) ==
    CASE kind = "rateLimit" -> 429
      [] kind = "paused" -> 503
      [] OTHER -> 500

Refuse(r, kind) ==
    gated' = [gated EXCEPT ![r].pc = "done", ![r].status = errorHandler(kind)]

(* The pause guard follows the global limiter; the last limiter is         *)
(* followed by the audit log's listener and the handler.                   *)
pauseGuard(r) == pausedNow /\ Mutating(RouteOf[r])

(* next(): on to the route's next limiter, or to its handler.              *)
PastGate(r) ==
    IF gated[r].gate < Len(LimitersOf(RouteOf[r]))
    THEN [gated[r] EXCEPT !.gate = @ + 1, !.pc = "gate"]
    ELSE [gated[r] EXCEPT !.pc = "handler"]

PassGate(r, k) ==
    /\ admitted' = [admitted EXCEPT ![k] = @ + 1]
    /\ IF gated[r].gate = 1 /\ pauseGuard(r) THEN Refuse(r, "paused")
       ELSE gated' = [gated EXCEPT ![r] = PastGate(r)]

checkRateLimit(r) ==
    LET limiter == LimitersOf(RouteOf[r])[gated[r].gate]
        k == KeyOf(limiter, r)
    IN  /\ gated[r].pc \in {"new", "gate"}
        /\ \/ /\ incrAndExpire(k)
              /\ IF Within(limiter, hits[k] + 1) THEN PassGate(r, k)
                 ELSE Refuse(r, "rateLimit") /\ UNCHANGED admitted
              /\ UNCHANGED <<blind, gateFaults>>
           \/ /\ GateFault                     \* Redis fails: the request passes
              /\ blind' = blind \cup {k}
              /\ PassGate(r, k)
              /\ UNCHANGED <<hits, timed>>
        /\ UNCHANGED <<pausedNow, auditVars>>

(* Redis drops a key whose expiry has passed.                              *)
windowEnds(k) ==
    /\ k \in timed
    /\ hits' = [hits EXCEPT ![k] = 0]
    /\ timed' = timed \ {k}
    /\ blind' = blind \ {k}
    /\ admitted' = [admitted EXCEPT ![k] = 0]
    /\ UNCHANGED <<gated, pausedNow, auditVars, gateFaults>>

(* setPauseState: the indexer of this process meets a pause or an unpause. *)
pauseChanges ==
    /\ GateFault
    /\ pausedNow' = ~pausedNow
    /\ UNCHANGED <<limiterVars, gated, auditVars>>

------------------------------------------------------------------------------
(* The handler answers or fails; either way the response finishes, and the *)
(* listener starts the insert without waiting for it.                      *)

handle(r) ==
    /\ gated[r].pc = "handler"
    /\ \E status \in {200, errorHandler("internal")} :
          gated' = [gated EXCEPT ![r].pc = "done", ![r].status = status]
    /\ auditing' = IF Audited(RouteOf[r]) THEN auditing \cup {r} ELSE auditing
    /\ UNCHANGED <<limiterVars, pausedNow, audited, unaudited, gateFaults>>

insertAuditRow(r) ==
    /\ r \in auditing
    /\ auditing' = auditing \ {r}
    /\ \/ audited' = audited \cup {r} /\ UNCHANGED <<unaudited, gateFaults>>
       \/ GateFault /\ unaudited' = unaudited \cup {r} /\ UNCHANGED audited
    /\ UNCHANGED <<limiterVars, gated, pausedNow>>

(* The process dies: requests under way end without an answer, rows being  *)
(* written are lost; initializePauseState reads the flag back from the row *)
(* that setPauseState wrote with it.                                       *)
instanceDies ==
    /\ GateFault
    /\ gated' = [r \in Gated |-> IF gated[r].pc \in {"gate", "handler"}
                                 THEN [gated[r] EXCEPT !.pc = "done"] ELSE gated[r]]
    /\ unaudited' = unaudited \cup auditing
                    \cup {r \in Gated : gated[r].pc = "handler" /\ Audited(RouteOf[r])}
    /\ auditing' = {}
    /\ UNCHANGED <<limiterVars, pausedNow, audited>>

GatesNext ==
    \/ \E r \in Gated : checkRateLimit(r) \/ handle(r) \/ insertAuditRow(r)
    \/ \E k \in GateKeys : windowEnds(k)
    \/ pauseChanges
    \/ instanceDies

GatesSpec == GatesInit /\ [][GatesNext]_gateVars

------------------------------------------------------------------------------
(* A limiter holds: in a window it admits at most what it is configured    *)
(* for (one less for score updates), unless Redis failed a check; a key    *)
(* that refuses callers always has an expiry, so nobody is locked out for  *)
(* good; and a refused request has neither run nor left an audit row,      *)
(* while one that ran has its row, or the row is being written or lost.    *)
LimitsHold ==
    /\ \A k \in GateKeys \ blind :
          admitted[k] <= MaxOf[k[1]] - (IF k[1] = "scoreUpdate" THEN 1 ELSE 0)
    /\ \A k \in GateKeys : hits[k] > 0 => k \in timed
    /\ \A r \in Gated :
          IF gated[r].status \in {429, 503} THEN r \notin auditing \cup audited
          ELSE Audited(RouteOf[r]) /\ gated[r].status # 0 => r \in auditing \cup audited \cup unaudited
==============================================================================
