--------------------------- MODULE WebhookDelivery ---------------------------
(***************************************************************************)
(* Webhook subscriptions, dispatch, the delivery log and its retry         *)
(* processors (services/webhookService.ts, webhookRetryProcessor.ts, and   *)
(* the subscription endpoints of controllers/indexerController.ts).        *)
(*                                                                         *)
(* Every backend process runs a retry processor over the one table of      *)
(* deliveries.  A delivery is a pair of a subscription and an event.       *)
(***************************************************************************)
EXTENDS Integers, Sequences, FiniteSets, SequencesExt

CONSTANTS
    Hooks, HookEvents,
    Wanted,            \* [Hooks -> SUBSET HookEvents]: event_types asked for
    SUPPORTED_WEBHOOK_EVENT_TYPES,
    FullBytes, SummaryBytes, MinimalBytes,   \* [HookEvents -> Nat]
    MaxPayloadBytes,
    Servers,           \* the backend processes
    RETRY_DELAYS,      \* a sequence of delays, in ticks
    MaxHookFaults      \* crashes, failing statements and lost answers

Deliveries == Hooks \X HookEvents

ASSUME HookConstants ==
    /\ IsFiniteSet(Hooks) /\ IsFiniteSet(HookEvents)
    /\ RETRY_DELAYS \in Seq(Nat) /\ RETRY_DELAYS # <<>>

MAX_RETRY_ATTEMPTS == Len(RETRY_DELAYS) + 1
Never == -1

VARIABLES
    hook,              \* "unknown", "active" or "deleted": ids are not reused
    announced,         \* the events dispatch was called for
    sending,           \* first attempts under way: delivery -> [by, stage]
    row,               \* webhook_deliveries: delivery -> its row
    retrying,          \* server -> the batch its processor works through
    stage,             \* server -> what the attempt at the batch's head is at
    accepted,          \* delivery -> the endpoint has accepted the event
    hookFaults

webhookVars == <<hook, announced, sending, row, retrying, stage, accepted, hookFaults>>

NoRecord == [attempts |-> 0, delivered |-> FALSE, due |-> Never]
NotSending == [by |-> "none", stage |-> "none"]

(* due counts the ticks to next_retry_at; Never stands for NULL.           *)
getRetryDelayMs(attempt) ==
    LET index == IF attempt < Len(RETRY_DELAYS) THEN attempt ELSE Len(RETRY_DELAYS)
    IN  RETRY_DELAYS[IF index < 1 THEN 1 ELSE index]

(* The payload in full, its summary, the minimal summary, or none.         *)
prepareWebhookPayload(e) ==
    CASE FullBytes[e] <= MaxPayloadBytes -> "full"
      [] SummaryBytes[e] <= MaxPayloadBytes -> "summary"
      [] MinimalBytes[e] <= MaxPayloadBytes -> "minimal"
      [] OTHER -> "none"

Fault == hookFaults < MaxHookFaults /\ hookFaults' = hookFaults + 1

------------------------------------------------------------------------------
(* Subscriptions.                                                          *)

normalizedEventTypes(h) == Wanted[h] \cap SUPPORTED_WEBHOOK_EVENT_TYPES

createWebhookSubscription(h) ==
    /\ hook[h] = "unknown"
    /\ normalizedEventTypes(h) # {}
    /\ hook' = [hook EXCEPT ![h] = "active"]
    /\ UNCHANGED <<announced, sending, row, retrying, stage, accepted, hookFaults>>

(* The deliveries go with the subscription (ON DELETE CASCADE).            *)
deleteWebhookSubscription(h) ==
    /\ hook[h] = "active"
    /\ hook' = [hook EXCEPT ![h] = "deleted"]
    /\ row' = [k \in Deliveries |-> IF k[1] = h THEN NoRecord ELSE row[k]]
    /\ UNCHANGED <<announced, sending, retrying, stage, accepted, hookFaults>>

------------------------------------------------------------------------------
(* The first attempt: the POST, then the row.                              *)

dispatch(s, e) ==
    /\ e \notin announced
    /\ announced' = announced \cup {e}
    /\ sending' = [k \in Deliveries |->
           IF /\ k[2] = e /\ hook[k[1]] = "active"
              /\ e \in normalizedEventTypes(k[1])
              /\ prepareWebhookPayload(e) # "none"
           THEN [by |-> s, stage |-> "post"] ELSE sending[k]]
    /\ UNCHANGED <<hook, row, retrying, stage, accepted, hookFaults>>

(* What a POST comes to: the endpoint accepts and says so, it refuses, or  *)
(* it accepts and the answer is lost or late.                              *)
postWebhook(k, outcome) ==
    /\ outcome \in {"ok", "error"}
    /\ \/ outcome = "ok" /\ accepted' = [accepted EXCEPT ![k] = TRUE] /\ UNCHANGED hookFaults
       \/ outcome = "error" /\ UNCHANGED <<accepted, hookFaults>>
       \/ outcome = "error" /\ Fault /\ accepted' = [accepted EXCEPT ![k] = TRUE]

FirstPost(k) ==
    /\ sending[k].stage = "post"
    /\ \E outcome \in {"ok", "error"} :
          /\ postWebhook(k, outcome)
          /\ sending' = [sending EXCEPT ![k].stage = outcome]
    /\ UNCHANGED <<hook, announced, row, retrying, stage>>

FirstRow(outcome) ==
    IF outcome = "ok" THEN [attempts |-> 1, delivered |-> TRUE, due |-> Never]
    ELSE [attempts |-> 1, delivered |-> FALSE, due |-> getRetryDelayMs(1)]

(* The insert; one that fails after a success falls into the catch, which  *)
(* records a failure.  Without the subscription every insert violates the  *)
(* foreign key, and the delivery is dropped with a log line.               *)
sendToWebhook(k) ==
    /\ sending[k].stage \in {"ok", "error"}
    /\ \/ hook[k[1]] = "active" /\ row' = [row EXCEPT ![k] = FirstRow(sending[k].stage)]
          /\ UNCHANGED hookFaults
       \/ hook[k[1]] = "active" /\ sending[k].stage = "ok" /\ Fault
          /\ row' = [row EXCEPT ![k] = FirstRow("error")]
       \/ hook[k[1]] = "deleted" /\ UNCHANGED <<row, hookFaults>>
    /\ sending' = [sending EXCEPT ![k] = NotSending]
    /\ UNCHANGED <<hook, announced, retrying, stage, accepted>>

------------------------------------------------------------------------------
(* Retries.                                                                *)

Due(k) ==
    /\ ~row[k].delivered /\ row[k].due = 0
    /\ row[k].attempts < MAX_RETRY_ATTEMPTS

(* The interval fires when no run is in flight.  The rows are locked only  *)
(* while they are read: another processor may take the same ones.          *)
processRetries(s) ==
    /\ retrying[s] = <<>>
    /\ \E k \in Deliveries : Due(k)
    /\ retrying' = [retrying EXCEPT ![s] =
           SetToSeq({[delivery |-> k, attempts |-> row[k].attempts] :
                        k \in {d \in Deliveries : Due(d)}})]
    /\ stage' = [stage EXCEPT ![s] = "post"]
    /\ UNCHANGED <<hook, announced, sending, row, accepted, hookFaults>>

RetryPost(s) ==
    /\ retrying[s] # <<>> /\ stage[s] = "post"
    /\ \E outcome \in {"ok", "error"} :
          /\ postWebhook(Head(retrying[s]).delivery, outcome)
          /\ stage' = [stage EXCEPT ![s] = outcome]
    /\ UNCHANGED <<hook, announced, sending, row, retrying>>

(* The UPDATEs by id: they count from the attempts the processor read, and *)
(* only a success touches delivered_at.                                    *)
AfterSuccess(r, attempts) == [attempts |-> attempts + 1, delivered |-> TRUE, due |-> Never]

AfterFailure_Faulty(r, attempts) ==
    [attempts |-> attempts + 1, delivered |-> FALSE,
     due |-> IF attempts + 1 < MAX_RETRY_ATTEMPTS THEN getRetryDelayMs(attempts + 1) ELSE Never]

AfterFailure(r, attempts) ==
    [r EXCEPT !.attempts = attempts + 1,
              !.due = IF attempts + 1 < MAX_RETRY_ATTEMPTS
                      THEN getRetryDelayMs(attempts + 1) ELSE Never]

Updated(k, r) == IF row[k] = NoRecord THEN row ELSE [row EXCEPT ![k] = r]

NextInBatch(s, rest) ==
    /\ retrying' = [retrying EXCEPT ![s] = rest]
    /\ stage' = [stage EXCEPT ![s] = IF rest = <<>> THEN "none" ELSE "post"]

(* A success whose UPDATE fails is recorded as a failure; an UPDATE that   *)
(* fails in the catch ends the batch.                                      *)
retryWebhookDelivery(s) ==
    LET k == Head(retrying[s]).delivery
        attempts == Head(retrying[s]).attempts
        rest == Tail(retrying[s])
    IN  /\ retrying[s] # <<>> /\ stage[s] \in {"ok", "error"}
        /\ \/ /\ row' = Updated(k, IF stage[s] = "ok" THEN AfterSuccess(row[k], attempts)
                                   ELSE AfterFailure(row[k], attempts))
              /\ NextInBatch(s, rest) /\ UNCHANGED hookFaults
           \/ /\ stage[s] = "ok" /\ Fault
              /\ row' = Updated(k, AfterFailure(row[k], attempts))
              /\ NextInBatch(s, rest)
           \/ /\ Fault /\ UNCHANGED row
              /\ NextInBatch(s, <<>>)
        /\ UNCHANGED <<hook, announced, sending, accepted>>

------------------------------------------------------------------------------
(* Time, and processes that die with what they hold in memory.             *)

HookTick ==
    /\ \E k \in Deliveries : row[k].due > 0
    /\ row' = [k \in Deliveries |-> IF row[k].due > 0 THEN [row[k] EXCEPT !.due = @ - 1]
                                    ELSE row[k]]
    /\ UNCHANGED <<hook, announced, sending, retrying, stage, accepted, hookFaults>>

ServerRestarts(s) ==
    /\ Fault
    /\ retrying[s] # <<>> \/ \E k \in Deliveries : sending[k].by = s
    /\ retrying' = [retrying EXCEPT ![s] = <<>>]
    /\ stage' = [stage EXCEPT ![s] = "none"]
    /\ sending' = [k \in Deliveries |-> IF sending[k].by = s THEN NotSending ELSE sending[k]]
    /\ UNCHANGED <<hook, announced, row, accepted>>

WebhookInit ==
    /\ hook = [h \in Hooks |-> "unknown"] /\ announced = {}
    /\ sending = [k \in Deliveries |-> NotSending]
    /\ row = [k \in Deliveries |-> NoRecord]
    /\ retrying = [s \in Servers |-> <<>>] /\ stage = [s \in Servers |-> "none"]
    /\ accepted = [k \in Deliveries |-> FALSE]
    /\ hookFaults = 0

ProcessorStep(s) == processRetries(s) \/ RetryPost(s) \/ retryWebhookDelivery(s)

WebhookNext ==
    \/ \E h \in Hooks : createWebhookSubscription(h) \/ deleteWebhookSubscription(h)
    \/ \E s \in Servers, e \in HookEvents : dispatch(s, e)
    \/ \E k \in Deliveries : FirstPost(k) \/ sendToWebhook(k)
    \/ \E s \in Servers : ProcessorStep(s) \/ ServerRestarts(s)
    \/ HookTick

(* Timers fire, and requests and statements settle (each POST has a        *)
(* timeout).                                                               *)
WebhookFairness ==
    /\ WF_webhookVars(HookTick)
    /\ \A s \in Servers : WF_webhookVars(ProcessorStep(s))

WebhookSpec == WebhookInit /\ [][WebhookNext]_webhookVars /\ WebhookFairness

------------------------------------------------------------------------------
(* Correctness.                                                            *)

(* What a row says of its delivery.                                        *)
statusOf(r) ==
    CASE r = NoRecord -> "none"
      [] r # NoRecord /\ r.delivered -> "made"
      [] r # NoRecord /\ ~r.delivered /\ r.due # Never -> "pending"
      [] OTHER -> "givenup"

Promised == INSTANCE Delivery WITH status <- [k \in Deliveries |-> statusOf(row[k])],
                                   accepted <- accepted

(* Delivery with its log, retries and competing processors keeps the       *)
(* promise of module Delivery: a row says delivered only if the endpoint   *)
(* accepted the event, a late failure of another processor never takes     *)
(* that back, and no delivery stays due for ever.                          *)
KeepsDeliveryPromise == Promised!Promise
==============================================================================
