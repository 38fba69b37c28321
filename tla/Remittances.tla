----------------------------- MODULE Remittances -----------------------------
(***************************************************************************)
(* Remittances: services/remittanceService.ts and the create and submit    *)
(* handlers of controllers/remittanceController.ts.  A submission reads    *)
(* the record, marks it, sends and polls the signed transaction and writes *)
(* the result, with an await between any two; several submissions of one   *)
(* record may run at once.                                                 *)
(***************************************************************************)
EXTENDS Integers, FiniteSets

CONSTANTS
    Remittance,         \* record ids; the wallet signs one transaction for each
    Submissions,        \* POST /remittances/:id/submit requests
    NoRemittance,
    MaxRemittanceFaults \* database errors, lost answers, crashes

Txs == Remittance       \* the transaction stored as a record's xdr

VARIABLES
    record,             \* id -> [status, hash]; status "none" before it is created
    onChain,            \* transaction -> "unsent", "pending", "SUCCESS" or "FAILED"
    submission,         \* request -> [pc, id, tx, status]
    remittanceFaults

remittanceVars == <<record, onChain, submission, remittanceFaults>>

RemittanceInit ==
    /\ record = [i \in Remittance |-> [status |-> "none", hash |-> NoRemittance]]
    /\ onChain = [t \in Txs |-> "unsent"]
    /\ submission = [s \in Submissions |->
           [pc |-> "client", id |-> NoRemittance, tx |-> NoRemittance, status |-> "none"]]
    /\ remittanceFaults = 0

Fault == remittanceFaults < MaxRemittanceFaults /\ remittanceFaults' = remittanceFaults + 1
NoFault == UNCHANGED remittanceFaults

(* The currencies with an asset; an address is 56 characters and starts G. *)
getCurrencyAsset == {"XLM", "USDC", "EURC", "PHP"}

(* A payment of the sender's account, valid 30 seconds, and its record in  *)
(* one database transaction.                                               *)
createRemittance(i) ==
    /\ record[i].status = "none"
    /\ \E currency \in {"XLM", "other"}, valid \in BOOLEAN :
          record' = IF valid /\ currency \in getCurrencyAsset
                    THEN [record EXCEPT ![i].status = "pending"] ELSE record
    /\ UNCHANGED <<onChain, submission, remittanceFaults>>

(* The update names the record only: whatever its status is, and the hash  *)
(* is cleared unless the caller has one.                                   *)
updateRemittanceStatus(i, status, hash) ==
    record' = [record EXCEPT ![i] = [status |-> status, hash |-> hash]]

Goto(s, pc) == submission' = [submission EXCEPT ![s].pc = pc]

(* A signed envelope is any transaction with a signature: it is not        *)
(* compared with the record's own.  An unsigned one is a 400.              *)
parseAndValidateSignedEnvelope(envelope) == envelope.signatures > 0

(* The record is read: the status check of this submission.  A read that   *)
(* fails is no 4xx either, and goes to the catch block.                    *)
getRemittance(s, i, envelope) ==
    /\ submission[s].pc = "client" /\ record[i].status # "none"
    /\ \E pc \in {"mark", "answered", "catch"} :
          /\ submission' = [submission EXCEPT ![s] =
                 [pc |-> pc, id |-> i, tx |-> envelope.tx, status |-> "none"]]
          /\ \/ pc = "catch" /\ Fault
             \/ NoFault /\ pc = IF record[i].status = "pending" /\ parseAndValidateSignedEnvelope(envelope)
                               THEN "mark" ELSE "answered"
    /\ UNCHANGED <<record, onChain>>

markProcessing(s) ==
    /\ submission[s].pc = "mark"
    /\ \/ NoFault /\ updateRemittanceStatus(submission[s].id, "processing", NoRemittance) /\ Goto(s, "send")
       \/ Fault /\ UNCHANGED record /\ Goto(s, "catch")
    /\ UNCHANGED onChain

(* submitSignedTx: the network takes the transaction, has it already, or   *)
(* refuses it; an error of the connection may hide that it was taken.      *)
submitSignedTx(s) ==
    LET tx == submission[s].tx
    IN  /\ submission[s].pc = "send"
        /\ \/ /\ onChain[tx] = "unsent" /\ onChain' = [onChain EXCEPT ![tx] = "pending"]
              /\ \/ NoFault /\ Goto(s, "poll")
                 \/ Fault /\ Goto(s, "catch")
           \/ /\ UNCHANGED onChain
              /\ \/ onChain[tx] # "unsent" /\ NoFault /\ Goto(s, "poll")
                 \/ /\ Fault
                    /\ submission' = [submission EXCEPT ![s].pc = "settle", ![s].status = "ERROR"]
        /\ UNCHANGED record

(* The result, or NOT_FOUND after 30 attempts.                             *)
pollTransactionResult(s) ==
    LET tx == submission[s].tx
        result == IF onChain[tx] \in {"SUCCESS", "FAILED"} THEN onChain[tx] ELSE "NOT_FOUND"
    IN  /\ submission[s].pc = "poll"
        /\ submission' = [submission EXCEPT ![s].pc = "settle", ![s].status = result]
        /\ UNCHANGED <<record, onChain, remittanceFaults>>

(* Fault: any answer of the network but ERROR completes the record.        *)
Confirmed_Faulty(s) == submission[s].status # "ERROR"

Confirmed(s) == submission[s].status = "SUCCESS"

(* Only SUCCESS completes the record; anything else fails it and throws.   *)
settle(s) ==
    LET sub == submission[s]
    IN  /\ sub.pc = "settle"
        /\ \/ /\ NoFault
              /\ IF Confirmed(s)
                 THEN updateRemittanceStatus(sub.id, "completed", sub.tx) /\ Goto(s, "notify")
                 ELSE updateRemittanceStatus(sub.id, "failed", NoRemittance) /\ Goto(s, "catch")
           \/ Fault /\ UNCHANGED record /\ Goto(s, "catch")
        /\ UNCHANGED onChain

(* createNotification is awaited inside the same try.                      *)
notifySender(s) ==
    /\ submission[s].pc = "notify"
    /\ \/ NoFault /\ Goto(s, "answered")
       \/ Fault /\ Goto(s, "catch")
    /\ UNCHANGED <<record, onChain>>

(* The catch block: every error that is not a 4xx marks the record failed. *)
catchError(s) ==
    /\ submission[s].pc = "catch"
    /\ Goto(s, "answered")
    /\ \/ NoFault /\ updateRemittanceStatus(submission[s].id, "failed", NoRemittance)
       \/ Fault /\ UNCHANGED record
    /\ UNCHANGED onChain

submissionDies(s) ==
    /\ submission[s].pc \notin {"client", "answered"}
    /\ Fault /\ Goto(s, "answered")
    /\ UNCHANGED <<record, onChain>>

ledgerCloses(t, result) ==
    /\ onChain[t] = "pending"
    /\ onChain' = [onChain EXCEPT ![t] = result]
    /\ UNCHANGED <<record, submission, remittanceFaults>>

Envelopes == [tx : Txs, signatures : {0, 1}]

RemittanceNext ==
    \/ \E i \in Remittance : createRemittance(i)
    \/ \E s \in Submissions :
          \/ \E i \in Remittance, e \in Envelopes : getRemittance(s, i, e)
          \/ markProcessing(s) \/ submitSignedTx(s) \/ pollTransactionResult(s) \/ settle(s)
          \/ notifySender(s) \/ catchError(s) \/ submissionDies(s)
    \/ \E t \in Txs, result \in {"SUCCESS", "FAILED"} : ledgerCloses(t, result)

RemittanceSpec == RemittanceInit /\ [][RemittanceNext]_remittanceVars

------------------------------------------------------------------------------
(* A completed record names a transaction the ledger applied: whatever     *)
(* submissions of it overlap, whichever of them writes last, and whatever  *)
(* the poll that gives up leaves behind (submitRemittanceTransaction: only *)
(* SUCCESS may complete, and failed clears the hash).                      *)
CompletedWasPaid ==
    \A i \in Remittance :
        /\ record[i].status = "completed" =>
               record[i].hash \in Txs /\ onChain[record[i].hash] = "SUCCESS"
        /\ record[i].status # "completed" => record[i].hash = NoRemittance
==============================================================================
