--------------------------- MODULE TransactionApi ---------------------------
(***************************************************************************)
(* Transactions through the API: the builders of services/sorobanService.ts *)
(* and the endpoints that hand out unsigned transactions                   *)
(* (controllers/loanController.ts, poolController.ts), their cache, and the *)
(* submission of what the wallet signed with its record in                 *)
(* transaction_submissions.  The network accepts, drops, applies and       *)
(* forgets as it likes within the rules of sequence numbers and time       *)
(* bounds.                                                                 *)
(***************************************************************************)
EXTENDS Integers, Sequences, FiniteSets

CONSTANTS
    Signers,            \* the wallets
    Used,               \* the endpoints the instance exercises
    ApiRequests,        \* build and submit requests
    TxTimeout,          \* setTimeout(30), in ticks
    CacheTtl,           \* the 60 seconds an unsigned transaction is cached
    MaxClock, MaxTxFaults

------------------------------------------------------------------------------
(* The builders: contract function and types of the arguments.             *)

Builder(fn, args) == [fn |-> fn, args |-> args]

buildCancelLoanTx == Builder("cancel_loan", <<"address", "symbol">>)
buildRejectLoanTx == Builder("reject_loan", <<"address", "symbol", "string">>)
buildRequestLoanTx == Builder("request_loan", <<"address", "i128", "u32">>)
buildRepayTx == Builder("repay", <<"address", "u32", "i128">>)
buildDepositTx == Builder("deposit", <<"address", "address", "i128", "i128">>)
buildWithdrawTx == Builder("withdraw", <<"address", "address", "i128", "i128">>)
buildEmergencyWithdrawTx == Builder("emergency_withdraw", <<"address", "address", "i128", "i128">>)
buildDepositCollateralTx == Builder("deposit_collateral", <<"u32", "i128">>)
buildReleaseCollateralTx == Builder("release_collateral", <<"u32">>)
buildRefinanceLoanTx == Builder("refinance_loan", <<"u32", "i128", "u32">>)
buildExtendLoanTx == Builder("extend_loan", <<"address", "u32", "u32">>)
buildLiquidateTx == Builder("liquidate", <<"address", "u32">>)

(* The functions the contracts export.                                     *)
ContractArgs ==
    [cancel_loan |-> <<"address", "u32">>, reject_loan |-> <<"u32", "string">>,
     request_loan |-> <<"address", "i128", "u32">>, repay |-> <<"address", "u32", "i128">>,
     deposit |-> <<"address", "address", "i128", "i128">>,
     withdraw |-> <<"address", "address", "i128", "i128">>,
     emergency_withdraw |-> <<"address", "address", "i128", "i128">>,
     deposit_collateral |-> <<"u32", "i128">>,
     release_collateral |-> <<"u32">>, refinance_loan |-> <<"u32", "i128", "u32">>,
     extend_loan |-> <<"address", "u32", "u32">>, liquidate |-> <<"address", "u32">>]

(* prepareTransaction simulates the call: one whose arguments the contract *)
(* does not take never becomes a transaction.                              *)
Prepares(builder) == ContractArgs[builder.fn] = builder.args

------------------------------------------------------------------------------
(* The endpoints: what they build, whether the unsigned transaction is     *)
(* kept for equal requests, and whether they drop the score breakdown (the *)
(* other read keys they drop are never set).  The public key in the body   *)
(* must be the caller's: a wallet builds for itself.                       *)

Endpoint(builder, cached) == [builder |-> builder, cached |-> cached, dropsBreakdown |-> FALSE]

requestLoan == Endpoint(buildRequestLoanTx, TRUE)
repayLoan == [Endpoint(buildRepayTx, TRUE) EXCEPT !.dropsBreakdown = TRUE]
depositCollateral == Endpoint(buildDepositCollateralTx, TRUE)
releaseCollateral == Endpoint(buildReleaseCollateralTx, TRUE)
refinanceLoan == Endpoint(buildRefinanceLoanTx, TRUE)
extendLoan == Endpoint(buildExtendLoanTx, TRUE)
buildLiquidateLoan == Endpoint(buildLiquidateTx, TRUE)
buildCancelLoan == Endpoint(buildCancelLoanTx, FALSE)
buildRejectLoan == Endpoint(buildRejectLoanTx, FALSE)
depositToPool == Endpoint(buildDepositTx, FALSE)
withdrawFromPool == Endpoint(buildWithdrawTx, FALSE)
emergencyWithdrawFromPool == Endpoint(buildEmergencyWithdrawTx, FALSE)

Endpoints ==
    [requestLoan |-> requestLoan, repayLoan |-> repayLoan,
     depositCollateral |-> depositCollateral, releaseCollateral |-> releaseCollateral,
     refinanceLoan |-> refinanceLoan, extendLoan |-> extendLoan,
     buildLiquidateLoan |-> buildLiquidateLoan, buildCancelLoan |-> buildCancelLoan,
     buildRejectLoan |-> buildRejectLoan, depositToPool |-> depositToPool,
     withdrawFromPool |-> withdrawFromPool,
     emergencyWithdrawFromPool |-> emergencyWithdrawFromPool]

------------------------------------------------------------------------------
VARIABLES
    clock,
    sequence,           \* wallet -> the sequence number its account is at
    unsignedTx,         \* <<wallet, endpoint>> -> the cached transaction, or NoTx
    breakdownCached,    \* wallet -> score:breakdown holds an entry
    apiRequest,         \* request -> [pc, wallet, endpoint, tx, status]
    handed,             \* transactions handed out; the wallet may sign any
    mempool,            \* transactions the network holds
    ledgerOf,           \* applied transactions -> "SUCCESS" or "FAILED"
    submissionRow,      \* transaction_submissions: transaction -> status
    txFaults

apiVars == <<clock, sequence, unsignedTx, breakdownCached, apiRequest, handed, mempool,
             ledgerOf, submissionRow, txFaults>>

NoTx == [wallet |-> "none", endpoint |-> "none", seq |-> 0, born |-> 0]
NoRequest == [pc |-> "client", wallet |-> "none", endpoint |-> "none", tx |-> NoTx, status |-> "none"]

ApiFault == txFaults < MaxTxFaults /\ txFaults' = txFaults + 1

ApiInit ==
    /\ clock = 0
    /\ sequence = [w \in Signers |-> 0]
    /\ unsignedTx = [k \in Signers \X Used |-> NoTx]
    /\ breakdownCached = [w \in Signers |-> FALSE]
    /\ apiRequest = [r \in ApiRequests |-> NoRequest]
    /\ handed = {} /\ mempool = {}
    /\ ledgerOf = [t \in {} |-> "none"]
    /\ submissionRow = [t \in {} |-> "none"]
    /\ txFaults = 0

Answered(r) == apiRequest' = [apiRequest EXCEPT ![r].pc = "answered"]
Live(tx) == clock <= tx.born + TxTimeout
Put(f, x, v) == [y \in DOMAIN f \cup {x} |-> IF y = x THEN v ELSE f[y]]

(* A build request reads the cache: a cached transaction is handed out as  *)
(* it is, however old and whether or not it was submitted since.           *)
beginBuild(r, w, e) ==
    LET cached == unsignedTx[<<w, e>>]
    IN  /\ apiRequest[r].pc = "client"
        /\ IF Endpoints[e].cached /\ cached # NoTx
           THEN Answered(r) /\ handed' = handed \cup {cached}
           ELSE /\ apiRequest' = [apiRequest EXCEPT ![r].pc = "build", ![r].wallet = w,
                                                    ![r].endpoint = e]
                /\ UNCHANGED handed
        /\ UNCHANGED <<clock, sequence, unsignedTx, breakdownCached, mempool, ledgerOf,
                       submissionRow, txFaults>>

(* getAccount and prepareTransaction, then the cache entries.              *)
buildTx(r) ==
    LET w == apiRequest[r].wallet
        e == apiRequest[r].endpoint
        tx == [wallet |-> w, endpoint |-> e, seq |-> sequence[w] + 1, born |-> clock]
    IN  /\ apiRequest[r].pc = "build"
        /\ Answered(r)
        /\ IF Prepares(Endpoints[e].builder)
           THEN /\ handed' = handed \cup {tx}
                /\ unsignedTx' = IF Endpoints[e].cached
                                 THEN [unsignedTx EXCEPT ![<<w, e>>] = tx] ELSE unsignedTx
                /\ breakdownCached' = [breakdownCached EXCEPT ![w] = @ /\ ~Endpoints[e].dropsBreakdown]
           ELSE UNCHANGED <<handed, unsignedTx, breakdownCached>>
        /\ UNCHANGED <<clock, sequence, mempool, ledgerOf, submissionRow, txFaults>>

(* The score breakdown is cached when it is first read.                    *)
cacheBreakdown(w) ==
    /\ ~breakdownCached[w]
    /\ breakdownCached' = [breakdownCached EXCEPT ![w] = TRUE]
    /\ UNCHANGED <<clock, sequence, unsignedTx, apiRequest, handed, mempool, ledgerOf,
                   submissionRow, txFaults>>

(* submitSignedTx: sendTransaction.  A transaction the network already     *)
(* knows is a duplicate, unless it has forgotten it; ERROR and             *)
(* TRY_AGAIN_LATER are final for the request.                              *)
SendAnswers(tx) ==
    IF tx \in mempool \cup DOMAIN ledgerOf
    THEN {"DUPLICATE"} \cup (IF tx \in DOMAIN ledgerOf THEN {"ERROR"} ELSE {})
    ELSE IF tx.seq = sequence[tx.wallet] + 1 /\ Live(tx) THEN {"PENDING", "TRY_AGAIN_LATER"}
    ELSE {"ERROR"}

sendTransaction(r, tx) ==
    /\ apiRequest[r].pc = "client" /\ tx \in handed
    /\ \E answer \in SendAnswers(tx) :
          /\ mempool' = IF answer = "PENDING" THEN mempool \cup {tx} ELSE mempool
          /\ \/ /\ UNCHANGED txFaults
                /\ apiRequest' = [apiRequest EXCEPT ![r] =
                       [NoRequest EXCEPT !.pc = IF answer \in {"ERROR", "TRY_AGAIN_LATER"}
                                                THEN "record" ELSE "poll",
                                         !.tx = tx, !.status = answer]]
             \/ ApiFault /\ Answered(r)
    /\ UNCHANGED <<clock, sequence, unsignedTx, breakdownCached, handed, ledgerOf, submissionRow>>

(* pollTransaction: the result, or NOT_FOUND after 30 attempts.            *)
PollAnswer_Faulty(tx) == IF tx \in DOMAIN ledgerOf THEN ledgerOf[tx] ELSE "SUCCESS"

PollAnswer(tx) == IF tx \in DOMAIN ledgerOf THEN ledgerOf[tx] ELSE "NOT_FOUND"

pollTransaction(r) ==
    /\ apiRequest[r].pc = "poll"
    /\ apiRequest' = [apiRequest EXCEPT ![r].pc = "record", ![r].status = PollAnswer(apiRequest[r].tx)]
    /\ UNCHANGED <<clock, sequence, unsignedTx, breakdownCached, handed, mempool, ledgerOf,
                   submissionRow, txFaults>>

(* The upsert of the row, in a transaction after the network's: when it    *)
(* fails the client gets a 500 for a transaction that may be applied.      *)
recordSubmission(r) ==
    /\ apiRequest[r].pc = "record"
    /\ Answered(r)
    /\ \/ /\ submissionRow' = Put(submissionRow, apiRequest[r].tx, apiRequest[r].status)
          /\ UNCHANGED txFaults
       \/ ApiFault /\ UNCHANGED submissionRow
    /\ UNCHANGED <<clock, sequence, unsignedTx, breakdownCached, handed, mempool, ledgerOf>>

------------------------------------------------------------------------------
(* The network and time.                                                   *)

applyTransaction(tx, result) ==
    /\ tx \in mempool /\ Live(tx) /\ tx.seq = sequence[tx.wallet] + 1
    /\ ledgerOf' = Put(ledgerOf, tx, result)
    /\ mempool' = mempool \ {tx}
    /\ sequence' = [sequence EXCEPT ![tx.wallet] = @ + 1]
    /\ UNCHANGED <<clock, unsignedTx, breakdownCached, apiRequest, handed, submissionRow, txFaults>>

dropTransaction(tx) ==
    /\ tx \in mempool /\ ~(Live(tx) /\ tx.seq = sequence[tx.wallet] + 1)
    /\ mempool' = mempool \ {tx}
    /\ UNCHANGED <<clock, sequence, unsignedTx, breakdownCached, apiRequest, handed, ledgerOf,
                   submissionRow, txFaults>>

ApiTick ==
    /\ clock < MaxClock
    /\ clock' = clock + 1
    /\ unsignedTx' = [k \in Signers \X Used |->
           IF unsignedTx[k] # NoTx /\ clock + 1 >= unsignedTx[k].born + CacheTtl
           THEN NoTx ELSE unsignedTx[k]]
    /\ UNCHANGED <<sequence, breakdownCached, apiRequest, handed, mempool, ledgerOf,
                   submissionRow, txFaults>>

ApiNext ==
    \/ \E r \in ApiRequests :
          \/ \E w \in Signers, e \in Used : beginBuild(r, w, e)
          \/ buildTx(r) \/ pollTransaction(r) \/ recordSubmission(r)
          \/ \E tx \in handed : sendTransaction(r, tx)
    \/ \E w \in Signers : cacheBreakdown(w)
    \/ \E tx \in mempool : \/ dropTransaction(tx)
                           \/ \E result \in {"SUCCESS", "FAILED"} : applyTransaction(tx, result)
    \/ ApiTick

ApiSpec == ApiInit /\ [][ApiNext]_apiVars

------------------------------------------------------------------------------
(* Correctness.                                                            *)

(* What transaction_submissions says of a final result is what the chain   *)
(* did: no re-submission, poll that gives up, duplicate answer or expired  *)
(* transaction ever makes a row say SUCCESS or FAILED of another outcome.  *)
RecordsMatchChain ==
    \A tx \in DOMAIN submissionRow : submissionRow[tx] \in {"SUCCESS", "FAILED"} =>
        tx \in DOMAIN ledgerOf /\ ledgerOf[tx] = submissionRow[tx]
==============================================================================
