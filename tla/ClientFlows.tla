----------------------------- MODULE ClientFlows -----------------------------
(***************************************************************************)
(* The browser flows that spend money: review, build, sign, submit, wait,  *)
(* show.  Each form or page is one entry of the flow table below; the      *)
(* review dialog is hooks/useTransactionPreview.ts, the progress shown is  *)
(* the entry a flow keeps in hooks/useOptimisticUI.ts or its own tracker.  *)
(*                                                                         *)
(* A run is one execution of a flow's async handler; a closed dialog does  *)
(* not stop it, so runs may overlap.  The API and the chain answer as the  *)
(* backend does (module TransactionApi): "SUCCESS" for a transaction that  *)
(* was applied, anything else at any time, or no answer.                   *)
(***************************************************************************)
EXTENDS Integers, FiniteSets, FiniteSetsExt

CONSTANTS
    UsedFlows,        \* flows of this instance, by name
    MaxRuns,          \* handler executions
    MaxReviews,       \* times a review dialog is opened
    MaxFlowFaults     \* requests that fail or whose answer is lost

ASSUME FlowConstants == MaxRuns \in Nat /\ MaxReviews \in Nat /\ MaxFlowFaults \in Nat

FlowRuns == 1..MaxRuns

(* review: goes through the dialog.  exclusive: a ref refuses a second     *)
(* run.  disables: the button is disabled while the flow shows progress.   *)
(* builds, signs: asks the API to build, the wallet to sign.  checks: what *)
(* it demands before it shows success.                                     *)
Flow(review, exclusive, disables, builds, signs, checks) ==
    [review |-> review, exclusive |-> exclusive, disables |-> disables,
     builds |-> builds, signs |-> signs, checks |-> checks]

(* LoanRepaymentForm with useRepaymentOperation.                           *)
repaymentForm == Flow(TRUE, TRUE, FALSE, TRUE, TRUE, "status")

(* useDepositOperation and useWithdrawalOperation: any answer to the       *)
(* submission counts, after a simulated wait.                              *)
useDepositOperation == Flow(FALSE, FALSE, TRUE, TRUE, TRUE, "nothing")
useWithdrawalOperation == Flow(FALSE, FALSE, TRUE, TRUE, TRUE, "nothing")

(* The repay page builds in the browser, before the review.                *)
repayPage == Flow(TRUE, FALSE, FALSE, FALSE, TRUE, "status")

refinanceModal == Flow(FALSE, FALSE, TRUE, TRUE, TRUE, "status")
extensionModal == Flow(FALSE, FALSE, TRUE, TRUE, TRUE, "status")

handleLiquidate == Flow(FALSE, FALSE, TRUE, TRUE, TRUE, "nothing")

(* The loan wizard posts the request; with a hash in the answer it polls   *)
(* Horizon, without one it is done.                                        *)
loanWizard == Flow(TRUE, FALSE, FALSE, FALSE, FALSE, "poll")

(* The remittance form only creates the pending row.                       *)
remittanceForm == Flow(TRUE, FALSE, FALSE, FALSE, FALSE, "nothing")

FlowTable ==
    [repaymentForm |-> repaymentForm, useDepositOperation |-> useDepositOperation,
     useWithdrawalOperation |-> useWithdrawalOperation, repayPage |-> repayPage,
     refinanceModal |-> refinanceModal, extensionModal |-> extensionModal,
     handleLiquidate |-> handleLiquidate, loanWizard |-> loanWizard,
     remittanceForm |-> remittanceForm]

ASSUME FlowNames == UsedFlows \subseteq DOMAIN FlowTable

VARIABLES
    preview,          \* flow -> its review dialog
    executing,        \* flows whose isExecuting ref is set
    shown,            \* flow -> what its tracker, entry or button shows
    run,              \* run -> its progress
    onChain,          \* run -> its transaction: none, pending, applied, failed
    reviews, flowFaults

flowVars == <<preview, executing, shown, run, onChain, reviews, flowFaults>>

Closed == [open |-> FALSE, loading |-> FALSE, callback |-> FALSE, clearing |-> FALSE]
NotStarted == [flow |-> "none", pc |-> "unused", answer |-> "none", outcome |-> "none"]

FlowOf(i) == FlowTable[run[i].flow]
RunsOf(f) == {i \in FlowRuns : run[i].flow = f}
Ended(i) == run[i].pc \in {"unused", "ended"}
InProgress == {"pending", "signing", "submitted", "confirming"}

------------------------------------------------------------------------------
(* The review dialog.                                                      *)

(* show.  A closing dialog's timer is not stopped by reopening it.         *)
ShowPreview(f) ==
    /\ FlowTable[f].review /\ ~preview[f].open /\ reviews < MaxReviews
    /\ reviews' = reviews + 1
    /\ preview' = [preview EXCEPT ![f].open = TRUE, ![f].callback = TRUE]
    /\ UNCHANGED <<executing, shown, run, onChain, flowFaults>>

(* close, by its buttons or by leaving the dialog while a run goes on.     *)
ClosedPreview(p) == [p EXCEPT !.open = FALSE, !.loading = FALSE, !.clearing = TRUE]

ClosePreview(f) ==
    /\ preview[f].open
    /\ preview' = [preview EXCEPT ![f] = ClosedPreview(@)]
    /\ UNCHANGED <<executing, shown, run, onChain, reviews, flowFaults>>

(* 300 ms after close.                                                     *)
ClearPreview(f) ==
    /\ preview[f].clearing
    /\ preview' = [preview EXCEPT ![f].clearing = FALSE, ![f].callback = FALSE]
    /\ UNCHANGED <<executing, shown, run, onChain, reviews, flowFaults>>

------------------------------------------------------------------------------
(* Starting a run.                                                         *)

FirstStep(f) ==
    IF FlowTable[f].builds THEN "building" ELSE IF FlowTable[f].signs THEN "signing" ELSE "submitting"

(* executeRepayment marks the ref and clears it in its finally.            *)
StartRun(f, i) ==
    /\ run[i].pc = "unused" /\ \A j \in FlowRuns : j < i => run[j].pc # "unused"
    /\ run' = [run EXCEPT ![i] = [NotStarted EXCEPT !.flow = f, !.pc = FirstStep(f)]]
    /\ shown' = [shown EXCEPT ![f] = "pending"]
    /\ executing' = IF FlowTable[f].exclusive THEN executing \cup {f} ELSE executing

(* The guard at the top of executeRepayment.                               *)
MayExecute_Faulty(f) == TRUE

MayExecute(f) == f \notin executing

(* confirm: a refused run rejects, and the dialog stays open.              *)
ConfirmPreview(f, i) ==
    /\ preview[f].open /\ preview[f].callback /\ ~preview[f].loading
    /\ MayExecute(f)
    /\ StartRun(f, i)
    /\ preview' = [preview EXCEPT ![f].loading = TRUE]
    /\ UNCHANGED <<onChain, reviews, flowFaults>>

(* The flows with a button of their own, disabled while loading.           *)
ClickButton(f, i) ==
    /\ ~FlowTable[f].review
    /\ FlowTable[f].disables => shown[f] \notin InProgress
    /\ StartRun(f, i)
    /\ UNCHANGED <<preview, onChain, reviews, flowFaults>>

------------------------------------------------------------------------------
(* The steps of a run.                                                     *)

GoesOn(i, pc, display) ==
    /\ run' = [run EXCEPT ![i].pc = pc]
    /\ shown' = [shown EXCEPT ![run[i].flow] = display]

(* The flows whose callback rejects, which leaves the dialog open.         *)
Rethrows(f) == f \in {"repaymentForm", "loanWizard"}

(* The handler returns: the ref is cleared in its finally, and the dialog  *)
(* closes unless the callback rejected.                                    *)
HandlerReturns(f, rejects, stillExecuting) ==
    /\ executing' = stillExecuting
    /\ preview' = [preview EXCEPT ![f] =
           IF ~FlowTable[f].review THEN @
           ELSE IF rejects THEN [@ EXCEPT !.loading = FALSE] ELSE ClosedPreview(@)]

FinishRun(i, outcome, rejects, stillExecuting) ==
    /\ run' = [run EXCEPT ![i].pc = "ended", ![i].outcome = outcome]
    /\ shown' = [shown EXCEPT ![run[i].flow] = outcome]
    /\ HandlerReturns(run[i].flow, rejects, stillExecuting)

EndRun_Faulty(i, outcome, rejects) ==
    FinishRun(i, outcome, rejects, IF rejects THEN executing ELSE executing \ {run[i].flow})

EndRun(i, outcome, rejects) == FinishRun(i, outcome, rejects, executing \ {run[i].flow})

FailRun(i) == EndRun(i, "error", Rethrows(run[i].flow))

BuildAnswered(i) ==
    /\ run[i].pc = "building"
    /\ GoesOn(i, "signing", "signing")
    /\ UNCHANGED <<preview, executing, onChain, reviews, flowFaults>>

WalletSigns(i) ==
    /\ run[i].pc = "signing"
    /\ GoesOn(i, "submitting", "submitted")
    /\ UNCHANGED <<preview, executing, onChain, reviews, flowFaults>>

(* The user declines, an error to every flow but the repay page.           *)
WalletRefuses(i) ==
    /\ run[i].pc = "signing"
    /\ IF run[i].flow = "repayPage" THEN EndRun(i, "cancelled", FALSE) ELSE FailRun(i)
    /\ UNCHANGED <<onChain, reviews, flowFaults>>

(* The submission reaches the network (for the loan wizard: the request,   *)
(* with or without a transaction of its own).                              *)
ReachesNetwork(i) ==
    /\ run[i].pc = "submitting" /\ onChain[i] = "none"
    /\ onChain' = [onChain EXCEPT ![i] = "pending"]
    /\ UNCHANGED <<preview, executing, shown, run, reviews, flowFaults>>

ledgerDecides(i) ==
    /\ onChain[i] = "pending"
    /\ onChain' \in {[onChain EXCEPT ![i] = "applied"], [onChain EXCEPT ![i] = "failed"]}
    /\ UNCHANGED <<preview, executing, shown, run, reviews, flowFaults>>

(* What the API may answer for run i.                                      *)
Answers(i) ==
    {"NOT_FOUND"} \cup (IF onChain[i] = "applied" THEN {"SUCCESS"}
                        ELSE IF onChain[i] = "failed" THEN {"FAILED"} ELSE {})

(* The check on the answer, per flow.                                      *)
Accepts_Faulty(i, answer) == answer # "FAILED"

Accepts(i, answer) == FlowOf(i).checks = "status" => answer = "SUCCESS"

(* A repayment shows its success and then awaits the invalidations, its    *)
(* ref still set and its dialog still loading.                             *)
ShowSuccess(i) ==
    /\ run' = [run EXCEPT ![i].pc = "invalidating", ![i].outcome = "success"]
    /\ shown' = [shown EXCEPT ![run[i].flow] = "success"]
    /\ UNCHANGED <<preview, executing>>

SubmitAnswered(i) ==
    /\ run[i].pc = "submitting" /\ onChain[i] # "none" /\ FlowOf(i).checks # "poll"
    /\ \E answer \in Answers(i) :
          IF ~Accepts(i, answer) THEN FailRun(i)
          ELSE IF run[i].flow = "repaymentForm" THEN ShowSuccess(i)
          ELSE EndRun(i, "success", FALSE)
    /\ UNCHANGED <<onChain, reviews, flowFaults>>

(* invalidateQueries resolves however the refetches went.                  *)
InvalidationsSettle(i) ==
    /\ run[i].pc = "invalidating"
    /\ run' = [run EXCEPT ![i].pc = "ended"]
    /\ HandlerReturns(run[i].flow, FALSE, executing \ {run[i].flow})
    /\ UNCHANGED <<shown, onChain, reviews, flowFaults>>

(* Three seconds after an entry of the store was confirmed.                *)
DismissConfirmed(f) ==
    /\ f \in {"repaymentForm", "useDepositOperation", "useWithdrawalOperation"}
    /\ shown[f] = "success"
    /\ shown' = [shown EXCEPT ![f] = "none"]
    /\ UNCHANGED <<preview, executing, run, onChain, reviews, flowFaults>>

(* A build or submission fails, or its answer is lost on the way.          *)
RequestFails(i) ==
    /\ run[i].pc \in {"building", "submitting"} /\ flowFaults < MaxFlowFaults
    /\ flowFaults' = flowFaults + 1
    /\ FailRun(i)
    /\ UNCHANGED <<onChain, reviews>>

------------------------------------------------------------------------------
(* The loan wizard: pollTransactionStatus, cancelTracking; the repay       *)
(* page's cancelFlow.                                                      *)

(* Without a hash the request counts as accepted and recorded.             *)
RequestRecorded(i) ==
    /\ run[i].pc = "submitting" /\ onChain[i] # "none" /\ FlowOf(i).checks = "poll"
    /\ \/ GoesOn(i, "polling", "confirming") /\ UNCHANGED <<executing, preview>>
       \/ EndRun(i, "success", FALSE)
    /\ UNCHANGED <<onChain, reviews, flowFaults>>

(* Failed, or not decided within the 30 seconds: shown, not thrown.        *)
pollTransactionStatus(i) ==
    /\ run[i].pc = "polling"
    /\ \/ onChain[i] = "applied" /\ EndRun(i, "success", FALSE)
       \/ EndRun(i, "error", FALSE)
    /\ UNCHANGED <<onChain, reviews, flowFaults>>

(* cancelTracking stops the run that polls, if one does; anything else, and *)
(* everything on the repay page, goes on behind the word "cancelled".      *)
CancelFlow(f) ==
    LET polling == {i \in RunsOf(f) : run[i].pc = "polling"} IN
    /\ f \in {"repayPage", "loanWizard"} /\ shown[f] \in InProgress
    /\ IF polling # {} THEN EndRun(Max(polling), "cancelled", FALSE)
       ELSE /\ shown' = [shown EXCEPT ![f] = "cancelled"]
            /\ UNCHANGED <<preview, executing, run>>
    /\ UNCHANGED <<onChain, reviews, flowFaults>>

FlowInit ==
    /\ preview = [f \in UsedFlows |-> Closed]
    /\ executing = {}
    /\ shown = [f \in UsedFlows |-> "none"]
    /\ run = [i \in FlowRuns |-> NotStarted]
    /\ onChain = [i \in FlowRuns |-> "none"]
    /\ reviews = 0 /\ flowFaults = 0

RunStep(i) ==
    \/ BuildAnswered(i) \/ ReachesNetwork(i) \/ SubmitAnswered(i)
    \/ InvalidationsSettle(i) \/ RequestRecorded(i) \/ pollTransactionStatus(i)

FlowNext ==
    \/ \E f \in UsedFlows :
          \/ ShowPreview(f) \/ ClosePreview(f) \/ ClearPreview(f) \/ CancelFlow(f)
          \/ DismissConfirmed(f)
          \/ \E i \in FlowRuns : ConfirmPreview(f, i) \/ ClickButton(f, i)
    \/ \E i \in FlowRuns : RunStep(i) \/ WalletSigns(i) \/ WalletRefuses(i) \/ RequestFails(i)
                               \/ ledgerDecides(i)

(* Requests are answered or fail; the wallet may wait for its user for     *)
(* ever.                                                                   *)
FlowFairness == \A i \in FlowRuns : WF_flowVars(RunStep(i))

FlowSpec == FlowInit /\ [][FlowNext]_flowVars /\ FlowFairness

------------------------------------------------------------------------------
(* Correctness.                                                            *)

(* Where a flow demands a status, success is never shown for a transaction *)
(* that was not applied - of its own run, whatever older runs, closed      *)
(* dialogs, late or lost answers did to the shared tracker - and a mounted *)
(* repayment form has one repayment in the works at most, though its       *)
(* dialog can be closed over a running one, reopened and confirmed.        *)
SuccessWasConfirmed ==
    /\ \A i \in FlowRuns : run[i].outcome = "success" /\ FlowOf(i).checks = "status" =>
          onChain[i] = "applied"
    /\ \A f \in UsedFlows : shown[f] = "success" /\ FlowTable[f].checks = "status" =>
          \E i \in RunsOf(f) : onChain[i] = "applied"
    /\ \A f \in UsedFlows : FlowTable[f].exclusive =>
          Cardinality({i \in RunsOf(f) : ~Ended(i)}) <= 1

(* The form opens up again: the ref is cleared however a repayment ended,  *)
(* unless it is the wallet that still waits for its user.                  *)
FormReopens ==
    \A f \in UsedFlows :
        [](f \in executing =>
              <>(f \notin executing \/ \E i \in RunsOf(f) : run[i].pc = "signing"))
==============================================================================
