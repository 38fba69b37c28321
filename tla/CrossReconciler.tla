--------------------------- MODULE CrossReconciler ---------------------------
(***************************************************************************)
(* The ledger of services/crossContractReconciler.ts: one row for every    *)
(* repayment or default that is indexed, checked run after run until its   *)
(* score event is found or the row is flagged half applied.                *)
(***************************************************************************)
EXTENDS Integers, FiniteSets, FiniteSetsExt

CONSTANTS
    Custody,            \* custody events, in the order of their rows: 1 .. n
    RowsPerRun, StaleAttempts           \* CROSS_RECONCILE_*

VARIABLES
    watched,            \* event -> [state, attempts] of its reconciliation row
    scoreEvent,         \* custody events whose score event is indexed
    unsent              \* custody events whose score event never comes

reconcilerVars == <<watched, scoreEvent, unsent>>

ReconcilerInit ==
    /\ watched = [e \in Custody |-> [state |-> "none", attempts |-> 0]]
    /\ scoreEvent = {} /\ unsent = {}

(* A custody event is indexed: a repayment or a default whose score event  *)
(* comes or never comes, or an approval, which expects none and counts as  *)
(* matched.                                                                *)
custodyIndexed(e) ==
    /\ watched[e].state = "none" /\ \A d \in Custody : d < e => watched[d].state # "none"
    /\ watched' = [watched EXCEPT ![e].state = "indexed"]
    /\ \/ UNCHANGED <<unsent, scoreEvent>>
       \/ unsent' = unsent \cup {e} /\ UNCHANGED scoreEvent
       \/ scoreEvent' = scoreEvent \cup {e} /\ UNCHANGED unsent

scoreEventIndexed(e) ==
    /\ watched[e].state # "none" /\ e \notin scoreEvent \cup unsent
    /\ scoreEvent' = scoreEvent \cup {e}
    /\ UNCHANGED <<watched, unsent>>

backfillPendingRows(e) ==
    /\ watched[e].state = "indexed"
    /\ watched' = [watched EXCEPT ![e].state = "pending"]
    /\ UNCHANGED <<scoreEvent, unsent>>

(* The oldest unresolved rows; half-applied ones are looked at for ever.   *)
Unresolved == {e \in Custody : watched[e].state \in {"pending", "half_applied"}}
fetchUnresolvedRows == {e \in Unresolved : Cardinality({d \in Unresolved : d < e}) < RowsPerRun}

(* Fault: a row that stays pending keeps its count of attempts.            *)
CheckedRow_Faulty(e) ==
    [state |-> IF e \in scoreEvent THEN "reconciled"
               ELSE IF watched[e].attempts + 1 >= StaleAttempts THEN "half_applied" ELSE "pending",
     attempts |-> watched[e].attempts]

CheckedRow(e) ==
    [state |-> IF e \in scoreEvent THEN "reconciled"
               ELSE IF watched[e].attempts + 1 >= StaleAttempts THEN "half_applied" ELSE "pending",
     attempts |-> Min({StaleAttempts, watched[e].attempts + 1})]

reconcileRow(e) ==
    /\ e \in fetchUnresolvedRows
    /\ watched' = [watched EXCEPT ![e] = CheckedRow(e)]
    /\ UNCHANGED <<scoreEvent, unsent>>

ReconcilerNext ==
    \E e \in Custody : custodyIndexed(e) \/ scoreEventIndexed(e) \/ backfillPendingRows(e) \/ reconcileRow(e)

(* The reconciler runs every five minutes.                                 *)
ReconcilerFairness ==
    \A e \in Custody : WF_reconcilerVars(backfillPendingRows(e)) /\ WF_reconcilerVars(reconcileRow(e))

------------------------------------------------------------------------------
(* Every custody event is told apart in the end: reconciled, or flagged    *)
(* half applied - or as many older rows are half applied as one run reads, *)
(* and newer ones starve behind them.                                      *)
CustodyIsJudged ==
    \A e \in Custody :
        (watched[e].state = "pending")
        ~> \/ watched[e].state \in {"reconciled", "half_applied"}
           \/ Cardinality({d \in Custody : watched[d].state = "half_applied"}) >= RowsPerRun
==============================================================================
