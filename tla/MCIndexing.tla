----------------------------- MODULE MCIndexing -----------------------------
(***************************************************************************)
(* A small instance of what keeps the database in step with the chain: the *)
(* indexer, the default checker, the score jobs and the cross-contract     *)
(* reconciler.  They meet in tables only, and each module has the writes   *)
(* of the others as actions of its own; so a behaviour of this instance    *)
(* exercises one of them, which leaves out no behaviour of any.            *)
(***************************************************************************)
EXTENDS EventIndexer, DefaultKeeper, Scores, CrossReconciler

(* One ledger with two repayments of one loan, which share a unique key,   *)
(* and one with a default the parser cannot read, a pause, and an event of *)
(* no interest.                                                            *)
Types == <<"LoanRepaid", "LoanRepaid", "LoanDefaulted", "PoolPaused", "Deposit">>
Ledgers == <<1, 1, 2, 2, 2>>
Loans == <<1, 1, 1, NoLoan, NoLoan>>
Borrowers == <<"u1", "u1", "u1", NoUser, NoUser>>
OneContract == [e \in Events |-> FirstContract]

CheckerRuns == {<<"p", "scheduled">>, <<"p", "manual">>, <<"q", "scheduled">>}
ScoreDeltas == {-3, 2}

Init == IndexerInit /\ KeeperInit /\ ScoresInit /\ ReconcilerInit

Next ==
    \/ /\ IndexerNext /\ KeeperInit /\ ScoresInit /\ ReconcilerInit
       /\ UNCHANGED <<keeperVars, scoreVars, reconcilerVars>>
    \/ /\ KeeperNext /\ IndexerInit /\ ScoresInit /\ ReconcilerInit
       /\ UNCHANGED <<indexerVars, scoreVars, reconcilerVars>>
    \/ /\ ScoresNext /\ IndexerInit /\ KeeperInit /\ ReconcilerInit
       /\ UNCHANGED <<indexerVars, keeperVars, reconcilerVars>>
    \/ /\ ReconcilerNext /\ IndexerInit /\ KeeperInit /\ ScoresInit
       /\ UNCHANGED <<indexerVars, keeperVars, scoreVars>>

Spec ==
    /\ Init /\ [][Next]_<<indexerVars, keeperVars, scoreVars, reconcilerVars>>
    /\ PollerFairness /\ KeeperFairness /\ ScoresFairness /\ ReconcilerFairness
==============================================================================
