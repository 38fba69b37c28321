-------------------------------- MODULE Scores --------------------------------
(***************************************************************************)
(* Credit scores in the database and everything that writes them: the      *)
(* bulk deltas and absolute values of services/scoresService.ts, the decay *)
(* job, the reconciliation against the chain, the update endpoint and the  *)
(* cached read (controllers/scoreController.ts).  Jobs hold what they read *)
(* while the others write.  The automatic correction, which is off unless  *)
(* SCORE_RECONCILIATION_AUTOCORRECT_ENABLED says otherwise, is on here.    *)
(***************************************************************************)
EXTENDS Integers, FiniteSets, FiniteSetsExt

CONSTANTS
    Scored,             \* borrowers: numbers, in the order of their addresses
    MaxBorrowersPerRun, \* SCORE_RECONCILIATION_MAX_BORROWERS_PER_RUN
    ScoreReads,         \* GET /score requests
    MinScore, MaxScore, StartScore,     \* 300, 850, 500
    Deltas,             \* what an event or an update adds
    DecayStep,          \* DECAY_PER_MONTH times the months
    Threshold,          \* SCORE_RECONCILIATION_AUTOCORRECT_THRESHOLD
    NoScore,
    MaxScoreWrites      \* score writes, decay runs, outages, loans that begin or end

VARIABLES
    score,              \* borrower -> scores.score, or NoScore without a row
    chainScore,         \* borrower -> the score of its NFT
    scoreCache,         \* borrower -> score:userId in Redis, or NoScore
    scoreRead,          \* read -> [pc, borrower, value]
    decaying,           \* borrower -> the score the decay job read, or NoScore
    borrowing,          \* borrowers with a loan neither repaid on nor defaulted
    reconciling,        \* borrower -> [pc, row, answer] of the reconciliation in flight
    scoreWrites

scoreVars == <<score, chainScore, scoreCache, scoreRead, decaying, borrowing, reconciling, scoreWrites>>

NotReconciling == [pc |-> "idle", row |-> NoScore, answer |-> NoScore]

ScoresInit ==
    /\ score = [b \in Scored |-> NoScore]
    /\ chainScore = [b \in Scored |-> StartScore]
    /\ scoreCache = [b \in Scored |-> NoScore]
    /\ scoreRead = [r \in ScoreReads |-> [pc |-> "client", borrower |-> NoScore, value |-> NoScore]]
    /\ decaying = [b \in Scored |-> NoScore]
    /\ borrowing = Scored
    /\ reconciling = [b \in Scored |-> NotReconciling]
    /\ scoreWrites = 0

CountWrite == scoreWrites < MaxScoreWrites /\ scoreWrites' = scoreWrites + 1
Clamped(x) == Max({MinScore, Min({MaxScore, x})})

(* The row inserted, or added to the existing one, carries 500 - delta:    *)
(* a positive delta lowers the score.                                      *)
updateUserScoresBulk(b, delta) ==
    IF score[b] = NoScore THEN Clamped(StartScore - delta)
    ELSE Clamped(score[b] + Clamped(StartScore - delta) - StartScore)

(* The indexer's deltas; both cache entries of the borrower are dropped.   *)
applyEventDeltas(b, delta) ==
    /\ CountWrite
    /\ score' = [score EXCEPT ![b] = updateUserScoresBulk(b, delta)]
    /\ scoreCache' = [scoreCache EXCEPT ![b] = NoScore]
    /\ chainScore' = [chainScore EXCEPT ![b] = Clamped(@ + delta)]
    /\ UNCHANGED <<scoreRead, decaying, borrowing, reconciling>>

(* POST /score/update: the insert is not clamped.                          *)
updateScore(b, delta) ==
    /\ CountWrite
    /\ score' = [score EXCEPT ![b] = IF @ = NoScore THEN StartScore + delta ELSE Clamped(@ + delta)]
    /\ scoreCache' = [scoreCache EXCEPT ![b] = NoScore]
    /\ UNCHANGED <<chainScore, scoreRead, decaying, borrowing, reconciling>>

(* One run of the decay job at a time; a borrower it fails on is skipped.  *)
isRunning == \E b \in Scored : decaying[b] # NoScore

(* The decay job reads every inactive borrower first ...                   *)
getInactiveBorrowers ==
    /\ ~isRunning
    /\ \E inactive \in SUBSET {b \in Scored : score[b] # NoScore} :
          /\ inactive # {}
          /\ decaying' = [b \in Scored |-> IF b \in inactive THEN score[b] ELSE NoScore]
    /\ CountWrite
    /\ UNCHANGED <<score, chainScore, scoreCache, scoreRead, borrowing, reconciling>>

(* ... and then writes them one by one, over whatever is there, without    *)
(* dropping the cached score.                                              *)
applyScoreDecay(b) ==
    /\ decaying[b] # NoScore
    /\ \/ score' = [score EXCEPT ![b] = Max({MinScore, decaying[b] - DecayStep})]
       \/ UNCHANGED score
    /\ decaying' = [decaying EXCEPT ![b] = NoScore]
    /\ UNCHANGED <<chainScore, scoreCache, scoreRead, borrowing, reconciling, scoreWrites>>

Distance(x, y) == IF x > y THEN x - y ELSE y - x
(* Fault: a divergence of exactly the threshold is let be.                 *)
Diverges_Faulty(row, answer) == IF row = NoScore THEN TRUE ELSE Distance(row, answer) > Threshold

(* The row the run read against the answer it got.                         *)
Diverges(row, answer) ==
    IF row = NoScore THEN TRUE ELSE row # answer /\ Distance(row, answer) >= Threshold

(* A loan is approved, or the first repayment on it or its default is      *)
(* indexed; a liquidated loan counts on.                                   *)
borrowingChanges(b) ==
    /\ CountWrite
    /\ borrowing' = IF b \in borrowing THEN borrowing \ {b} ELSE borrowing \cup {b}
    /\ UNCHANGED <<score, chainScore, scoreCache, scoreRead, decaying, reconciling>>

(* The first addresses, and no cursor: the same ones on every run.         *)
FirstBatch == {b \in borrowing : Cardinality({a \in borrowing : a < b}) < MaxBorrowersPerRun}

(* A run (one at a time: reconciliationInFlight) reads the rows of the     *)
(* first borrowers who have a loan with neither a repayment nor a default  *)
(* on record ...                                                           *)
fetchActiveBorrowerScores ==
    /\ FirstBatch # {}
    /\ \A b \in Scored : reconciling[b] = NotReconciling
    /\ reconciling' = [b \in Scored |->
           IF b \in FirstBatch THEN [pc |-> "row", row |-> score[b], answer |-> NoScore]
           ELSE NotReconciling]
    /\ UNCHANGED <<score, chainScore, scoreCache, scoreRead, decaying, borrowing, scoreWrites>>

(* ... then asks the chain about each.  When the node is out of reach the  *)
(* answer is the default score, as it is for a borrower without an NFT, or *)
(* no answer, and the borrower is left out.                                *)
getOnChainCreditScore(b) ==
    /\ reconciling[b].pc = "row"
    /\ \E answer \in {chainScore[b], StartScore, NoScore} :
          /\ answer # chainScore[b] => CountWrite
          /\ answer = chainScore[b] => UNCHANGED scoreWrites
          /\ reconciling' = [reconciling EXCEPT ![b].pc = "asked", ![b].answer =
                 IF answer = NoScore THEN NoScore
                 ELSE IF Diverges(reconciling[b].row, answer) THEN answer ELSE NoScore]
    /\ UNCHANGED <<score, chainScore, scoreCache, scoreRead, decaying, borrowing>>

(* The corrections are written together when every borrower of the run has *)
(* been asked about, over whatever is there by then.                       *)
setAbsoluteUserScoresBulk ==
    LET corrected == {b \in Scored : reconciling[b].answer # NoScore}
    IN /\ \E b \in Scored : reconciling[b].pc = "asked"
       /\ \A b \in Scored : reconciling[b].pc # "row"
       /\ score' = [b \in Scored |-> IF b \in corrected THEN reconciling[b].answer ELSE score[b]]
       /\ scoreCache' = [b \in Scored |-> IF b \in corrected THEN NoScore ELSE scoreCache[b]]
       /\ reconciling' = [b \in Scored |-> NotReconciling]
       /\ UNCHANGED <<chainScore, scoreRead, decaying, borrowing, scoreWrites>>

(* GET /score: the cache, the row (500 without one), then the cache again. *)
getScore(r, b) ==
    /\ scoreRead[r].pc = "client"
    /\ scoreRead' = [scoreRead EXCEPT ![r] =
           IF scoreCache[b] # NoScore THEN [pc |-> "answered", borrower |-> b, value |-> scoreCache[b]]
           ELSE [pc |-> "cache", borrower |-> b,
                 value |-> IF score[b] = NoScore THEN StartScore ELSE score[b]]]
    /\ UNCHANGED <<score, chainScore, scoreCache, decaying, borrowing, reconciling, scoreWrites>>

cacheScore(r) ==
    /\ scoreRead[r].pc = "cache"
    /\ scoreCache' = [scoreCache EXCEPT ![scoreRead[r].borrower] = scoreRead[r].value]
    /\ scoreRead' = [scoreRead EXCEPT ![r].pc = "answered"]
    /\ UNCHANGED <<score, chainScore, decaying, borrowing, reconciling, scoreWrites>>

(* Five minutes.                                                           *)
scoreCacheExpires(b) ==
    /\ scoreCache[b] # NoScore
    /\ scoreCache' = [scoreCache EXCEPT ![b] = NoScore]
    /\ UNCHANGED <<score, chainScore, scoreRead, decaying, borrowing, reconciling, scoreWrites>>

ScoresNext ==
    \/ \E b \in Scored :
          \/ \E delta \in Deltas : applyEventDeltas(b, delta) \/ updateScore(b, delta)
          \/ applyScoreDecay(b) \/ getOnChainCreditScore(b)
          \/ scoreCacheExpires(b) \/ borrowingChanges(b)
          \/ \E r \in ScoreReads : getScore(r, b)
    \/ getInactiveBorrowers \/ fetchActiveBorrowerScores \/ setAbsoluteUserScoresBulk
    \/ \E r \in ScoreReads : cacheScore(r)

(* The reconciliation runs on its interval (it has nothing to do before    *)
(* the first write), and what it found is written.                         *)
ScoresFairness ==
    /\ WF_scoreVars(scoreWrites > 0 /\ fetchActiveBorrowerScores)
    /\ WF_scoreVars(setAbsoluteUserScoresBulk)
    /\ \A b \in Scored : WF_scoreVars(getOnChainCreditScore(b))

------------------------------------------------------------------------------
(* Whatever order deltas (of the wrong sign), updates, decay and           *)
(* corrections are written in, each from its own stale read, and the       *)
(* default scores an outage puts in the place of the chain's, the score in *)
(* the database ends up within the tolerance of the one on chain, once     *)
(* nobody else writes - for a borrower who stays in the first batch of     *)
(* the reconciliation and with the correction on.  Nothing is promised of  *)
(* a borrower behind the first MaxBorrowersPerRun addresses.               *)
ScoresConverge ==
    \A b \in Scored :
        <>[](b \in FirstBatch)
        => <>[](score[b] # NoScore => Distance(score[b], chainScore[b]) < Threshold)
===============================================================================
