---------------------------- MODULE DefaultKeeper ----------------------------
(***************************************************************************)
(* The default checker (services/defaultChecker.ts) in several server      *)
(* processes, with the start and stop of their jobs (index.ts): runs from  *)
(* the scheduler and from administrators under one Redis lock with a TTL,  *)
(* each reading overdue loans from the indexed events and submitting       *)
(* check_defaults in batches that race a timeout.                          *)
(***************************************************************************)
EXTENDS Integers, FiniteSets, FiniteSetsExt

CONSTANTS
    Processes,
    LoanCount,          \* loans 1 .. LoanCount, in the order the scan puts them
    BatchSize,          \* DEFAULT_CHECK_BATCH_SIZE
    MaxLoansPerRun,     \* DEFAULT_CHECK_MAX_LOANS_PER_RUN
    NoRun,
    Runs,               \* <<process, "scheduled" or "manual">>
    MaxKeeperFaults     \* crashes, errors, timeouts, manual runs, repayments, liquidations

ASSUME KeeperConstants == Runs \subseteq Processes \X {"scheduled", "manual"} /\ NoRun \notin Runs

KeptLoans == 1 .. LoanCount
ProcessOf(r) == r[1]

VARIABLES
    serving,            \* process -> "new", "up" or "down"
    checkerLock,        \* default_checker:running: the run that set it, or NoRun
    lockValue,          \* process -> currentLockValue of its DefaultChecker
    checkRun,           \* run -> [pc, batches still to submit]
    lateBatches,        \* batches the network holds after their run gave up on them
    pastTerm,           \* loans 1 .. pastTerm were approved LOAN_TERM_LEDGERS ago
    chainLoan,          \* loan -> "active", "overdue", "repaid", "defaulted" or
                        \* "liquidated"; overdue: past its default window
    emitted,            \* loan -> its events on chain
    seen,               \* loan -> its events in contract_events
    ledgerGap,          \* a suspect checkpoint of the loan manager
    keeperFaults

keeperVars == <<serving, checkerLock, lockValue, checkRun, lateBatches, pastTerm, chainLoan,
                emitted, seen, ledgerGap, keeperFaults>>

chainVars == <<pastTerm, chainLoan, emitted, seen, ledgerGap>>

KeeperInit ==
    /\ serving = [p \in Processes |-> "new"]
    /\ checkerLock = NoRun
    /\ lockValue = [p \in Processes |-> NoRun]
    /\ checkRun = [r \in Runs |-> [pc |-> "idle", batches |-> {}]]
    /\ lateBatches = {}
    /\ pastTerm = 0
    /\ chainLoan = [l \in KeptLoans |-> "active"]
    /\ emitted = [l \in KeptLoans |-> {"LoanApproved"}]
    /\ seen = emitted
    /\ ledgerGap = FALSE
    /\ keeperFaults = 0

KeeperFault == keeperFaults < MaxKeeperFaults /\ keeperFaults' = keeperFaults + 1
KeeperCalm == UNCHANGED keeperFaults

RunGoto(r, pc) == checkRun' = [checkRun EXCEPT ![r].pc = pc]

(* listen(): the schedulers start once the server accepts requests; a      *)
(* process that stopped is started again.                                  *)
startServer(p) ==
    /\ serving[p] \in {"new", "down"}
    /\ serving' = [serving EXCEPT ![p] = "up"]
    /\ UNCHANGED <<checkerLock, lockValue, checkRun, lateBatches, chainVars, keeperFaults>>

(* A signal or a crash: the runs of the process end where they are, and    *)
(* the lock stays until its TTL.                                           *)
shutdown(p) ==
    /\ serving[p] = "up" /\ KeeperFault
    /\ serving' = [serving EXCEPT ![p] = "down"]
    /\ lockValue' = [lockValue EXCEPT ![p] = NoRun]
    /\ checkRun' = [r \in Runs |-> IF ProcessOf(r) = p THEN [pc |-> "idle", batches |-> {}] ELSE checkRun[r]]
    /\ UNCHANGED <<checkerLock, lateBatches, chainVars>>

(* SET NX: a run that does not get the lock is skipped, and a Redis error  *)
(* skips it too.                                                           *)
acquireLock(r) ==
    /\ serving[ProcessOf(r)] = "up" /\ checkRun[r].pc = "idle" /\ checkerLock = NoRun
    /\ IF r[2] = "manual" THEN KeeperFault ELSE KeeperCalm
    /\ checkerLock' = r
    /\ lockValue' = [lockValue EXCEPT ![ProcessOf(r)] = r]
    /\ RunGoto(r, "check")
    /\ UNCHANGED <<serving, lateBatches, chainVars>>

(* hasSuspectLedgerRanges: with a gap in the index nothing is concluded; a *)
(* query that fails counts as no gap.                                      *)
hasSuspectLedgerRanges(r) ==
    /\ checkRun[r].pc = "check"
    /\ \/ KeeperCalm /\ RunGoto(r, IF ledgerGap THEN "release" ELSE "fetch")
       \/ ledgerGap /\ KeeperFault /\ RunGoto(r, "fetch")
    /\ UNCHANGED <<serving, checkerLock, lockValue, lateBatches, chainVars>>

(* Fault: defaulted loans stay in the scan.                                *)
fetchOverdueLoanIds_Faulty ==
    {l \in KeptLoans : "LoanApproved" \in seen[l] /\ "LoanRepaid" \notin seen[l]
                       /\ l <= pastTerm}

(* Approved, past its term, and neither repaid nor defaulted in the index: *)
(* any repayment, a partial one too, takes a loan out of the scan, and a   *)
(* liquidation does not.  The term counts from the approval: an extension, *)
(* a term of the loan's own and the default window are not looked at.      *)
fetchOverdueLoanIds ==
    {l \in KeptLoans : /\ "LoanApproved" \in seen[l]
                       /\ seen[l] \cap {"LoanRepaid", "LoanDefaulted"} = {}
                       /\ l <= pastTerm}

OldestFirst(S) == {l \in S : Cardinality({k \in S : k < l}) < MaxLoansPerRun}

(* Batches of at most BatchSize in due order.                              *)
chunk(S) ==
    LET Rank(l) == Cardinality({k \in S : k < l})
    IN  {{l \in S : Rank(l) \div BatchSize = n} : n \in {Rank(l) \div BatchSize : l \in S}}

(* checkOverdueLoans: the loans named, or the oldest overdue ones.         *)
checkOverdueLoans(r) ==
    /\ checkRun[r].pc = "fetch"
    /\ \E targets \in {OldestFirst(fetchOverdueLoanIds)}
                      \cup (IF r[2] = "manual" THEN {{l} : l \in KeptLoans} ELSE {}) :
          checkRun' = [checkRun EXCEPT ![r] = [pc |-> "submit", batches |-> chunk(targets)]]
    /\ UNCHANGED <<serving, checkerLock, lockValue, lateBatches, chainVars, keeperFaults>>

(* check_defaults on chain: passes over every loan of the batch that has   *)
(* ended or is not past its default window.                                *)
Defaulted(batch) ==
    /\ chainLoan' = [l \in KeptLoans |->
           IF l \in batch /\ chainLoan[l] = "overdue" THEN "defaulted" ELSE chainLoan[l]]
    /\ emitted' = [l \in KeptLoans |->
           IF l \in batch /\ chainLoan[l] = "overdue" THEN emitted[l] \cup {"LoanDefaulted"} ELSE emitted[l]]
    /\ UNCHANGED <<pastTerm, seen, ledgerGap>>

(* A batch is prepared, sent and polled: applied, refused (an error, or    *)
(* the sequence number of a concurrent batch), or given up at the timeout  *)
(* with the transaction still out.                                         *)
submitCheckDefaults(r, batch) ==
    /\ checkRun[r].pc = "submit" /\ batch \in checkRun[r].batches
    /\ checkRun' = [checkRun EXCEPT ![r].batches = @ \ {batch}]
    /\ \/ KeeperCalm /\ Defaulted(batch) /\ UNCHANGED lateBatches
       \/ KeeperFault /\ UNCHANGED <<chainVars, lateBatches>>
       \/ KeeperFault /\ lateBatches' = lateBatches \cup {batch} /\ UNCHANGED chainVars
    /\ UNCHANGED <<serving, checkerLock, lockValue>>

finishRun(r) ==
    /\ checkRun[r].pc = "submit" /\ checkRun[r].batches = {}
    /\ RunGoto(r, "release")
    /\ UNCHANGED <<serving, checkerLock, lockValue, lateBatches, chainVars, keeperFaults>>

(* Fault: the lock is deleted whatever value it holds.                     *)
releaseLock_Faulty(r) ==
    /\ checkRun[r].pc = "release"
    /\ RunGoto(r, "idle")
    /\ lockValue' = [lockValue EXCEPT ![ProcessOf(r)] = NoRun]
    /\ checkerLock' = NoRun
    /\ UNCHANGED <<serving, lateBatches, chainVars, keeperFaults>>

(* deleteIfMatch with the value the process keeps, which is that of its    *)
(* latest run to get the lock, not of this one.                            *)
releaseLock(r) ==
    LET value == lockValue[ProcessOf(r)]
    IN  /\ checkRun[r].pc = "release"
        /\ RunGoto(r, "idle")
        /\ lockValue' = [lockValue EXCEPT ![ProcessOf(r)] = NoRun]
        /\ checkerLock' = IF value # NoRun /\ checkerLock = value THEN NoRun ELSE checkerLock
        /\ UNCHANGED <<serving, lateBatches, chainVars, keeperFaults>>

(* LOCK_TTL_SECONDS: ten minutes; a run of many batches takes longer.      *)
checkerLockExpires ==
    /\ checkerLock # NoRun
    /\ checkerLock' = NoRun
    /\ UNCHANGED <<serving, lockValue, checkRun, lateBatches, chainVars, keeperFaults>>

------------------------------------------------------------------------------
(* The chain and the index.                                                *)

Elsewhere == UNCHANGED <<serving, checkerLock, lockValue, checkRun, lateBatches>>

loanFallsDue ==
    /\ pastTerm < LoanCount
    /\ pastTerm' = pastTerm + 1
    /\ UNCHANGED <<chainLoan, emitted, seen, ledgerGap, keeperFaults>> /\ Elsewhere

(* The loan's own due date, extended or not, and the default window pass.  *)
defaultWindowEnds(l) ==
    /\ chainLoan[l] = "active"
    /\ chainLoan' = [chainLoan EXCEPT ![l] = "overdue"]
    /\ UNCHANGED <<pastTerm, emitted, seen, ledgerGap, keeperFaults>> /\ Elsewhere

(* Refused once the default window has passed.                             *)
borrowerRepays(l, whole) ==
    /\ chainLoan[l] = "active"
    /\ chainLoan' = [chainLoan EXCEPT ![l] = IF whole THEN "repaid" ELSE @]
    /\ KeeperFault
    /\ emitted' = [emitted EXCEPT ![l] = @ \cup {"LoanRepaid"}]
    /\ UNCHANGED <<pastTerm, seen, ledgerGap>> /\ Elsewhere

(* Anyone liquidates a loan whose collateral is worth too little, before   *)
(* or after it falls due.  No other event of the loan follows.             *)
liquidate(l) ==
    /\ chainLoan[l] \in {"active", "overdue"}
    /\ chainLoan' = [chainLoan EXCEPT ![l] = "liquidated"]
    /\ KeeperFault
    /\ emitted' = [emitted EXCEPT ![l] = @ \cup {"LoanLiquidated"}]
    /\ UNCHANGED <<pastTerm, seen, ledgerGap>> /\ Elsewhere

indexerSees(l) ==
    /\ seen[l] # emitted[l]
    /\ seen' = [seen EXCEPT ![l] = emitted[l]]
    /\ UNCHANGED <<pastTerm, chainLoan, emitted, ledgerGap, keeperFaults>> /\ Elsewhere

lateBatchApplies(batch) ==
    /\ batch \in lateBatches
    /\ lateBatches' = lateBatches \ {batch}
    /\ Defaulted(batch)
    /\ UNCHANGED <<serving, checkerLock, lockValue, checkRun, keeperFaults>>

(* recordCheckpoint inserts a suspect range; no code ever clears one.      *)
gapFound == ~ledgerGap /\ KeeperCalm /\ ledgerGap' = TRUE
            /\ UNCHANGED <<pastTerm, chainLoan, emitted, seen>> /\ Elsewhere

RunStep(r) ==
    \/ hasSuspectLedgerRanges(r) \/ checkOverdueLoans(r) \/ finishRun(r) \/ releaseLock(r)
    \/ \E batch \in checkRun[r].batches : submitCheckDefaults(r, batch)

ChainStep(l) ==
    \/ defaultWindowEnds(l) \/ liquidate(l) \/ indexerSees(l)
    \/ \E whole \in BOOLEAN : borrowerRepays(l, whole)

KeeperNext ==
    \/ \E p \in Processes : startServer(p) \/ shutdown(p)
    \/ \E r \in Runs : acquireLock(r) \/ RunStep(r)
    \/ \E l \in KeptLoans : ChainStep(l)
    \/ \E batch \in lateBatches : lateBatchApplies(batch)
    \/ loanFallsDue \/ checkerLockExpires \/ gapFound

(* The schedulers fire, runs go on, processes are restarted, the indexer   *)
(* catches up, Redis expires the lock, ledgers close (MAX_EXTENSIONS: a    *)
(* due date is not moved for ever); all once a first process has started.  *)
Started == serving # [p \in Processes |-> "new"]

KeeperFairness ==
    /\ \A p \in Processes : WF_keeperVars(serving[p] = "down" /\ startServer(p))
    /\ \A r \in Runs : /\ WF_keeperVars(RunStep(r))
                       /\ WF_keeperVars(r[2] = "scheduled" /\ acquireLock(r))
    /\ \A l \in KeptLoans : WF_keeperVars(Started /\ indexerSees(l))
                            /\ WF_keeperVars(Started /\ defaultWindowEnds(l))
    /\ WF_keeperVars(Started /\ loanFallsDue) /\ WF_keeperVars(checkerLockExpires)

KeeperSpec == KeeperInit /\ [][KeeperNext]_keeperVars /\ KeeperFairness

------------------------------------------------------------------------------
(* releaseLock's comment: "A run that outlives the TTL cannot delete a     *)
(* lock that now belongs to a different instance", whichever runs of the   *)
(* releasing process have replaced its remembered value meanwhile.         *)
FencedRelease ==
    \A r \in Runs :
        (/\ checkRun[r].pc = "release" /\ checkRun'[r].pc = "idle" /\ serving' = serving
         /\ checkerLock # NoRun /\ ProcessOf(checkerLock) # ProcessOf(r))
        => checkerLock' = checkerLock

LockFenced == [][FencedRelease]_keeperVars

(* A loan past its default window is defaulted, or liquidated, in the end: *)
(* through the limit on a run's loans, older loans that cannot be          *)
(* defaulted yet and take its places, batches that time out, skipped runs  *)
(* and processes that die with the lock.  Three things keep a loan out of  *)
(* the checker's sight for good: a repayment of a part of it, a suspect    *)
(* ledger range, and MaxLoansPerRun older loans that were liquidated,      *)
(* which the scan of fetchOverdueLoanIds never lets go.                    *)
LiquidatedBefore(l) == {k \in KeptLoans : /\ k < l /\ chainLoan[k] = "liquidated"
                                          /\ "LoanRepaid" \notin emitted[k]}

OverdueIsCaught ==
    \A l \in KeptLoans :
        (chainLoan[l] = "overdue" /\ Started)
        ~> (\/ chainLoan[l] # "overdue"
            \/ "LoanRepaid" \in emitted[l] \/ ledgerGap
            \/ Cardinality(LiquidatedBefore(l)) >= MaxLoansPerRun)
==============================================================================
