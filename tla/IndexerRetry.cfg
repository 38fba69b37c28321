SPECIFICATION Spec
CONSTANTS
    IndexerProcesses = {p1}
    Contracts = {c1}
    FirstContract = c1
    Users = {"u1"}
    NEvents = 5
    EventType <- Types
    EventContract <- OneContract
    EventLedger <- Ledgers
    EventLoan <- Loans
    EventUser <- Borrowers
    Malformed = {3}
    Unsupported = {5}
    NoLoan = noloan
    NoUser = nouser
    NoRow = norow
    LedgersPerChunk = 1
    MAX_TX_RETRIES = 1
    ScoreMin = 3
    ScoreMax = 8
    ScoreBase = 5
    RepaymentDelta = 1
    DefaultPenalty = 3
    MaxLedger = 2
    MaxIndexerFaults = 2
    MaxAdminJobs = 1
    Processes = {"p", "q"}
    LoanCount = 2
    BatchSize = 1
    MaxLoansPerRun = 1
    NoRun = norun
    Runs <- CheckerRuns
    MaxKeeperFaults = 1
    Scored = {1, 2}
    MaxBorrowersPerRun = 1
    ScoreReads = {1}
    MinScore = 47
    MaxScore = 53
    StartScore = 50
    Deltas <- ScoreDeltas
    DecayStep = 1
    Threshold = 2
    NoScore = noscore
    MaxScoreWrites = 2
    Custody = {1, 2, 3}
    RowsPerRun = 2
    StaleAttempts = 2
INVARIANTS ScoreCountsOnce
CHECK_DEADLOCK FALSE
