SPECIFICATION DebtSpec
CONSTANTS
    Borrowers = {b1}
    Liquidators = {liq}
    Pool = pool
    Manager = manager
    Admins = {a1}
    NoAddress = none
    Amounts = {1, 2, 3}
    Terms = {1}
    Extensions = {1}
    OracleAnswers <- Unanswered
    Settings <- NoSettings
    OutsideReputations = {}
    DefaultConfig <- LifecycleConfig
    BPS = 4
    PRECISION = 2
    U32_MAX = 100
    MAX_LATE_FEE_CAP_BPS = 4
    MAX_LIQUIDATION_BONUS_BPS = 2
    MIN_DEFAULT_WINDOW = 1
    MAX_EXTENSIONS = 1
    EXTENSION_FEE_BPS = 1
    MAX_PENALTY_MULTIPLIER = 2
    LATE_REPAYMENT_SCORE_PENALTY = 1
    DEFAULT_SCORE_PENALTY_POINTS = 2
    SCORE_AMOUNT_FLOOR = 1
    STROOPS_PER_POINT = 2
    BurnThreshold = 2
    MIN_CREDIT_SCORE = 1
    MAX_SCORE = 3
    InitialScore = 2
    InitialBalance = 4
    PoolLiquidity = 6
    MaxLoans = 1
    MaxOutstanding = 6
    MaxLedger = 6
    MaxDue = 5
INVARIANTS DebtWellFormed SplitComputed
PROPERTIES PoolLosesOnlyWriteOffs
CHECK_DEADLOCK FALSE
