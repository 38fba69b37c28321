SPECIFICATION Spec
CONSTANTS
    Wallets = {"w1", "w2"}
    Challenges = {"c1"}
    ChallengeOwner <- OwnerOfChallenge
    Logins = {"l1", "l2"}
    ApiKeys = {"legacy", "admin:loans"}
    NoWallet = nowallet
    InitialRoles <- RolesAtFirst
    MaxAccessFaults = 2
    Calls = {"c1", "c2", "c3"}
    CallKey <- OneKey
    CallPrint <- Prints
    NoCall = nocall
    MaxKeyFaults = 2
    Signers = {"w1"}
    Used = {"repayLoan", "depositToPool", "buildCancelLoan"}
    ApiRequests = {"r1", "r2"}
    TxTimeout = 1
    CacheTtl = 2
    MaxClock = 2
    MaxTxFaults = 1
    Remittance = {r1, r2}
    Submissions = {s1, s2}
    NoRemittance = noremittance
    MaxRemittanceFaults = 1
    Readers = {reader}
    Writers = {writer1, writer2}
    UsedLists = {"recentEvents", "quarantine", "openDisputes", "transactions"}
    Limit = 1
    Millisecond = 2
    MaxTime = 2
    MaxRows = 3
    Amounts = {15, 40}
    RateBps = 3000
    TermLedgers = 3
    PeriodLedgers = 2
    Disputes = {d1}
    Admins = {a1, a2}
    NoDispute = nodispute
    MaxLedger = 5
    MaxEvents = 4
    STROOP_DECIMALS = 2
    DISPLAY_DP = 1
    MaxDigits = 3
    MaxMoney = 45
    MaxWeight = 2
    Gated = {"g1", "g2", "g3"}
    RouteOf <- Routes
    IpOf <- OneAddress
    UserOf <- OneUser
    MaxOf <- Limits
    MaxGateFaults = 2
    Depositors = {"a", "b"}
    PoolAmounts = {1, 2}
    DayLength = 2
    WindowDays = 1
    MAX_POINTS = 2
    MaxTick = 3
    MaxPoolEvents = 3
INVARIANTS KeysProtect OneTokenPerChallenge ServedWithinRole RecordsMatchChain CompletedWasPaid PagesNeverRepeat ViewsAgree AmountsAddUp LimitsHold
CHECK_DEADLOCK FALSE
