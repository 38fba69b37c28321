SPECIFICATION SliceSpec
CONSTANTS
    u1 = u1
    u2 = u2
    a1 = a1
    a2 = a2
    Users = {u1, u2}
    Minters = {a1, a2}
    LoanManager = lm
    NoAddress = none
    Scores = {1, 9}
    Deltas <- UpAndDown
    Penalties = {1}
    Repayments = {1, 2}
    Hashes = {h1}
    ZeroHash = zero
    Uris = {uri1}
    EmptyUri = empty
    Commitments = {c1}
    NoCommitment = nocommit
    Thresholds = {1}
    LegacyUsers = {u2}
    MIN_CREDIT_SCORE = 2
    MAX_SCORE = 3
    MAX_SCORE_HISTORY_ENTRIES = 2
    MAX_AUTHORIZED_MINTERS = 2
    MAX_ALLOWED_BURN_THRESHOLD = 2
    DEFAULT_BURN_THRESHOLD = 2
    TRANSFER_COOLDOWN_LEDGERS = 2
    POINTS_DENOMINATOR = 2
    MaxLedger = 2
INVARIANTS RecordsAgree
PROPERTIES BadCreditSticks
CHECK_DEADLOCK FALSE
