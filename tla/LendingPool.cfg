SPECIFICATION SliceSpec
CONSTANTS
    p1 = p1
    p2 = p2
    borrower = borrower
    pool = pool
    a1 = a1
    none = none
    Providers = {p1, p2}
    Others = {borrower}
    Pool = pool
    Admins = {a1}
    NoAddress = none
    Amounts <- AnyAmount
    MinOuts = {0, 2}
    Cooldowns = {0, 1, 2}
    DEFAULT_WITHDRAWAL_COOLDOWN = 1
    MAX_WITHDRAWAL_COOLDOWN_LEDGERS = 1
    VIRTUAL_SHARES = 2
    VIRTUAL_ASSETS = 2
    InitialBalance = 4
    MaxLedger = 2
    MaxOutstanding = 1
    MaxManaged = 9
INVARIANTS SharesAccounted DepositorsCounted AtOrAbovePar PrincipalBacked ExitsHonoured
PROPERTIES HoldersNeverDiluted
CHECK_DEADLOCK FALSE
