SPECIFICATION Spec
CONSTANTS
    a1 = a1
    a2 = a2
    s1 = s1
    Addresses = {a1, a2, s1}
    Self = Self
    NoAddress = NoAddress
    SignerLists <- MCSignerLists
    Thresholds = {0, 1, 2, 3}
    Delays = {0, 1, 2, 3}
    MIN_TIMELOCK_SECONDS = 1
    PROPOSAL_TTL_SECONDS = 3
    MAX_SIGNERS = 2
    REPROPOSAL_COOLDOWN_SECONDS = 2
    MaxProposals = 2
    MaxTime = 6
PROPERTIES HandoverIsMandated
CHECK_DEADLOCK FALSE
