SPECIFICATION Spec
CONSTANTS
    Wallet = "w"
    LoanId = "7"
    DisputeId = "3"
    UsedQueries = {"usePoolStats", "useAdminDisputes", "useCreditScore"}
    UsedMutations = {"useDepositToPool", "useResolveAdminDispute"}
    Pages <- OneHookPages
    MaxCalls = 2
    Amount = 1
    NoData = nodata
    NoAnswer = noanswer
    MaxFailures = 1
    MaxVisits = 2
    MaxForeignWrites = 1
    UsedFlows = {"repaymentForm", "repayPage", "handleLiquidate", "loanWizard"}
    MaxRuns = 2
    MaxReviews = 2
    MaxFlowFaults = 1
    Accounts = {"a", "b"}
    NoAccount = noaccount
    Syncs = {s1, s2}
    MaxWalletEvents = 4
INVARIANTS GuessesAreProvisional WritesReachScreens SuccessWasConfirmed ShownWalletIsOne
PROPERTIES FormReopens
CHECK_DEADLOCK FALSE
