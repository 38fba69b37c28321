SPECIFICATION Spec
CONSTANTS
    Hooks = {h1}
    HookEvents = {1, 2, 3}
    Wanted <- Everything
    SUPPORTED_WEBHOOK_EVENT_TYPES = {1, 2, 3}
    FullBytes <- Bytes
    SummaryBytes <- SummarizedBytes
    MinimalBytes <- MinimallyBytes
    MaxPayloadBytes = 2
    Servers = {s1, s2}
    RETRY_DELAYS <- Delays
    MaxHookFaults = 1
    Tabs = {"t1", "t2"}
    TabUser <- UserOfTab
    TabBorrower <- BorrowerOfTab
    CanPoll = {"t1"}
    Administrators = {"admin"}
    NoParam = noparam
    NoTab = notab
    Responses = {r1, r2}
    LastStreamed = 2
    StreamedAddress <- Addresses
    REPLAY_LIMIT = 1
    MAX_CONNECTIONS_PER_USER = 1
    maxReconnectAttempts = 2
    MaxStreamFaults = 1
    Notices = {1, 2}
    NoticeOwner <- Owners
    Viewer = "u1"
    FETCH_LIMIT = 1
    RetentionDays = 1
    ReadRetentionDays = 0
    MaxNoticeFaults = 1
INVARIANTS StreamsAccounted BadgeCountsTheFeed
PROPERTIES KeepsDeliveryPromise TabsSettle ListConverges
CHECK_DEADLOCK FALSE
