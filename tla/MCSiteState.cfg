SPECIFICATION MCSpec
CONSTANTS
    a1 = a1  a2 = a2  annotated = annotated  NoAlert = NoAlert
    p1 = p1  s1 = s1  s2 = s2  new = new  old = old  first = first  step = step
    webhook = webhook  telegram = telegram  NoToken = NoToken  NoTarget = NoTarget
    Pictured = {a1, a2}
    Kind = {annotated}
    ContentOf <- MCContentOf
    CacheMax = 1
    Attempts = 2
    Grace = 1
    MaxFaults = 2
    MaxAttempts = 1
    LeaseTicks = 1
    Lifetime = 2
    MaxDelay = 1
    AgingTicks = 1
    LowestPriority = 2
    Proc = {p1}
    Slot = {s1, s2}
    Owner <- MCOwner
    Target = {first, step}
    Alert = {new, old}
    AlertOf <- MCAlertOf
    KindOf <- MCKindOf
    Channel = {webhook, telegram}
    ChannelOf <- MCChannelOf
    PriorityOf <- MCPriorityOf
    DelayOf <- MCDelayOf
    Legacy = {old}
    ChannelLimit <- MCChannelLimit
    Workers = 1
    RetryDelays = {0, 1}
    RetryAfters = {}
    RetryBase = 0
    MaxOutages = 0
    MaxReplays = 0
INVARIANTS EvidenceKept ChannelReserved
PROPERTIES OvertakingBounded OrphansRemoved
