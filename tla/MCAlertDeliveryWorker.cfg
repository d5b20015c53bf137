SPECIFICATION Spec
CONSTANTS
    MaxAttempts = 2
    LeaseTicks = 1
    Lifetime = 2
    MaxDelay = 1
    AgingTicks = 1
    LowestPriority = 1
    NoToken = NoToken
    p1 = p1  p2 = p2  s1 = s1  s2 = s2  a1 = a1  t1 = t1  telegram = telegram
    Proc = {p1, p2}
    Slot = {s1, s2}
    Owner <- MCOwner
    Target = {t1}
    Alert = {a1}
    AlertOf <- MCAlertOf
    KindOf <- MCKindOf
    Channel = {telegram}
    ChannelOf <- MCChannelOf
    PriorityOf <- MCPriorityOf
    DelayOf <- MCDelayOf
    Legacy = {a1}
    ChannelLimit <- MCChannelLimit
    Workers = 1
    RetryDelays = {0}
    RetryAfters = {1}
    RetryBase = 0
    NoTarget = NoTarget
    MaxOutages = 1
    MaxReplays = 1
INVARIANTS AcceptanceAccounted ConcurrentSendsDisclosed ObsoleteNotInFlight
PROPERTIES ResendDisclosed RetryDeadlineRespected KeepsObligation
