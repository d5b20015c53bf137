SPECIFICATION MCSpec
CONSTANTS
    vest = vest  fall = fall  supervisor = supervisor
    b1 = b1  b2 = b2  b3 = b3  c1 = c1  c2 = c2  x1 = x1  x2 = x2
    a1 = a1  a2 = a2  t1 = t1  t2 = t2  m1 = m1  m2 = m2  f1 = f1  f2 = f2
    p1 = p1  p2 = p2  s1 = s1  telegram = telegram  NoToken = NoToken  NoTarget = NoTarget
    e1 = e1  r1 = r1  r2 = r2  r3 = r3
    MaxDebt = 2
    Caller = {b1, b2, b3}
    MaxEpoch = 1
    Proc = {p1, p2}
    Edit = {e1}
    EditorOf <- MCEditorOf
    Refresh = {r1, r2, r3}
    ReaderOf <- MCReaderOf
    MaxMarks = 1
    MaxFaults = 1
    Model = {m1, m2}
    Asset = {f1, f2}
    AssetOf <- MCAssetOf
    Lazy = {m2}
    Legacy = {f2}
    MaxJobs = 2
    Camera = {c1, c2}
    MaximumPending = 1
    FailureThreshold = 2
    MaxGenerations = 2
    MaxSubmissions = 3
    FullSize = 3
    PairSize = 2
    Hint = {"none", "single", "pair"}
    Permits = 1
    Rule = {vest, fall}
    Order <- MCOrder
    Policy = {supervisor}
    Setup <- MCSetup
    Threshold <- MCThreshold
    WindowSize = 3
    Viewer = {x1, x2}
    MaxChannels = 2
    MaxSequence = 2
    LimitPerCamera = 2
    LimitTotal = 2
    Alert = {a1, a2}
    Target = {t1, t2}
    MaximumTimings = 1
INVARIANTS FrameInOnePlace IncidentHonest ViewersCounted TimingConserved CatalogueFenced InstallTruthful
    ObservationsCurrent SavesStay
PROPERTIES AlertJustified SustainedAlerts CallersReturn ViewersCatchUp DeliveriesSettle
    ObservedAgain CachesCatchUp
CHECK_DEADLOCK FALSE
