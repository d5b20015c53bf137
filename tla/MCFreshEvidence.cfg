SPECIFICATION Spec
CONSTANTS
    a1 = a1  a2 = a2  annotated = annotated  clean = clean
    Alert = {a1, a2}
    Kind = {annotated}
    ContentOf <- MCSameFrame
    CacheMax = 1
    Attempts = 2
    Grace = 1
    MaxFaults = 0
    NoAlert = NoAlert
INVARIANTS FreshEvidenceKept
