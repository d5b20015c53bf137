SPECIFICATION FairSpec
CONSTANTS
    c1 = c1  c2 = c2  h1 = h1
    Camera = {c1}
    Handler = {h1}
    Lingering = 2
    MaxRequests = 1
    MaxFaults = 1
    None = None
INVARIANTS WorkersAccounted
PROPERTIES FenceHolds EnabledServed VlmReleased
