SPECIFICATION FairSpec
CONSTANTS
    c1 = c1  c2 = c2  h1 = h1
    Camera = {c1}
    Handler = {h1}
    Lingering = 1
    MaxRequests = 1
    MaxFaults = 0
    None = None
PROPERTIES DeletedStops
