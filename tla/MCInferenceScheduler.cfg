SPECIFICATION Spec
CONSTANTS
    c1 = c1  c2 = c2  pair = pair
    Camera = {c1, c2}
    BatchLimit <- MCOneProfile
    Batch2Wait = 1
    SingletonWait = 2
    UrgentBurst = 1
    MaxWorkers = 4
    Lifetimes <- MCLifetimes
    MaxSequence = 2
    MaxRegistrations = 2
    None = None
INVARIANTS SlotsExact WorkAccounted NeverOversleeps
PROPERTIES KeepsPromise
SYMMETRY MCSymmetry
