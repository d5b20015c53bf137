SPECIFICATION FairSpec
CONSTANTS
    n1 = n1  n2 = n2  n3 = n3  n4 = n4  n5 = n5  u1 = u1  u2 = u2
    single = single  quad = quad
    Order <- MCMixedOrder
    Urgent = {u1, u2}
    ProfileOf <- MCMixedProfiles
    BatchLimit <- MCLimits
    Batch2Wait = 0
    SingletonWait = 0
    UrgentBurst = 2
    MaxWorkers = 4
INVARIANTS SelectionLegal
PROPERTIES NormalTurn UrgentServed
