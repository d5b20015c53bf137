SPECIFICATION FairSpec
CONSTANTS
    a1 = a1  n1 = n1  w1 = w1  w2 = w2
    Alert = {a1, n1}
    Advisory = {n1}
    Worker = {w1, w2}
    PersistCap = 1
    DeliveryCap = 1
    RetryCap = 1
    PersistAttempts = 2
    DeliveryAttempts = 3
    NoAlert = NoAlert
INVARIANTS JobsAccounted
PROPERTIES RefusedOnlyWhenFull KeepsIntake AlertsSettle
