SPECIFICATION Spec
CONSTANTS
    a1 = a1  n1 = n1  w1 = w1  w2 = w2
    Alert = {a1}
    Advisory = {}
    Worker = {w1}
    PersistCap = 1
    DeliveryCap = 1
    RetryCap = 1
    PersistAttempts = 1
    DeliveryAttempts = 2
    NoAlert = NoAlert
INVARIANTS StoppedOnlyWhenDrained
