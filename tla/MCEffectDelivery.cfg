CONSTANTS
    MaxID = 5
    MaxEpoch = 2
    MaxBuffer = 3
SPECIFICATION Spec
INVARIANTS DeliveryInv ConfirmedNotLost
PROPERTY AppliedAtMostOnce
CHECK_DEADLOCK FALSE
