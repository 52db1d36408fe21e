SPECIFICATION Spec
CONSTANTS
    BatchId = {b1}
    Foreign = foreign
    MaxExpected = 2
    Window = 2
    MaxRawBytes = 2
    ActiveTTL = 1
    RetryInterval = 1
    Retention = 1
    MaxNonce = 2
    MaxFaults = 1
CHECK_DEADLOCK FALSE
PROPERTY CancelStopsPromotion
