SPECIFICATION Spec
CONSTANTS
    BatchId = {b1, b2}
    Foreign = foreign
    MaxExpected = 2
    Window = 2
    MaxRawBytes = 2
    ActiveTTL = 1
    RetryInterval = 1
    Retention = 1
    MaxNonce = 2
    MaxFaults = 1
SYMMETRY Symmetry
CHECK_DEADLOCK FALSE
INVARIANTS BucketTypeOK RawAccounted AcknowledgedDurable CanceledBatchRests OrdinaryBatchesExclusive
PROPERTIES PromotedInOrder
