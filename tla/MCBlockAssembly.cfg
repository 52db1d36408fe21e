SPECIFICATION Spec
CONSTANTS
    Sender = {a, b}
    Body <- MCBody
    TxsPerSender = 2
    BlockGas = 4
    TxGas = 1
    MaxTxs = 3
CHECK_DEADLOCK FALSE
INVARIANTS
    AssemblyTypeOK
    MirrorsImport
    NothingLeftOut
