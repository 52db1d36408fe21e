SPECIFICATION AccSpec
CONSTANTS
    Depth = 3
    Zero = zero
    Commitment = {c1, c2, c3, c4}
    Asset = {tkm, ptkm}
    Keys = 9
    Slots = 2
    MaxOutputs = 3
SYMMETRY Symmetry
CHECK_DEADLOCK FALSE
INVARIANTS NotesCommitted OutputsCommitted PathsAuthenticate AnchorsAreHistory
