SPECIFICATION Spec
CONSTANTS
    t1 = t1
    t2 = t2
    Keys = {1, 2}
    Transactions <- MCTransactions
    Setups <- MissingGet
    MaxSends = 2
SYMMETRY Symmetry
INVARIANTS
    ConflictsAbort
CHECK_DEADLOCK FALSE
