SPECIFICATION Spec
CONSTANTS
    t1 = t1
    t2 = t2
    Keys = {1, 2}
    Transactions <- MCTransactions
    Setups <- Both
    MaxSends = 2
SYMMETRY Symmetry
INVARIANTS
    EndsOnce CheckedReads ConflictsAbort AnswersOwnWrite
CHECK_DEADLOCK FALSE
