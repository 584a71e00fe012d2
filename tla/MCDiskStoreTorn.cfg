CONSTANTS
    a = a
    b = b
    x = x
    y = y
    Absent = Absent
    Keys <- MCKeys
    Values <- MCValues
    Mutations <- MCMutations
    JournalOptions = {TRUE}
    Durabilities = {"WriteBehind"}
    IndexOptions = {TRUE}
    TornFrames = {torn}
    torn = torn
    MaxCommits = 2
SPECIFICATION Spec
INVARIANT ReplayEndsAtTornTail
