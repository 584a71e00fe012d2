CONSTANTS
    a = a
    b = b
    x = x
    y = y
    Absent = Absent
    Keys <- MCKeys
    Values <- MCValues
    Mutations <- MCMutations
    JournalOptions = {TRUE, FALSE}
    Durabilities = {"WriteBehind", "PerCommit"}
    IndexOptions = {TRUE, FALSE}
    TornFrames = {}
    MaxCommits = 3
SPECIFICATION FairSpec
INVARIANTS
    ShowsItsRevision
    NeverCorrupt
    DerivedExact
PROPERTY
    RecoversWhatIsOwed FlushedEventually
