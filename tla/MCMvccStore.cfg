CONSTANTS
    a = a
    b = b
    x = x
    y = y
    Absent = Absent
    Keys <- MCKeys
    Values <- MCValues
    Clock <- MCClock
    Batches <- MCBatches
    MaxChangeLogEntries = 3
    MaxReplayVersions = 3
    MaxRevision = 5
SPECIFICATION Spec
INVARIANTS
    SnapshotsExact
    ChangesComplete
    ReadTimesExact
    VersionsIdentified
PROPERTY
    ReadsStable
CHECK_DEADLOCK FALSE
