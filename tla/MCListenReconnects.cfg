SPECIFICATION FairSpec
CONSTANTS
    Keys = {1, 2}
    Orders = {1}
    Absent = Absent
    Targets = {1, 2}
    SpecOf <- MCSpecOf
    Shapes <- MCShapes
    ResponseBuffer = 2
    MaxRevision = 2
    MaxListens = 1
    MaxDisconnects = 1
PROPERTY Settles
CHECK_DEADLOCK FALSE
