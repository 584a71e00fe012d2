SPECIFICATION MCSpec
CONSTANTS
    Keys = {1, 2}
    Orders = {1}
    Absent = Absent
    Targets = {1, 2}
    SpecOf <- MCSpecOf
    Shapes <- MCShapes
    ResponseBuffer = 1
    MaxRevision = 2
    MaxListens = 2
    MaxDisconnects = 1
INVARIANTS
    ViewsExact TokensCertify BatchesExact
PROPERTY TokensAdvance
CHECK_DEADLOCK FALSE
