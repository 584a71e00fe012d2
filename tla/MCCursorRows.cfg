SPECIFICATION Spec
CONSTANTS
  Keys = {1, 2, 3, 4, 5, 6}
  InitialRows = {1, 5, 6}
  PageSize = 1
  MaxPages = 2
  ResetKeys = 2
  MaxVersion = 1
  MaxChanges = 3
  MaxLoads = 3
INVARIANTS ShownIsCurrent WindowIsTheList
CHECK_DEADLOCK FALSE
