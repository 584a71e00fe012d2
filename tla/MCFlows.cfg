SPECIFICATION Spec
CONSTANT Unused = Unused
CHECK_DEADLOCK FALSE
INVARIANTS
  DocumentsKeepTheirValues   ListsAreWhole
  SurfacesShowTheirOwn
PROPERTIES
  TakesOnlyItsOwn SurfacesAnswerTheirOwn
