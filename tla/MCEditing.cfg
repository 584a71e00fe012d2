SPECIFICATION Spec
CONSTANTS
  Nil = Nil
  Unused = Unused
  t1 = t1
  t2 = t2
  s1 = s1
CHECK_DEADLOCK FALSE
INVARIANTS
  AccountsAreAsShown  

  
