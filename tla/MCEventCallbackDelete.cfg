CONSTANTS
  c1 = c1
  c2 = c2
  Callbacks <- OneCallback
SPECIFICATION Spec
INVARIANT DeletedWhenUnused
CHECK_DEADLOCK FALSE
