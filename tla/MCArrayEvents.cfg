\* The host may stop calling.
SPECIFICATION ArraysSpec
CONSTANTS
  n_wait = 1
  MaxCommands = 7
  MaxHandles = 3
INVARIANT ContentInEvents
CHECK_DEADLOCK FALSE
