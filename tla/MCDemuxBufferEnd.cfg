SPECIFICATION Spec
CONSTANTS
  Size = 2
  MaxParse = 2
CHECK_DEADLOCK FALSE
PROPERTIES EndIsSignalled
