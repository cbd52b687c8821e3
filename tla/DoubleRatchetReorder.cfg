SPECIFICATION Spec
CONSTANTS
  MaxSkip = 2
  MaxSent = 4
  MaxGot = 3
INVARIANT ReorderedDecrypts
CHECK_DEADLOCK FALSE
