SPECIFICATION Spec
CONSTANTS
  MaxSkip = 2
  MaxSent = 4
  MaxGot = 3
INVARIANTS
  ForwardDecrypts
  RootsAgree
  OpensOnce
  KeysUsedOnce
  SkipListBounded
  IInv
CHECK_DEADLOCK FALSE
