SPECIFICATION FairSpec
CONSTANTS
  Requests = {r1, r2}
  Peers = {c1}
  Loops = {"cleanup", "noise"}
INVARIANTS
  IInv
  Graceful
  OwnCloseNoError
PROPERTIES
  SignalledExits
CHECK_DEADLOCK FALSE
