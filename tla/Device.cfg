SPECIFICATION Spec
CONSTANTS
  Names = {alice, aliceBlank, quoted}
  alice = alice
  aliceBlank = aliceBlank
  quoted = quoted
  Words = {wordA, wordQ}
  wordA = wordA
  wordQ = wordQ
  Norm <- MCNorm
  Fold <- MCFold
  Prefix <- MCPrefix
  Plain = {alice, aliceBlank}
  Devices = {i1, i2, s}
  NoEntry = NoEntry
  Processes = {p, q}
  Identities = {i1, i2}
  Stranger = s
  MaxCommands = 3
  MaxCrashes = 1
  Absent = Absent
  Empty = Empty
  Mixed = Mixed
  Keyless = Keyless
  NoId = NoId
  NoName = NoName
SYMMETRY Symmetry
INVARIANTS
  IInv
  OneIdentity
  ServerKept
  NicknameResolves
  SearchAgrees
PROPERTIES
  IdentityKept
CHECK_DEADLOCK FALSE
