SPECIFICATION Spec
CONSTANTS
  MailboxIds = {id1}
  Boxes = {b1, b2}
  Messages = {m1, m2, m3, m4}
  Handlers = {h1, h2}
  MaxMailboxSize = 2
  MaxAccounts = 1
  MessageTTL = 0
  MaxTime = 1
  MaxRestarts = 1
  NoBox = NoBox
  NoId = NoId
  NoMessage = NoMessage
SYMMETRY Symmetry
INVARIANTS
  TypeOK
  AccountsMatchMailboxes
  EachMessageInOnePlace
  PullsIntact
  IInv
PROPERTIES
  LiveMailboxNotReplaced
  KeepsPromise
