SPECIFICATION FairSpec
CONSTANTS
  Peers = {d1}
  Welcome = Welcome
  Mail = {m1, m2}
  Own = {o1}
  MaxMailbox = 2
  Filters <- MCFilters
  MaxChats = 3
  MaxRestarts = 1
  NoId = NoId
  NoMessage = NoMessage
INVARIANTS
  IInv
  ListsInStep
  SentToOpened
  ShownInOrder
PROPERTIES
  LogsIn
  MailReachesScreen
