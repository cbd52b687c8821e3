SPECIFICATION FairSpec
CONSTANTS
  MailboxIds = {id1}
  Boxes = {b1, b2}
  Messages = {m1, m2}
  Handlers = {h1, h2}
  MaxMailboxSize = 2
  MaxAccounts = 1
  MessageTTL = 0
  MaxTime = 1
  MaxRestarts = 0
  NoBox = NoBox
  NoId = NoId
  NoMessage = NoMessage
PROPERTIES
  ExpiredMessagesGo
  RequestsAnswered
