\* Two messages, an access point that is lost twice.
CONSTANTS
  m1 = m1
  m2 = m2
  NoMessage = NoMessage
  Messages <- TwoMessages
  MaxDrops = 2
SPECIFICATION Spec
INVARIANTS TypeOK MessagesKept
PROPERTIES FirstConnection LastMessageSent
CHECK_DEADLOCK FALSE
