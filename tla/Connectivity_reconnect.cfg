\* No message, an access point that is lost once.
CONSTANTS
  m1 = m1
  m2 = m2
  NoMessage = NoMessage
  Messages = {}
  MaxDrops = 1
SPECIFICATION Spec
PROPERTY Reconnects
CHECK_DEADLOCK FALSE
