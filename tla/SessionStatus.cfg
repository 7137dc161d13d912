SPECIFICATION Spec
CONSTANTS
  Conn = {c1, c2}
  NoConn = NoConn
  MaxPost = 0
  MaxInbox = 1
  FailTo = {"broken"}
  ServerFrames = {}
  Transient = FALSE
  Yielders = {}
  Passwd = TRUE
PROPERTIES StatusHonest
CHECK_DEADLOCK FALSE
