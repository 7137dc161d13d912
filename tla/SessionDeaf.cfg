SPECIFICATION Spec
CONSTANTS
  Conn = {c1, c2}
  NoConn = NoConn
  MaxPost = 0
  MaxInbox = 1
  FailTo = {"broken"}
  ServerFrames = {"auth"}
  Transient = FALSE
  Yielders = {"connect"}
  Passwd = TRUE
INVARIANTS ServerIsHeard
CHECK_DEADLOCK FALSE
