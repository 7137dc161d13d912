SPECIFICATION FairSpec
CONSTANTS
  Conn = {c1, c2}
  NoConn = NoConn
  MaxPost = 1
  MaxInbox = 1
  FailTo = {"broken"}
  ServerFrames = {"close"}
  Transient = FALSE
  Yielders = {"connect", "handler_receive", "send_copy", "send_ping"}
  Passwd = TRUE
PROPERTIES TextLeaves
CHECK_DEADLOCK FALSE
