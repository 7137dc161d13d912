SPECIFICATION FairSpec
CONSTANTS
  Conn = {c1, c2, c3}
  NoConn = NoConn
  MaxPost = 1
  MaxInbox = 1
  FailTo = {"lost"}
  ServerFrames = {"unknown"}
  Transient = FALSE
  Yielders = {"connect", "handler_receive", "send_copy", "send_ping"}
  Passwd = FALSE
PROPERTIES  HalfOpenNoticed
CHECK_DEADLOCK FALSE
