SPECIFICATION Spec
CONSTANTS
  Conn = {c1, c2}
  NoConn = NoConn
  MaxPost = 2
  MaxInbox = 1
  FailTo = {"broken"}
  ServerFrames = {"close"}
  Transient = FALSE
  Yielders = {"send_copy"}
  Passwd = TRUE
PROPERTIES NoSilentDrop
CHECK_DEADLOCK FALSE
