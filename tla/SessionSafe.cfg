SPECIFICATION Spec
CONSTANTS
  Conn = {c1, c2}
  NoConn = NoConn
  MaxPost = 2
  MaxInbox = 1
  FailTo = {"broken"}
  ServerFrames = {"close"}
  Transient = FALSE
  Yielders = {"connect", "handler_receive", "send_copy", "send_ping"}
  Passwd = TRUE
SYMMETRY Symmetry
INVARIANTS TypeOK AuthFirst TextNeedsHandler OneSession StatusDisconnect NilHandler
PROPERTIES Uplinked
CHECK_DEADLOCK FALSE
