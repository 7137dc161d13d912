SPECIFICATION Spec
CONSTANTS
  Conn = {c1, c2}
  NoConn = NoConn
  MaxPost = 2
  MaxInbox = 1
  FailTo = {"broken"}
  ServerFrames = {"close"}
  Transient = TRUE
  Yielders = {"send_copy", "connect"}
  Passwd = TRUE
SYMMETRY Symmetry
INVARIANTS AuthFirst OneSession
PROPERTIES Uplinked Copying
CHECK_DEADLOCK FALSE
