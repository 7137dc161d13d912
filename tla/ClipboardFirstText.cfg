SPECIFICATION Spec
CONSTANTS
  c1 = c1
  c2 = c2
  c3 = c3
  Client = {c1, c2, c3}
  First = First
  Server = Server
  Size <- MCSize
  Running = {FALSE}
  MaxPaste = 0
  MaxCrash = 0
INVARIANTS ReadIntoServer
CHECK_DEADLOCK FALSE
