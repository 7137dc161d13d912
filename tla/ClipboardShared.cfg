SPECIFICATION FairSpec
CONSTANTS
  c1 = c1
  c2 = c2
  c3 = c3
  Client = {c1, c2, c3}
  First = First
  Server = Server
  Size <- MCSize
  Running = {TRUE, FALSE}
  MaxPaste = 2
  MaxCrash = 1
INVARIANTS TypeOK TakenUp Restarted
PROPERTIES Recovers
CHECK_DEADLOCK FALSE
