SPECIFICATION Spec
CONSTANTS
  win = win
  lin = lin
  raw = raw
  Machine = {win, lin, raw}
  Char <- MCChar
  Text <- MCText
  Mode <- MCMode
  MaxCopy <- MCMaxCopy
INVARIANTS TypeOK NoEcho LinesKept
PROPERTIES AllCopiers
CHECK_DEADLOCK FALSE
