SPECIFICATION Spec
CONSTANTS
  r1 = r1
  r2 = r2
  r3 = r3
  r4 = r4
  Run = {r1, r2, r3, r4}
  Does <- MCDoes
  Port = {p8888, p9999}
  Default = p9999
  MaxSave = 1
INVARIANTS TypeOK Reachable SaveKept OneMaster OptionsRight
CHECK_DEADLOCK FALSE
