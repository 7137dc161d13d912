SPECIFICATION Spec
CONSTANTS
  Daemon = {d1, d2}
  Name = {n1, n2, n3, n4}
  Nowhere = Nowhere
  Bundled = Bundled
  Platform = {TRUE, FALSE}
  MaxFault = 1
  MaxOther = 2
SYMMETRY Symmetry
INVARIANTS TypeOK NothingLeft MarkTrue
CHECK_DEADLOCK FALSE
