SPECIFICATION Spec
CONSTANTS
  Proc = {p1, p2, p3}
  Block = {b1, b2, b3, b4, b5, b6}
  Value = {v1}
  Absent = Absent
  MAXOPBLOCKS = 2
  LOGSIZE = 6
  NLOG = 6
  OPBLOCKS = 2
SYMMETRY Symmetry
INVARIANT ReservationSuffices
