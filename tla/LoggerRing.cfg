SPECIFICATION Spec
CONSTANTS
  Writers = {w1}
  FaultyWriters = {w1}
  Readers = {r1, r2}
  r1 = r1
  r2 = r2
  w1 = w1
  Size = 8
  Byte = 2
  MaxPayload = 2
  Nil = Nil
SYMMETRY UserSymmetry
INVARIANT TypeOK
INVARIANT Framing
PROPERTY NewEntryAhead
CHECK_DEADLOCK FALSE
