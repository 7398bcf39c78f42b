SPECIFICATION Spec
CONSTANTS
  Writers = {w1}
  FaultyWriters = {}
  Readers = {r1, r2}
  r1 = r1
  r2 = r2
  w1 = w1
  Size = 8
  Byte = 2
  MaxPayload = 2
  Nil = Nil
SYMMETRY UserSymmetry
INVARIANT ReadersProtected
