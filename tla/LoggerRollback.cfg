SPECIFICATION Spec
CONSTANTS
  Writers = {w1, w2}
  FaultyWriters = {w1}
  Readers = {r1}
  r1 = r1
  w1 = w1
  w2 = w2
  Size = 8
  Byte = 2
  MaxPayload = 2
  Nil = Nil
INVARIANT Framing
CHECK_DEADLOCK FALSE
