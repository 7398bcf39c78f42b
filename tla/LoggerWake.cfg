SPECIFICATION FairSpec
CONSTANTS
  Writers = {w1, w2}
  FaultyWriters = {}
  Readers = {r1}
  r1 = r1
  w1 = w1
  w2 = w2
  Size = 8
  Byte = 2
  MaxPayload = 1
  Nil = Nil
INVARIANT Framing
PROPERTY ReaderWoken
CHECK_DEADLOCK FALSE
