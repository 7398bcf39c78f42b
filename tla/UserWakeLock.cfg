SPECIFICATION Spec
CONSTANTS
  Names <- MCNames
  Nanoseconds = {0, 1, 4, 21, 22}
  NsPerJiffy = 3
  U64Bits = 6
  LongBits = 4
INVARIANT LookupExact
INVARIANT HeldAsAsked
