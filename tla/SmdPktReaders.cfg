SPECIFICATION Spec
CONSTANTS
    FifoSize = 8
    HeaderSize = 2
    Lens <- MCLens
    BufLens <- MCBufLens
    MaxPackets = 2
    LensOf <- MCAnyLength
    MaxEvents = 0
    Writers = {w1}
    Readers = {r1, r2}
    None = None
INVARIANT WholePacketWaiting
CHECK_DEADLOCK FALSE
