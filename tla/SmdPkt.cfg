SPECIFICATION FairSpec
CONSTANTS
    FifoSize = 8
    HeaderSize = 2
    Lens <- MCLens
    BufLens <- MCBufLens
    MaxPackets = 2
    LensOf <- MCOneFive
    MaxEvents = 1
    Writers = {w1}
    Readers = {r1}
    None = None
INVARIANTS TypeOK BugOnsHold
PROPERTIES IsPacketQueue ReaderWoken WriterWoken
CHECK_DEADLOCK FALSE
