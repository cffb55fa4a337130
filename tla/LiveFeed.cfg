SPECIFICATION SinkSpec
CONSTANTS
    Stores = {"postgres"}
    N = 2
    ChanCap = 2
    BatchMax = 2
    RingCap = 2
    SubCap = 2
    Limit = 2
    NoSlot = NoSlot
CHECK_DEADLOCK FALSE
PROPERTIES LiveTableComplete
