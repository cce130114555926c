SPECIFICATION Spec
CONSTANTS
    a = a
    b = b
    Fds = {a, b}
    Frames <- SmallFrames
    MinFrame = 3
    Len7 = 2
    Len16 = 4
    Header7 = 1
    Header16 = 2
    Header64 = 3
    MaxPayload = 4
    Slots = 1
    MaxBuffer = 8
    ReadSize = 6
    MaxFrames <- SmallMaxFrames
INVARIANTS TypeOK DecodedInOrder NothingCompleteWaits LimitIsAllowed
PROPERTY FilterReturns
CHECK_DEADLOCK FALSE
