SPECIFICATION FairSpec
CONSTANTS
    a = a
    b = b
    i1 = i1
    i2 = i2
    w1 = w1
    None = None
    Fds = {a, b}
    Encodable = {b}
    Frames <- SessionFrames
    Ids = {i1, i2}
    Destinations <- MCDestinations
    Writers = {w1}
    MaxBatch = 1
    MaxInputQueue = 2
    MaxStaleQueue = 1
    Ttl = 0
    UintSize = 16
    MaxFrames = 3
INVARIANTS NoLeakedSession PlainSubscriptionsOwned
PROPERTY ClosedSessionEnds
CHECK_DEADLOCK FALSE
