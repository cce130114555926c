SPECIFICATION Spec
CONSTANTS
    a = a
    b = b
    i1 = i1
    i2 = i2
    w1 = w1
    None = None
    Fds = {a}
    Encodable = {}
    Frames <- ExchangeFrames
    Ids = {i1, i2}
    Destinations <- MCDestinations
    Writers = {w1}
    MaxBatch = 2
    MaxInputQueue = 1
    MaxStaleQueue = 1
    Ttl = 5
    UintSize = 16
    MaxFrames = 5
INVARIANTS TypeOK SendOrder ReceiptCloses Balanced
PROPERTY ImplementsExchange
CHECK_DEADLOCK FALSE
