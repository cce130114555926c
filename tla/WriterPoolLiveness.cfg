SPECIFICATION FairSpec
CONSTANTS
    w1 = w1
    w2 = w2
    a = a
    b = b
    None = None
    Writers = {w1, w2}
    Fds = {a, b}
    Encoded = {b}
    Contents <- ShortContents
    Len7 = 3
    Len16 = 6
    Header7 = 1
    Header16 = 2
    Header64 = 3
    BatchSize = 2
    BufferSize = 5
    Retries = 2
    MaxMessages = 2
PROPERTIES MessagesTaken WritersExit
CHECK_DEADLOCK FALSE
