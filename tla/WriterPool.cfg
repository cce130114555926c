SPECIFICATION Spec
CONSTANTS
    w1 = w1
    w2 = w2
    a = a
    b = b
    None = None
    Writers = {w1, w2}
    Fds = {a, b}
    Encoded = {b}
    Contents <- MixedContents
    Len7 = 3
    Len16 = 6
    Header7 = 1
    Header16 = 2
    Header64 = 3
    BatchSize = 2
    BufferSize = 4
    Retries = 1
    MaxMessages = 3
SYMMETRY Symmetry
INVARIANTS TypeOK EnoughAwake NoLostWakeup TakenInOrder BatchFits StreamIntact
CHECK_DEADLOCK FALSE
