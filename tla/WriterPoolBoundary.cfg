SPECIFICATION Spec
CONSTANTS
    w1 = w1
    w2 = w2
    a = a
    b = b
    None = None
    Writers = {w1, w2}
    Fds = {b}
    Encoded = {b}
    Contents <- BoundaryContents
    Len7 = 3
    Len16 = 6
    Header7 = 1
    Header16 = 2
    Header64 = 3
    BatchSize = 2
    BufferSize = 8
    Retries = 2
    MaxMessages = 2
SYMMETRY Symmetry
INVARIANT BufferNotOverrun
CHECK_DEADLOCK FALSE
