SPECIFICATION Spec
CONSTANTS
    w1 = w1
    w2 = w2
    Main = Main
    Reader = Reader
    None = None
    Writers = {w1, w2}
    MaxMessages = 2
INVARIANTS TypeOK FreedSafely
 
CHECK_DEADLOCK FALSE
