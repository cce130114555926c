SPECIFICATION Spec
CONSTANTS
    w1 = w1
    Main = Main
    None = None
    Fds = {1, 2}
    Writers = {w1}
    MaxSessions = 2
    MaxUnread = 2
    MaxClients = 2
INVARIANTS TypeOK CountExact SessionsOpen
PROPERTIES UndisturbedUntilHeard LeaverClosed ChunksRead
CHECK_DEADLOCK FALSE
