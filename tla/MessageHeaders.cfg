SPECIFICATION Spec
CONSTANTS
    NULL = NULL
    Keys = {1, 2, 3, 4, 5, 6, 7, 8}
    content_length = 2
    content_type = 3
    destination = 4
    message_id = 6
    subscription = 7
    Destinations = {4, 5}
    Queries <- MCQueries
    Values = {1, 2}
    Diag = {2}
    MaxSubscribers = 2
INVARIANTS TreesBalanced LastValueWins FrameComplete
CHECK_DEADLOCK FALSE
