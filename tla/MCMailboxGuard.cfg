SPECIFICATION Spec
CONSTANTS
    a = a
    b = b
    c = c
    Sessions <- TwoInboxes
    Senders <- EachOther
    MaxMessages = 4
    MaxLines = 2
    HandsOnFiles = FALSE
    InjectMayRaise = TRUE
    RateLimit = 1
    Window = 1
    PingPongLimit = 2
INVARIANTS RateHolds LatchHolds
