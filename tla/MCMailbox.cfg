SPECIFICATION FairSpec
CONSTANTS
    a = a
    b = b
    c = c
    Sessions <- OneInbox
    Senders <- TwoWriters
    MaxMessages = 3
    MaxLines = 2
    HandsOnFiles = TRUE
    InjectMayRaise = FALSE
    RateLimit = 1
    Window = 1
    PingPongLimit = 2
INVARIANTS TypeOK NothingLost LatchIsAnnounced
PROPERTIES OnceInOrder HeldMailMoves
