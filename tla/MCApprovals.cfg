CONSTANTS
    h1 = h1
    h2 = h2
    c1 = c1
    c2 = c2
    Calls = {h1, h2}
    Clients = {c1, c2}
    AnsweredHistory = 1
SPECIFICATION FairSpec
INVARIANTS
    DecidedByFirstAnswer
    AllowNeedsConsent
    HeldIsListed
    OnlyACrashOrphans
PROPERTIES
    EveryCallIsDecided
    ImplementsGate
