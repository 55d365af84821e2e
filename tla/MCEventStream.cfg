\* The bound on events, MaxEvents, lets the model stop.
SPECIFICATION Spec
CONSTANTS
    p1 = p1
    s1 = s1
    s2 = s2
    a1 = a1
    NoSocket = NoSocket
    Pages = {p1}
    Sockets = {s1, s2}
    Calls = {a1}
    OutboxMax = 2
    MaxEvents = 4
    MaxCasts = 2
    RestartBy = 2
SYMMETRY Symmetry
INVARIANTS
    TypeOK
    HeldIsShown
    ShownIsPending
CHECK_DEADLOCK FALSE
