SPECIFICATION QueueFairSpec
CONSTANTS
    c1 = c1
    c2 = c2
    p1 = p1
    p2 = p2
    Convs <- TwoConvs
    Prompts <- TwoPrompts
    MaxList = 2
INVARIANTS
    QueueTypeOK
    QueuedOnce
PROPERTIES
    OneFate
    QueuedPromptMoves
