SPECIFICATION Spec
CONSTANTS
    n1 = n1
    n2 = n2
    c1 = c1
    c2 = c2
    Own = Own
    None = None
    Names <- TwoNames
    Convs <- TwoConvs
CHECK_DEADLOCK FALSE
INVARIANTS
    PromptReachesItsAgent
