SPECIFICATION FairSpec
CONSTANTS
    c1 = c1
    c2 = c2
    Convs <- TwoConvs
    None = None
    MaxLines = 2
INVARIANTS
    TypeOK
    ViewIsTranscript
PROPERTIES
    NewestIsShown
    StepsArrive
