SPECIFICATION FairSpec
CONSTANTS
    j1 = j1
    j2 = j2
    ph1 = ph1
    ph2 = ph2
    Jobs <- TwoJobs
    Phones <- OnePhone
    Watch = watch
    None = none
    MaxChanges = 3
INVARIANTS
    TypeOK
    PushIsEarned
    OneJobPerRequest
PROPERTIES
    CompletionIsPushed
    PagesCatchUp
