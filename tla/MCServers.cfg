SPECIFICATION Spec
CONSTANTS
    s1 = s1
    s2 = s2
    s3 = s3
    Servers <- ThreeServers
    MaxPort = 2
    Nobody = Nobody
    Torn = Torn
    Garbled = Garbled
SYMMETRY Processes
CHECK_DEADLOCK FALSE
INVARIANTS
    TypeOK
    CleanLeave
    HookReachesLoneServer
PROPERTIES
    NoKnowingTheft
