SPECIFICATION FairSpec
CONSTANTS
    k1 = k1
    k2 = k2
    k3 = k3
    d1 = d1
    d2 = d2
    Sockets <- ThreeSockets
    Devices <- TwoDevices
    DeviceOf <- Reconnecting
    Nobody = Nobody
    Limit = 1
CHECK_DEADLOCK FALSE
INVARIANTS
    EntriesHaveHandlers
PROPERTIES
    SweepSparesTheAwake
    CountSettles
