SPECIFICATION ConsolesSpec
CONSTANTS
    Publishers = {"scan", "prune", "visit"}
    Streams = {s1}
    Buffer = 1
    Workers = {w1, w2}
    Networks <- MCNetworks
    Visits <- MCVisits
    AddressBits = 4
    MinBits = 2
INVARIANTS
    ScanIsComplete
    SendsAreSafe
PROPERTIES
    RegistryIsSound
    ScanEnds
CHECK_DEADLOCK FALSE
