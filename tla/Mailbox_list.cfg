SPECIFICATION Spec
CONSTANTS
    Kinds = {"sdo", "list"}
    Buffers = {1, 2, 3, 4, 5, 6}
    MaxQueue = 3
    MaxCounter = 3
    ListFrags = 1
    EoeFrags = 2
    MaxReq = 2
    MaxLosses = 0
    MaxRetries = 0
    MaxFails = 0
    MaxRestarts = 1
INVARIANT ListStartsAtFirst
