SPECIFICATION FairSpec
CONSTANTS
    Kinds = {"sdo", "list", "bad", "long", "foe", "foeEnd", "eoe", "eoeStray"}
    Buffers = {1, 2, 3}
    MaxQueue = 2
    MaxCounter = 3
    ListFrags = 1
    EoeFrags = 2
    MaxReq = 2
    MaxLosses = 1
    MaxRetries = 1
    MaxFails = 1
    MaxRestarts = 1
INVARIANTS TypeOK BuffersAccounted EmptyMailboxMeansNothingWaits ResponsesInOrder ServedOnce
 
