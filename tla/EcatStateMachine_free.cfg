CONSTANTS
    Modes = {"freerun"}
    MasterSm = {2}
    ReqStates = {"INIT", "PREOP", "SAFEOP", "OP", "BOOT"}
    MaxEsm = 1
    PllTicks = 2
    Patient = TRUE
SPECIFICATION FairSpec
INVARIANTS
    TypeOK
    
    OutputsResetOutsideOp
PROPERTIES
    RequestTaken
    WatchdogStopsOutputs
