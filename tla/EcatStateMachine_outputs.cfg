CONSTANTS
    Modes = {"sm"}
    MasterSm = {}
    ReqStates = {"INIT", "PREOP", "SAFEOP", "OP"}
    MaxEsm = 1
    PllTicks = 2
    Patient = TRUE
SPECIFICATION Spec
INVARIANTS
    OutputsResetOutsideOp
