CONSTANTS
    Modes = {"sm", "dc"}
    MasterSm = {1}
    ReqStates = {"PREOP", "SAFEOP", "OP"}
    MaxEsm = 1
    PllTicks = 1
    Patient = FALSE
SPECIFICATION Spec
INVARIANTS
    FlagsFollowState
    PendingMeansSafeOp
    StatusRegisterHonest
PROPERTIES
    PendingIsAnswered
    UpOnlyOnRequest
