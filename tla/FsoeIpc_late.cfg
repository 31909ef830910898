CONSTANTS
    Word <- MCWord
    Mask = 1
    Frame <- MCFrame
    SeqMod = 4
    BootSeq <- MCBootEqual
    MaxMissed = 2
    StoresInOrder = TRUE
    WorkerPrompt = FALSE
SPECIFICATION MasterFairSpec
INVARIANTS
    TypeOK
    StaleOnlyAfterTimeout
    ReplyStableWhileRead
    QuiescentAfterSuccess
    RecheckNeverFails
PROPERTIES
    ExchangeReturns
