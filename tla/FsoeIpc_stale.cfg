CONSTANTS
    Word <- MCWord
    Mask = 1
    Frame <- MCFrame
    SeqMod = 4
    BootSeq <- MCBootEqual
    MaxMissed = 2
    StoresInOrder = TRUE
    WorkerPrompt = FALSE
SPECIFICATION Spec
INVARIANTS
    SuccessMeansOwnReply
