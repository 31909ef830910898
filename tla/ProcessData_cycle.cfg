CONSTANT
    DcSettings <- AllModes
SPECIFICATION Spec
INVARIANTS
    OneExchange
    OutputsOwned
    InputsOwned
    NoLockLeft
    RepliesWhole
