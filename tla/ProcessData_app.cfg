CONSTANT
    DcSettings <- SmOnly
SPECIFICATION Spec
INVARIANT
    ApplicationExclusive
