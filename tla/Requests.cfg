SPECIFICATION Spec
CONSTANTS
    Chains <- AllChains
    MaxRPC = 2
    Codes = {200, 400}
    Ops = {"header", "write", "flush", "early", "hijack"}
    MaxOps = 2
INVARIANTS
    TypeOK
    RecordedIsSent
    PanicIsAnswered
    PanicContained
PROPERTIES
    OneAnswer
CHECK_DEADLOCK FALSE
