SPECIFICATION Spec
CONSTANTS
    Chains <- Recommended
    MaxRPC = 0
    Codes = {200, 400}
    Ops = {"hijack"}
    MaxOps = 1
INVARIANTS
    HijackWorks
CHECK_DEADLOCK FALSE
