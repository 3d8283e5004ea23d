SPECIFICATION Spec
CONSTANTS
    Chains <- Recommended
    MaxRPC = 0
    Codes = {200, 400}
    Ops = {"flush"}
    MaxOps = 1
PROPERTIES
    NeverOverwrites
CHECK_DEADLOCK FALSE
