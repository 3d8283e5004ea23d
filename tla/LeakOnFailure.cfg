CONSTANTS
    HTTPBindings = {api, admin}
    FuncBindings = {}
    BadTLS = {}
    Fns = {f1}
    Stoppers = {}
    Modes = {"start"}
    Timeouts = {}
    MaxCallbacks = 0
    MaxConns = 1
    MaxDials = 0
SPECIFICATION Spec
INVARIANTS
    NothingServedAfterFailure
CHECK_DEADLOCK FALSE
