CONSTANTS
    HTTPBindings = {api}
    FuncBindings = {rpc}
    BadTLS = {}
    Fns = {rpc}
    Stoppers = {s1, s2}
    Modes = {"start", "serve"}
    Timeouts = {"stop"}
    MaxCallbacks = 0
    MaxConns = 1
    MaxDials = 0
SPECIFICATION Spec
INVARIANTS
    InducedExitIsExpected
PROPERTIES
    ImplementsPromise
    ShutdownTerminates
    TriggerHonoured
    PortsReleased
    StopCallersReturn
CHECK_DEADLOCK FALSE
