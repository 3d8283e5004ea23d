CONSTANTS
    HTTPBindings = {api, admin}
    FuncBindings = {}
    BadTLS = {admin}
    Fns = {f1}
    Stoppers = {s1, s2}
    Modes = {"start", "serve"}
    Timeouts = {"start", "stop"}
    MaxCallbacks = 2
    MaxConns = 1
    MaxDials = 1
SPECIFICATION Spec
INVARIANTS
    TypeOK
    SerialReverse
    DrainedBeforeOnStop
    InducedExitIsExpected
    CallbacksComplete
    StopReturnsAfterShutdown
    CleanerAlwaysRuns
    OnlyProbedIsLeft
PROPERTIES
    ImplementsPromise
    ShutdownDescends
    AbandonedIsReported
CHECK_DEADLOCK FALSE
