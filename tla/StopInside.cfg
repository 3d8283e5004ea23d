CONSTANTS
    HTTPBindings = {api}
    FuncBindings = {}
    BadTLS = {}
    Fns = {f1}
    Stoppers = {s1, s2}
    Modes = {"start"}
    Timeouts = {"stop"}
    MaxCallbacks = 1
    MaxConns = 1
    MaxDials = 0
SPECIFICATION Spec
PROPERTIES
    SubsequentStopsReturn
CHECK_DEADLOCK FALSE
