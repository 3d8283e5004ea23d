CONSTANTS
    Fns = {f1, f2, f3}
    Goroutines = {g1, g2, g3}
SPECIFICATION Spec
INVARIANTS
    TypeOK
    LIFO
    NilMeansAllRan
    OneCleanAccepted
PROPERTIES
    StackExhausted
    ImplementsPromise
CHECK_DEADLOCK FALSE
