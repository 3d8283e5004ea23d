SPECIFICATION Spec
CONSTANTS
    c1 = c1
    c2 = c2
    c3 = c3
    r1 = r1
    r2 = r2
    Calls = {c1, c2, c3}
    Registerers = {r1, r2}
    None = None
    Foreign = Foreign
INVARIANTS
    OneSetPerRegisterer
    OwnNamesNeverClash
PROPERTIES
    EventuallyGathered
CHECK_DEADLOCK FALSE
