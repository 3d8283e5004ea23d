SPECIFICATION Spec
CONSTANTS
    c1 = c1
    c2 = c2
    r1 = r1
    Calls = {c1, c2}
    Registerers = {r1}
    None = None
    Foreign = Foreign
INVARIANTS
    BoundToRegistered
CHECK_DEADLOCK FALSE
