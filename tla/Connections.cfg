SPECIFICATION Spec
CONSTANTS
    Conn = {c1, c2}
    IP = {a, b}
    Limit = 1
    Stallable = {c2}
    Losable = {c1}
    NoConn = none
SYMMETRY Symmetry
INVARIANTS
    CountsExact
    SweepOnlyOpen
    SweepCloses
    NoWaitCycle
CHECK_DEADLOCK FALSE
