SPECIFICATION LeanFairSpec
CONSTANTS
    Conn = {c1, c2}
    IP = {a}
    Limit = 1
    Stallable = {c2}
    Losable = {c1}
    NoConn = none
PROPERTIES
    HandlerEnds
    PingEnds
    ShutdownProceeds
CHECK_DEADLOCK FALSE
