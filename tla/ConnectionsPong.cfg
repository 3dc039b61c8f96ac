SPECIFICATION Spec
CONSTANTS
    Conn = {c1}
    IP = {a}
    Limit = 1
    Stallable = {}
    Losable = {c1}
    NoConn = none
PROPERTIES
    ResponsiveKept
CHECK_DEADLOCK FALSE
