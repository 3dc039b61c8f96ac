SPECIFICATION Spec
CONSTANTS
    SessionId = {s1, s2}
    User = {alice}
    Anonymous = anonymous
    Proc = {p1, p2}
    NoSession = none
    MaxPerUser = 1
    MaxIdle = 1
SYMMETRY Symmetry
INVARIANTS
    ClosedStaysClosed
    WriteThrough
    RemovedForGood
    SessionsSurvive
    QuotaOvershoot
PROPERTIES
    RestartNeverRejuvenates
