SPECIFICATION Spec
CONSTANTS
    SessionId = {s1}
    User = {alice}
    Anonymous = anonymous
    Proc = {p1, p2}
    NoSession = none
    MaxPerUser = 1
    MaxIdle = 1
INVARIANTS
    RecoversOnlyActive
