SPECIFICATION FairSpec
CONSTANTS
    SessionId = {s1, s2}
    User = {alice}
    Anonymous = anonymous
    Proc = {p1}
    NoSession = none
    MaxPerUser = 1
    MaxIdle = 0
PROPERTIES
    OverLimitLeaves
