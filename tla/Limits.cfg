SPECIFICATION MCSpec
CONSTANTS
    Req = {r1, r2, r3}
    IP = {a}
    Bucket = {b1, b2, b3}
    NoBucket = none
    Burst = 2
    Expiry = 3
    Threshold = 2
    Window = 1
    BanTime = 2
    Conn = {c1}
    User = {u}
    Anonymous = anonymous
    MaxFPS = 2
    Second = 3
    UserBurst = 2
    UserExpiry = 2
INVARIANTS
    BudgetKept
    BanStands
    RenewalsBounded
    UserBudgetKept
    FrameRate
PROPERTIES
    Forgotten
