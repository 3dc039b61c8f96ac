SPECIFICATION FairSpec
CONSTANTS
    Call = {s1, s2}
    Threshold = 1
    Cooldown = 1
    MaxRetries = 2
    Burst = 1
    Frame = {}
    NoFrame = none
    OldFrame = old
PROPERTIES
    TurnEnds
    BreakerRecovers
