SPECIFICATION Spec
CONSTANTS
    Call = {s1, s2}
    Threshold = 2
    Cooldown = 1
    MaxRetries = 2
    Burst = 1
    Frame = {f1, f2}
    NoFrame = none
    OldFrame = old
SYMMETRY Symmetry
CONSTRAINT OneInTrouble
INVARIANTS
    TrippedAtThreshold
    OpenExposure
    SkippedWasAnswered
    HashesFreed
    NothingUnsaid
