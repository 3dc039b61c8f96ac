SPECIFICATION FairSpec
CONSTANTS
    Chan = {c1, c2}
    NoChan = none
    MaxPending = 3
INVARIANTS
    OneLink
    NothingLeft
    NothingStranded
    WaitIsTimed
PROPERTIES
    BackOnline
