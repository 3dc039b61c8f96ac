SPECIFICATION Spec
CONSTANTS
    Reader = {r1}
    Message = {m1, m2}
    Blank = blank
    Shared = shared
    MaxCap = 3
    maxConversationHistory = 2
    maxContextMessages = 1
    Session = {s1, s2}
    b1 = b1
    p1 = p1
    Brand = {b1}
    Problem = {p1}
    NoProblem = noProblem
    NoFilter = noFilter
    Query <- MCQuery
    IntLimit = 8
    maxPageSize = 2
    MaxTime = 3
INVARIANTS
    CopyIsCurrent
    WalkComplete
PROPERTIES
    HistoryKept
