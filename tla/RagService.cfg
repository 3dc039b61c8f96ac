SPECIFICATION Spec
CONSTANTS
    d1 = d1
    d2 = d2
    d3 = d3
    f1 = f1
    f2 = f2
    leak = leak
    pump = pump
    hot = hot
    it = it
    plumbing = plumbing
    everything = everything
    Doc = {d1, d2, d3}
    Word = {leak, pump, hot, it}
    Short = {it}
    Text <- MCText
    Unit = 210
    Ln <- MCLn
    Req = {r1, r2}
    File = {f1, f2}
    DomainOf <- MCDomainOf
    Problems <- MCProblems
    Everything = everything
    Key <- MCKey
    Capacity = 2
    TTL = 0
    NoAnswer = noAnswer
INVARIANTS
    CacheConsistent
    Ranked
PROPERTIES
    EvictsOldest
    Transparent
