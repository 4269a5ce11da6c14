SPECIFICATION FairSpec
CONSTANTS
    s1 = s1
    r1 = r1
    r2 = r2
    i1 = i1
    i2 = i2
    Servers = {s1}
    Recalls = {r1, r2}
    Ignores = {i1, i2}
    IgnoresOf <- MCIgnoresOf
    MaxWorld = 2
    StatusOf <- MCStatusOf
    Memories = {m1}
    NoWorld = NoWorld
    NoRecords = NoRecords
    NoState = NoState
    NoLock = NoLock
    Orphan = Orphan
INVARIANTS
    MarkedIsCurrent
    RecallAnswersFresh
    KnownMemoriesServed
PROPERTY
    EveryOpenEnds
