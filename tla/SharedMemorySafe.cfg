SPECIFICATION FairMemorySpec
CONSTANTS
    Hooks = {p1, p2}
    Recalls = {r1}
    Docs = {d1, d2}
    NoDoc = NoDoc
    Nobody = Nobody
INVARIANTS
    UncrossedCaptureSurvives
PROPERTIES
    EveryHookEnds
