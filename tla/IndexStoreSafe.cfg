SPECIFICATION FairSpec
CONSTANTS
    c1 = c1
    c2 = c2
    g1 = g1
    g2 = g2
    Docs = {d1, d2}
    Contents = {c1, c2}
    NoDoc = NoDoc
    Groups = {g1, g2}
    NoGroup = NoGroup
    GroupOf <- MCGroupOf
    Layouts = {"Single", "Segmented"}
    NoFile = NoFile
    NoSnapshot = NoSnapshot
    NoBuild = NoBuild
    MaxRevision = 3
    Faults = {"crash", "io", "lock", "thread"}
    MaxFaults = 2
INVARIANTS
    CleanIsCurrent
    BuildOfThisRevisionIsCurrent
    ReopenedIsSearchable
    CompletedSaveAgrees
    LexicalComplete
PROPERTIES
    GenerationMonotonic
    DurableSpec
    EventuallyClean
