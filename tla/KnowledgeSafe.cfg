SPECIFICATION Spec
CONSTANTS
    Docs = {1, 2, 3}
    None = None
    GenericHeadings = {1}
    MaxChanges = 4
    Contents <- MCContents
    Settings <- MCSettings
    Orders <- MCOrders
INVARIANTS
    CurrentChunksAreLatest
    VersionsCount
    NewestWordStands
    FactsTellThePast
    StatesSurviveReopen
CHECK_DEADLOCK FALSE
