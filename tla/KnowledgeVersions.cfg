SPECIFICATION Spec
CONSTANTS
    Docs = {1, 2, 3}
    None = None
    GenericHeadings = {1}
    MaxChanges = 4
    Contents <- MCContents
    Settings <- MCSettings
    Orders <- MCOrders
INVARIANT OneLatestPerLineage
CHECK_DEADLOCK FALSE
