SPECIFICATION Spec
CONSTANTS
    Docs = {1, 2, 3}
    NoRecord = NoRecord
    NoIndex = NoIndex
    Unscoped = Unscoped
    MaxPostings = 2
    GraphWindow = 2
    RerankWindow = 2
    FinalWindow = 3
    GroupLimit = 1
    Today = 95
    MaxChanges = 3
    Extends <- MCExtends
    Records <- MCRecords
    Options <- MCOptions
    Queries <- MCQueries
    Orders <- MCOrders
    Ranges <- MCRanges
INVARIANTS
    IndexIsOfItsRecords
    TargetIsInThePeriod
    AnswerSurvivesReopen
PROPERTIES
    AnswerStaysInScope
    AnswerIsFull
CHECK_DEADLOCK FALSE
