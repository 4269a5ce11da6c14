CONSTANTS
  Workers = {"a", "b", "c"}
  Segments = {"s1", "s2", "s3"}
  HeldBy <- MCHeldBy
  Requests <- MCRequests
  Fields = {"content"}
  Terms = {"routing"}
  TermLists <- MCTermLists
  Counts <- MCCounts
  Documents <- MCDocuments
  TopKs <- MCTopKs
  Generations <- MCGenerations
  CounterMax = 6
  MaxAnswers = 3
  Deadline = 1
SPECIFICATION Spec
INVARIANTS
  ArrivalOrderIsIrrelevant
  BestAnswersAreKept
  FailureIsNeverHidden
CHECK_DEADLOCK FALSE
