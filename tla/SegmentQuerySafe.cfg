CONSTANTS
  Terms <- MCTerms
  ActionTerms <- MCActionTerms
  TimeTerms <- MCTimeTerms
  EnrichmentTerms <- MCEnrichmentTerms
  Label <- MCLabel
  PostingsPerTerm = 2
  PoolLimit = 3
  MemoryLimit = 4
  RecoveryPool = 3
  NeighborLimit = 3
  Concurrency = 2
  TermLimit = 2
  Panics = TRUE
  Publications <- MCPublications
  Requests <- MCRequests
SPECIFICATION QuerySpec
INVARIANTS
  PlanIsEligible
  RecoveryGrowsCoverage
  SelectionOrderIsFinal
  CompleteAnswerSawTheBest
