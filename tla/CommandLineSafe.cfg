CONSTANTS
  Walk <- MCWalk
  DepthOf <- MCDepthOf
  NotMarkdown = {}
  StemOf <- MCStemOf
  ConceptOf <- MCConceptOf
  IndexPages = {"index"}
  FormsOf <- MCFormsOf
  NoisyConcepts = {"index"}
  BucketOf <- MCBucketOf
  Scopes <- MCScopes
  Contents <- MCContents
  FirstFiles <- MCFirstFiles
  Ignorable <- MCIgnorable
  Limits <- MCTwoLimits
  Config <- MCConfig
  QueryTerms = {"guide", "Ada"}
  Processes = {p, q}
  Commands <- MCCommands
  MaxStarts = 3
  MaxEdits = 1
  MaxFaults = 1
SPECIFICATION CommandSpec
INVARIANTS
  CachedTextIsCurrent
  ReportedPagesAreCutOff
SYMMETRY MCSymmetry
CONSTRAINT MCOneLimit
CHECK_DEADLOCK FALSE
