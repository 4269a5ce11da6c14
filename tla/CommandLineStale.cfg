CONSTANTS
  Walk <- MCWalk
  DepthOf <- MCDepthOf
  NotMarkdown = {}
  StemOf <- MCStemOf
  ConceptOf <- MCConceptOf
  IndexPages = {"index"}
  FormsOf <- MCFormsOf
  NoisyConcepts = {"index"}
  BucketOf <- MCBucketOf
  Scopes <- MCScopes
  Contents <- MCContents
  FirstFiles <- MCFirstFiles
  Ignorable <- MCNoIgnores
  Limits <- MCLimits
  Config <- MCConfig
  QueryTerms = {"guide", "Ada"}
  Processes = {"p"}
  Commands <- MCQueries
  MaxStarts = 2
  MaxEdits = 1
  MaxFaults = 0
SPECIFICATION CommandSpec
INVARIANT AnswersReadTheCorpus
CHECK_DEADLOCK FALSE
