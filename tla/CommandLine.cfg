CONSTANTS
  Runs <- MCRuns
  Scores <- MCScores
SPECIFICATION CommandFairSpec
INVARIANTS
  CommandTypeOK
  BestClient
  GroupsAreTheClients
  ReportIsOwn
  EachJobOnce
  ExitCodeTellsTruth
  ContextIsDeclared
  AddressesReadBack
  SweepsAreAskedFor
PROPERTIES
  CommandEnds
  ImplementsPromise
CHECK_DEADLOCK FALSE
