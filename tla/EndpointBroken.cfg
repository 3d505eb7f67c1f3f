CONSTANTS
  AllGroups <- MCAllGroups
  InfoGroups <- MCInfoGroups
  Groups <- MCGroups
  DefaultOffer <- MCDefaultOffer
  Certs = {"certA", "certB"}
  Pools <- MCAllPools
  Repeats <- MCFewPasses
  Faults <- MCAllFaults
  MaxFaults = 2
SPECIFICATION FairSpec
INVARIANTS
  SweepIsComplete
  RefusalHasCause
  OmissionsHaveCause
PROPERTIES
  ScanEnds
  ImplementsLedger
CHECK_DEADLOCK FALSE
