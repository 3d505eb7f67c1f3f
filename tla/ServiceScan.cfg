CONSTANTS
  AllGroups <- MCAllGroups
  InfoGroups <- MCInfoGroups
  Groups <- MCGroups
  DefaultOffer <- MCDefaultOffer
  Certs = {"certA", "certB"}
  Pools <- MCPools
  Repeats <- MCRepeats
  Faults = {"stall", "refused"}
  MaxFaults = 1
  Services <- MCServices
  Worlds <- MCWorlds
SPECIFICATION ServiceFairSpec
INVARIANTS
  ServiceTypeOK
  PassthroughVerdictHasGrounds
  HighConfidenceIsSound
  UniformPassthroughIsRecognised
  SilentBackendsDoNotCount
  DeclarationsNeverSteer
PROPERTIES
  EvidenceIsFinal
  ServiceEnds
CHECK_DEADLOCK FALSE
