CONSTANTS
  InfoGroups <- MCInfoGroups
  LocalVersions <- MCLocalVersions
  Groups <- MCGroups
  DefaultOffer <- MCDefaultOffer
  IncludeLegacy = TRUE
  Certificates <- MCCertificates
  Pools <- MCPools
  Paths = {"clean", "swallows_large"}
  Faults <- MCAllFaults
  MaxFaults = 1
SPECIFICATION FairSpec
INVARIANTS
  TargetTypeOK
  GradesAreEarned
  SuspicionHasCause
  MiddleboxIsFound
  VersionsHaveCause
  ScoreIsIdeal
PROPERTY TargetEnds
CHECK_DEADLOCK FALSE
