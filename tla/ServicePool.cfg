CONSTANTS
  AllGroups <- MCAllGroups
  InfoGroups <- MCInfoGroups
  Groups <- MCGroups
  DefaultOffer <- MCInfoGroups
  Certs = {"certA", "certB"}
  Pools <- MCPools
  Repeats <- MCRepeats
  Faults = {}
  MaxFaults = 0
  Services <- MCRepeated
  Worlds <- MCPoolWorlds
SPECIFICATION ServiceSpec
INVARIANT ConflictsAreTrue
CHECK_DEADLOCK FALSE
