CONSTANTS
  AllGroups <- MCAllGroups
  InfoGroups <- MCInfoGroups
  Groups <- MCGroups
  DefaultOffer <- MCInfoGroups
  Certs = {"certA", "certB"}
  Pools <- MCPools
  Repeats <- MCRepeats
  Faults = {"stall"}
  MaxFaults = 1
  Services <- MCOneService
  Worlds <- MCUniform
SPECIFICATION ServiceSpec
INVARIANT RuledOutMeansNotPassthrough
CHECK_DEADLOCK FALSE
