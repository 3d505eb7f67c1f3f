CONSTANTS
  AllGroups <- MCAllGroups
  InfoGroups <- MCInfoGroups
  Groups <- MCGroups
  DefaultOffer <- MCDefaultOffer
  Certs = {"certA", "certB"}
  Pools <- MCUniformPools
  Repeats = {2}
  Faults = {"stall"}
  MaxFaults = 1
SPECIFICATION Spec
INVARIANT InconsistencyIsProof
CHECK_DEADLOCK FALSE
