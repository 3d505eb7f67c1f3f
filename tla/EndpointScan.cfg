CONSTANTS
  AllGroups <- MCAllGroups
  InfoGroups <- MCInfoGroups
  Groups <- MCGroups
  DefaultOffer <- MCDefaultOffer
  Certs = {"certA", "certB"}
  Pools <- MCTlsPools
  Repeats = {2}
  Faults <- MCAllFaults
  MaxFaults = 1
SPECIFICATION Spec
INVARIANTS
  TypeOK
  SupportIsReal
  InconsistencyHasCause
  DivergenceIsReported
PROPERTY SupportNeverRetracted
CHECK_DEADLOCK FALSE
