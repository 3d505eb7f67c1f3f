CONSTANTS
  AllGroups <- MCAllGroups
  InfoGroups <- MCInfoGroups
  Groups <- MCGroups
  DefaultOffer <- MCDefaultOffer
  Certs = {"certA", "certB"}
  Pools <- MCTls12Pool
  Repeats = {1}
  Faults <- MCUnofferedFaults
  MaxFaults = 3
SPECIFICATION Spec
INVARIANT RejectionIsThePeers
CHECK_DEADLOCK FALSE
