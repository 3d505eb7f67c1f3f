CONSTANTS
  FoldGroups = {"X25519MLKEM768", "X25519"}
  FoldPeers = {"certA", "certB"}
  FoldOutcomes = {"supported", "rejected", "protocol_unsupported", "timeout", "dns_failed", "connect_refused"}
  MaxObs = 3
SPECIFICATION Spec
INVARIANTS
  MatrixIsBestOf
  InconsistenciesAgree
  FirstNegotiatedAgrees
CHECK_DEADLOCK FALSE
