CONSTANTS
  InfoGroups <- MCInfoGroups
  LocalVersions <- TlsVersion
  Groups <- MCGroups
  DefaultOffer <- MCDefaultOffer
  IncludeLegacy = TRUE
  Certificates <- MCCertificates
  Pools <- MCUniform
  Paths = {"swallows_large"}
  Faults = {}
  MaxFaults = 0
SPECIFICATION Spec
INVARIANT NoTls13IsTrue
CHECK_DEADLOCK FALSE
