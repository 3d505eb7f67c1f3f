---------------------------- MODULE MCTargetScan ----------------------------
(***************************************************************************)
(* Small targets for TargetScan: a hybrid, a pure and a classical group,   *)
(* and stacks that differ in versions, preference and certificate.         *)
(***************************************************************************)
EXTENDS TargetScan

MCInfoGroups == {"X25519MLKEM768", "MLKEM768", "X25519"}
MCGroups == groups_to_probe(MCInfoGroups, FALSE)
MCDefaultOffer == {"X25519MLKEM768", "X25519"}
MCLocalVersions == TlsVersion \ {"tls1_0"}   \* has TLS 1.0 switched off

Cert(expiry, weak) == [expiry |-> expiry, weak |-> weak, verify_failed |-> FALSE]
MCCertificates ==
  [ good |-> Cert("later", FALSE), old |-> Cert("past", FALSE), small |-> Cert("soon", TRUE) ]

T(versions, groups, cert) == [versions |-> versions, groups |-> groups, cert |-> cert]

Modern     == T({"tls1_3"}, <<"X25519MLKEM768", "X25519">>, "good")
NotFirst   == T({"tls1_3", "tls1_2"}, <<"X25519", "X25519MLKEM768", "MLKEM768">>, "good")
Classical  == T({"tls1_3", "tls1_2"}, <<"X25519">>, "small")
Tidy       == T({"tls1_3"}, <<"X25519">>, "good")
HybridOnly == T({"tls1_3"}, <<"X25519MLKEM768">>, "old")
Tls12      == T({"tls1_2", "tls1_1"}, <<>>, "old")
Ancient    == T({"tls1_1", "tls1_0"}, <<>>, "small")
PureOnly   == T({"tls1_3"}, <<"MLKEM768">>, "good")   \* out of the default client's reach

MCPools == { {Modern}, {NotFirst}, {Classical}, {Tidy}, {HybridOnly}, {Tls12}, {Ancient},
             {PureOnly}, {Modern, Tls12}, {NotFirst, Tidy} }
MCUniform == { {Tidy} }

MCAllFaults == FaultKinds
=============================================================================
