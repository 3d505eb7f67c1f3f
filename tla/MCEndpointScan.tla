--------------------------- MODULE MCEndpointScan ---------------------------
(***************************************************************************)
(* Small worlds for EndpointScan: one hybrid and one classical group, two  *)
(* certificates, and pools of one or two members that differ in what a     *)
(* member of a half-finished rollout can differ in.                        *)
(***************************************************************************)
EXTENDS Report

MCInfoGroups == {"X25519MLKEM768", "X25519"}
MCAllGroups == { g.name : g \in BY_NAME }
MCGroups == groups_to_probe(MCInfoGroups, FALSE)
MCDefaultOffer == {"X25519MLKEM768", "X25519"}

S(speaks, groups, cert) == [speaks |-> speaks, groups |-> groups, cert |-> cert]

Hybrid       == S("tls1_3", {"X25519MLKEM768", "X25519"}, "certA")
Classical    == S("tls1_3", {"X25519"}, "certA")       \* same wildcard certificate
HybridOnly   == S("tls1_3", {"X25519MLKEM768"}, "certB")
Tls12        == S("tls1_2", {}, "certB")
Plaintext    == S("plaintext", {}, "certA")
Dead         == S("nothing", {}, "certA")

MCUniformPools == { {Hybrid}, {Classical}, {Tls12} }
MixedPools   == { {Hybrid, Classical}, {Classical, HybridOnly}, {Hybrid, Tls12} }
BrokenPools  == { {Plaintext}, {Dead}, {Classical, Plaintext}, {Hybrid, Dead} }

MCTlsPools == MCUniformPools \cup MixedPools
MCAllPools == MCTlsPools \cup BrokenPools
\* The peer of a client that has TLS 1.3 switched off.
MCTls12Pool == { {Tls12} }
MCUnofferedFaults == {"no_protocols"}
MCFewPasses == {-1, 0, 1}
MCAllFaults == FaultKinds
=============================================================================
