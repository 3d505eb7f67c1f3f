--------------------------- MODULE MCServiceScan ---------------------------
(***************************************************************************)
(* Small deployments for ServiceScan: up to two declared backends behind a *)
(* frontend that terminates or passes through, in every combination of     *)
(* shared and separate certificates and of equal and different groups.     *)
(***************************************************************************)
EXTENDS ServiceScan

MCInfoGroups == {"X25519MLKEM768", "X25519"}
MCAllGroups == { g.name : g \in BY_NAME } \cup {"ffdhe4096"}
MCDefaultOffer == MCInfoGroups \cup {"ffdhe4096"}   \* on offer, and in no sweep
MCGroups == groups_to_probe(MCInfoGroups, FALSE)

S(speaks, groups, cert) == [speaks |-> speaks, groups |-> groups, cert |-> cert]

HybridA    == S("tls1_3", {"X25519MLKEM768", "X25519"}, "certA")
ClassicalA == S("tls1_3", {"X25519"}, "certA")
HybridB    == S("tls1_3", {"X25519MLKEM768", "X25519"}, "certB")
ClassicalB == S("tls1_3", {"X25519"}, "certB")
Uncharted  == S("tls1_3", {"ffdhe4096"}, "certA")
Tls12B     == S("tls1_2", {}, "certB")
Tls12A     == S("tls1_2", {}, "certA")
Plaintext  == S("plaintext", {}, "certA")
Dead       == S("nothing", {}, "certA")

W(mode, front, direct) == [mode |-> mode, front |-> front, direct |-> direct]

Uniform    == W("passthrough", {HybridA}, <<{HybridA}>>)
UniformOld == W("passthrough", {Tls12B}, <<{Tls12B}>>)
TwoMembers == W("passthrough", {HybridA, ClassicalA}, <<{HybridA}, {ClassicalA}>>)
TwoCerts   == W("passthrough", {HybridA, ClassicalB}, <<{HybridA}, {ClassicalB}>>)
Firewalled == W("passthrough", {HybridA, ClassicalB}, <<{HybridA}, {Dead}>>)
OwnCert    == W("terminate", {HybridB}, <<{ClassicalA}>>)
Imported   == W("terminate", {HybridA}, <<{ClassicalA}>>)
ImportedOld == W("terminate", {HybridA}, <<{Tls12A}>>)
Cleartext  == W("terminate", {HybridB}, <<{Plaintext}>>)
NoBackends == W("terminate", {ClassicalB}, <<>>)
SpareCert  == W("passthrough", {HybridA}, <<{HybridA, ClassicalB}>>)
Upgraded   == W("terminate", {ClassicalA}, <<{ClassicalA}, {HybridA}>>)
Aside      == W("terminate", {Uncharted}, <<{ClassicalA}>>)
Halfway    == W("terminate", {ClassicalA}, <<{ClassicalB}, {Uncharted}>>)
Reencrypt  == W("terminate", {HybridB}, <<{HybridA}, {Dead}>>)

MCWorlds == { Uniform, UniformOld, TwoMembers, TwoCerts, Firewalled, OwnCert,
              Imported, ImportedOld, Cleartext, NoBackends, Reencrypt,
              SpareCert, Upgraded, Aside, Halfway }
MCUniform == {Uniform}
MCPoolWorlds == {Uniform, TwoMembers, TwoCerts}

MCPools == UNION { {w.front} \cup { w.direct[i] : i \in DOMAIN w.direct } : w \in MCWorlds }

Entry(frontend, type, mode, front, back) ==
  [ frontend |-> frontend, type |-> type, mode |-> mode,
    front_repeat |-> front, back_repeat |-> back ]

MCServices == { Entry(TRUE, "aws_nlb", "passthrough", 1, 1),
                Entry(FALSE, "none", "unknown", 1, 1) }
MCOneService == { Entry(TRUE, "aws_nlb", "passthrough", 1, 1) }
MCRepeated == { Entry(TRUE, "none", "unknown", 2, 1) }
MCRepeats == {1, 2}
=============================================================================
