------------------------------- MODULE Models -------------------------------
(***************************************************************************)
(* The vocabulary every other component speaks (models.py): the key        *)
(* exchange groups with their kinds and key-share sizes, and the outcomes  *)
(* a probe can end with.                                                   *)
(***************************************************************************)
EXTENDS Naturals, Sequences, SequencesExt

\* Python's None, and how the reports name a peer that showed no certificate.
None == "none"
Unidentified == "unidentified"

GroupSpec(n, k, b) == [name |-> n, kind |-> k, key_share_bytes |-> b]

\* The standard groups, in the order they are probed.
GROUP_CATALOG ==
  << GroupSpec("X25519MLKEM768",     "hybrid",       1216),
     GroupSpec("SecP256r1MLKEM768",  "hybrid",       1249),
     GroupSpec("SecP384r1MLKEM1024", "hybrid",       1665),
     GroupSpec("MLKEM512",           "pure_pq",       800),
     GroupSpec("MLKEM768",           "pure_pq",      1184),
     GroupSpec("MLKEM1024",          "pure_pq",      1568),
     GroupSpec("X25519",             "classical_ec",   32),
     GroupSpec("secp256r1",          "classical_ec",   65),
     GroupSpec("secp384r1",          "classical_ec",   97),
     GroupSpec("secp521r1",          "classical_ec",  133),
     GroupSpec("X448",               "classical_ec",   56),
     GroupSpec("ffdhe2048",          "classical_ff",  256),
     GroupSpec("ffdhe3072",          "classical_ff",  384) >>

\* Pre-standard hybrids, probed only when asked for.
LEGACY_HYBRID_ALIASES ==
  << GroupSpec("X25519Kyber768Draft00",    "hybrid", 1216),
     GroupSpec("SecP256r1Kyber768Draft00", "hybrid", 1249),
     GroupSpec("x25519_kyber768",          "hybrid", 1216) >>

BY_NAME == ToSet(GROUP_CATALOG \o LEGACY_HYBRID_ALIASES)

\* What the catalog says of a name; None for one it does not list.
Listed(name) == \E g \in BY_NAME : g.name = name
SpecOf(name) == CHOOSE g \in BY_NAME : g.name = name
kind_of(name) == IF Listed(name) THEN SpecOf(name).kind ELSE None

Outcome ==
  { "supported", "rejected", "transport_failed", "timeout", "connect_refused",
    "dns_failed", "protocol_unsupported", "client_unsupported", "error" }

(***************************************************************************)
(* The sweep of one pass (groups_to_probe, identical in service.py and     *)
(* scanner.py): the catalog, drafts last when included, cut down to what   *)
(* the local client (infoGroups) can offer.                                *)
(***************************************************************************)
groups_to_probe(infoGroups, includeDraft) ==
  LET catalog == IF includeDraft THEN GROUP_CATALOG \o LEGACY_HYBRID_ALIASES
                                 ELSE GROUP_CATALOG
      offerable == SelectSeq(catalog, LAMBDA g : g.name \in infoGroups)
  IN  [i \in DOMAIN offerable |-> offerable[i].name]
=============================================================================
