------------------------------ MODULE Topology ------------------------------
(***************************************************************************)
(* The assessment (topology.py): an opinion about where TLS ends, computed *)
(* from the evidence of the frontend and of the backends and compared with *)
(* what the inventory declares.  It is a function; nothing is written back *)
(* to the evidence.                                                        *)
(*                                                                         *)
(* fe is the frontend's sequence of observations (empty for a service      *)
(* without a frontend) and bes the sequence of the backends'.  Reasoning   *)
(* and signals are prose, of which the one categorical claim is kept.      *)
(***************************************************************************)
EXTENDS Evidence

TlsMode == {"terminate", "reencrypt", "passthrough", "unknown"}

\* The types the assessment tells apart; every other one behaves like "f5".
FrontendType == {"f5", "aws_nlb", "none", "unknown"}

Verdicts == {"indeterminate", "not_observed", "likely_passthrough", "likely_tls_termination"}
Confidence == {"high", "medium", "low", "indeterminate"}

\* conflicts: the kind of contradiction and the address it is about (0 for
\* the frontend, i for the i-th backend).
Conflict(kind, where) == [kind |-> kind, where |-> where]

answering(bes) == { i \in DOMAIN bes : reachable(bes[i]) }

\* Mutant of be_prints: identities are read off the support matrix.
be_prints_FromMatrix(bes) ==
  UNION { { p \in RowPeers(bes[i]) : p # Unidentified } : i \in answering(bes) }

\* Mutant of be_prints: certificates seen without a handshake count as well.
be_prints_All(bes) == UNION { peers(bes[i]) : i \in DOMAIN bes }

be_prints(bes) == UNION { peers(bes[i]) : i \in answering(bes) }
be_groups(bes) == UNION { groups_observed_supported(bes[i]) : i \in answering(bes) }

shared_cert(fe, bes) == peers(fe) \cap be_prints(bes) # {}

group_divergence(fe, bes) ==
  /\ groups_observed_supported(fe) # {}
  /\ be_groups(bes) # {}
  /\ groups_observed_supported(fe) # be_groups(bes)

-----------------------------------------------------------------------------
(* Declared versus observed                                                *)

_resolve_conflict(declared, observed) ==
  IF \/ declared = "passthrough" /\ observed = "likely_tls_termination"
     \/ declared \in {"terminate", "reencrypt"} /\ observed = "likely_passthrough"
  THEN { Conflict("tls_mode", 0) } ELSE {}

_note_frontend_type_conflict(ftype, fe, observed) ==
  { c \in { Conflict("layer4", 0), Conflict("direct", 0) } :
      \/ c.kind = "layer4" /\ ftype = "aws_nlb" /\ observed = "likely_tls_termination"
      \/ c.kind = "direct" /\ ftype = "none" /\ distinct_peer_count(fe) > 1 }

_note_inconsistency(obs, where) ==
  IF inconsistencies(obs) # {} THEN { Conflict("inconsistent", where) } ELSE {}

-----------------------------------------------------------------------------

Assessment(declared, observed, confidence, conflicts, divergent) ==
  [ declared |-> declared, observed |-> observed, confidence |-> confidence,
    conflicts |-> conflicts, rules_out_passthrough |-> divergent ]

\* Mutant of assess_backends: divergence alone is enough for high confidence.
assess_backends_DivergenceIsHigh(service, fe, bes) ==
  LET divergent == group_divergence(fe, bes)
      shared    == shared_cert(fe, bes)
  IN  Assessment(service.mode,
        IF shared /\ ~divergent THEN "likely_passthrough" ELSE "likely_tls_termination",
        IF divergent THEN "high" ELSE "medium", {}, divergent)

assess_backends(service, fe, bes) ==
  LET divergent == group_divergence(fe, bes)
      shared    == shared_cert(fe, bes)
      observed  == IF shared /\ ~divergent THEN "likely_passthrough"
                   ELSE "likely_tls_termination"
      confidence == IF ~shared /\ divergent THEN "high" ELSE "medium"
  IN  Assessment(service.mode, observed, confidence,
        _note_frontend_type_conflict(service.type, fe, observed)
          \cup _note_inconsistency(fe, 0)
          \cup _resolve_conflict(service.mode, observed)
          \cup UNION { _note_inconsistency(bes[i], i) : i \in answering(bes) },
        divergent)

\* Mutant of assess: a declared passthrough is believed.
assess_TrustsDeclared(service, fe, bes) ==
  IF ~reachable(fe)
  THEN Assessment(service.mode, "not_observed", "indeterminate", {}, FALSE)
  ELSE IF service.mode = "passthrough"
  THEN Assessment(service.mode, "likely_passthrough", "medium", {}, FALSE)
  ELSE IF answering(bes) = {}
  THEN Assessment(service.mode, "likely_tls_termination", "low", {}, FALSE)
  ELSE assess_backends(service, fe, bes)

assess(service, fe, bes) ==
  IF ~reachable(fe)
  THEN Assessment(service.mode, "not_observed", "indeterminate", {}, FALSE)
  ELSE IF bes = <<>>
  THEN Assessment(service.mode, "indeterminate", "indeterminate",
         _note_frontend_type_conflict(service.type, fe, "indeterminate")
           \cup _note_inconsistency(fe, 0), FALSE)
  ELSE IF answering(bes) = {}
  THEN Assessment(service.mode, "likely_tls_termination", "low",
         _resolve_conflict(service.mode, "likely_tls_termination"), FALSE)
  ELSE assess_backends(service, fe, bes)
=============================================================================
