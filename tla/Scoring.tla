------------------------------ MODULE Scoring ------------------------------
(***************************************************************************)
(* The score, the grade and the findings of a scanned target (scoring.py): *)
(* a function of the result record.  Findings are their codes; the remark on *)
(* classical signatures, which carries no points, is left out.             *)
(*                                                                         *)
(* Days and key sizes are abstracted to what the thresholds tell apart: a  *)
(* certificate has an expiry class, and its key is weak or not.  A target  *)
(* whose certificate was not read has the certificate NoCertificate.       *)
(***************************************************************************)
EXTENDS Models, Integers

TlsVersion == {"tls1_3", "tls1_2", "tls1_1", "tls1_0"}
Known == {"yes", "no", "unknown"}     \* True, False, None

Certificate ==
  [ expiry : {None, "past", "soon", "later"}, weak : BOOLEAN, verify_failed : BOOLEAN ]
NoCertificate == [expiry |-> None, weak |-> FALSE, verify_failed |-> FALSE]

MAX_KEX == 60
MAX_PROTOCOL == 20
MAX_INTEROP == 10
MAX_CERT == 10

\* Mutant of _grade: a threshold that a classical endpoint reaches.
_grade_Lenient(score) ==
  CASE score >= 85 -> "A" [] score >= 50 -> "B" [] score >= 40 -> "C"
    [] score >= 30 -> "D" [] OTHER -> "F"

_grade(score) ==
  CASE score >= 85 -> "A" [] score >= 70 -> "B" [] score >= 50 -> "C"
    [] score >= 30 -> "D" [] OTHER -> "F"

\* A clause gives points and findings; a result's score is the sum of four.
Clause(points, findings) == [points |-> points, findings |-> findings]
If(condition, code) == IF condition THEN {code} ELSE {}

\* Mutant of KeyExchange: hybrid support is credited on top of preference.
KeyExchange_Cumulative(r) ==
  Clause( (IF r.hybrid_preferred THEN MAX_KEX ELSE 0)
        + (IF r.hybrid_supported THEN 40 ELSE 0), {})

KeyExchange(r) ==
  LET pure == If(\E g \in r.supported_groups : kind_of(g) = "pure_pq", "PURE_PQ_OFFERED")
  IN  CASE r.hybrid_preferred -> Clause(MAX_KEX, pure \cup {"PQ_HYBRID_DEFAULT"})
        [] ~r.hybrid_preferred /\ r.hybrid_supported ->
             Clause(40, pure \cup {"PQ_HYBRID_NOT_PREFERRED"})
        [] ~r.hybrid_preferred /\ ~r.hybrid_supported ->
             IF r.protocols["tls1_3"] = "yes" THEN Clause(10, pure \cup {"NO_PQ_KEX"})
                                              ELSE Clause(0, pure \cup {"NO_TLS13"})

\* Mutant of ProtocolHygiene: an unknown version passes for a disabled one.
ProtocolHygiene_UnknownIsOff(r) ==
  LET v == r.protocols
  IN  Clause( (IF v["tls1_3"] = "yes" THEN 10 ELSE 0)
            + (IF v["tls1_2"] # "yes" THEN 5 ELSE 0)
            + (IF v["tls1_1"] # "yes" /\ v["tls1_0"] # "yes" THEN 5 ELSE 0), {})

ProtocolHygiene(r) ==
  LET v == r.protocols
      legacy == v["tls1_1"] = "yes" \/ v["tls1_0"] = "yes"
  IN  Clause( (IF v["tls1_3"] = "yes" THEN 10 ELSE 0)
            + (IF v["tls1_2"] = "no" THEN 5 ELSE 0)
            + (IF v["tls1_1"] = "no" /\ v["tls1_0"] = "no" THEN 5 ELSE 0),
            If(v["tls1_2"] = "yes", "TLS12_ENABLED") \cup If(legacy, "LEGACY_TLS"))

Interop(r) ==
  IF r.large_clienthello_suspected
  THEN Clause(0, {"LARGE_CLIENTHELLO_INTOLERANCE"}) ELSE Clause(MAX_INTEROP, {})

\* A key nothing is known about is not weak.
CertificateHygiene(r) ==
  LET c == r.certificate
  IN  Clause( (IF c.expiry = "later" THEN 5 ELSE 0) + (IF c.weak THEN 0 ELSE 5),
            If(c.expiry = "past", "CERT_EXPIRED") \cup If(c.expiry = "soon", "CERT_EXPIRING")
              \cup If(c.verify_failed, "CERT_VERIFY_FAILED")
              \cup If(c.weak, "WEAK_CERT_KEY"))

score_target(r) ==
  IF ~r.reachable
  THEN [score |-> 0, grade |-> "F", findings |-> {"UNREACHABLE"}]
  ELSE LET of == <<KeyExchange(r), ProtocolHygiene(r), Interop(r), CertificateHygiene(r)>>
           score == of[1].points + of[2].points + of[3].points + of[4].points
       IN  [ score |-> score, grade |-> _grade(score),
             findings |-> UNION { of[i].findings : i \in DOMAIN of } ]

\* The component view.  Two of its entries are ceilings, whatever was found,
\* and it does not ask whether the target was reached.
score_breakdown(r) ==
  [ key_exchange |-> CASE r.hybrid_preferred -> MAX_KEX
                       [] ~r.hybrid_preferred /\ r.hybrid_supported -> 40
                       [] ~r.hybrid_preferred /\ ~r.hybrid_supported ->
                            IF r.protocols["tls1_3"] = "yes" THEN 10 ELSE 0,
    protocol |-> MAX_PROTOCOL,
    interop |-> IF r.large_clienthello_suspected THEN 0 ELSE MAX_INTEROP,
    certificate |-> MAX_CERT ]
=============================================================================
