------------------------------- MODULE Probes -------------------------------
(***************************************************************************)
(* One probe: `openssl s_client` is run once and its output is classified  *)
(* (probes.py on top of the parsers of openssl.py).                        *)
(*                                                                         *)
(* The text s_client prints is abstracted to what the parsers tell apart.  *)
(* A transcript records whether the process was killed by the timeout, its *)
(* exit code, whether a real ciphersuite line was printed ("New, TLSv1.3,  *)
(* Cipher is ..."; a failed handshake prints (NONE)), which error phrases  *)
(* occur, the negotiated group and the leaf certificate.                   *)
(*                                                                         *)
(* The peers are external.  A stack is one TLS configuration that may      *)
(* answer a connection: what it speaks, the groups it accepts in TLS 1.3   *)
(* and the certificate it presents.                                        *)
(***************************************************************************)
EXTENDS Models, Integers

Marks == { "resolver", "refused", "option", "version",
           "no_protocols", "alert_protocol_version", "alert", "reset" }

Speech == { "tls1_3", "tls1_2", "plaintext", "nothing" }

Transcript(timedOut, rc, completed, marks, negotiated, cert) ==
  [ timed_out |-> timedOut, rc |-> rc, completed |-> completed,
    marks |-> marks, negotiated |-> negotiated, cert |-> cert ]

-----------------------------------------------------------------------------
(* Classification                                                          *)

\* The phrases classify_failure looks for, in the order it looks.
FailureRules ==
  << [mark |-> "resolver",               outcome |-> "dns_failed"],
     [mark |-> "refused",                outcome |-> "connect_refused"],
     [mark |-> "option",                 outcome |-> "client_unsupported"],
     [mark |-> "version",                outcome |-> "protocol_unsupported"],
     [mark |-> "alert_protocol_version", outcome |-> "protocol_unsupported"],
     [mark |-> "alert",                  outcome |-> "rejected"],
     [mark |-> "reset",                  outcome |-> "transport_failed"] >>

classify_failure(t) ==
  LET hits == { i \in DOMAIN FailureRules : FailureRules[i].mark \in t.marks }
  IN  IF hits # {}
      THEN FailureRules[CHOOSE i \in hits : \A j \in hits : i <= j].outcome
      ELSE IF t.rc # 0 THEN "transport_failed" ELSE "error"

\* Mutant of OutcomeOf: the ciphersuite line an alert leaves behind is taken
\* for a completed handshake.
OutcomeOf_AnyCipherLine(t) ==
  IF t.timed_out THEN "timeout"
  ELSE IF t.completed \/ "alert" \in t.marks THEN "supported"
  ELSE classify_failure(t)

\* A killed process is a timeout even when the handshake line was printed.
OutcomeOf(t) ==
  IF t.timed_out THEN "timeout"
  ELSE IF t.completed THEN "supported"
  ELSE classify_failure(t)

\* The ProbeResult, joined with the identity the caller reads off the text.
_result_from_output(group, t) ==
  [ group_offered |-> group,
    outcome |-> OutcomeOf(t),
    negotiated_group |-> IF OutcomeOf(t) = "supported" THEN t.negotiated ELSE None,
    peer |-> t.cert ]

-----------------------------------------------------------------------------
(* The ClientHellos                                                        *)

REALISTIC_GROUP_LIST == { "X25519MLKEM768", "X25519", "secp256r1", "secp384r1" }

GroupHello(g) == [offered |-> {g}, tls13_only |-> TRUE]

\* s_client's own defaults: no -groups, and TLS 1.2 is still on offer.
DefaultHello(defaults) == [offered |-> defaults, tls13_only |-> FALSE]

RealisticHello(infoGroups) ==
  LET known == REALISTIC_GROUP_LIST \cap infoGroups
  IN  [offered |-> IF known = {} THEN {"X25519"} ELSE known, tls13_only |-> TRUE]

-----------------------------------------------------------------------------
(* The answers                                                             *)

Accepts(stack, hello) ==
  CASE stack.speaks = "tls1_3" -> hello.offered \cap stack.groups # {}
    [] stack.speaks = "tls1_2" -> ~hello.tls13_only
    [] OTHER                   -> FALSE

Killed(cert, completed) == Transcript(TRUE, -1, completed, {}, None, cert)
Failed(rc, marks)       == Transcript(FALSE, rc, FALSE, marks, None, None)

\* The local client has no TLS version left to offer: TLS 1.3 is switched off
\* in its configuration and the probe insists on it.  The text also holds the
\* phrase "no protocols", and that rule comes before every alert.
NoProtocols == Failed(1, {"version", "no_protocols"})

\* What a connection that reaches the stack can print.  A TLS 1.3 refusal is
\* an alert before any certificate; the socket may be reset right behind it.
Answers(stack, hello) ==
  CASE Accepts(stack, hello) ->
         { Transcript(FALSE, 0, TRUE, {}, g, stack.cert) :
             g \in IF stack.speaks = "tls1_3" THEN hello.offered \cap stack.groups
                                              ELSE {None} }
    [] stack.speaks = "tls1_3" /\ ~Accepts(stack, hello) ->
         { Failed(1, {"alert"}), Failed(1, {"alert", "reset"}) }
    [] stack.speaks = "tls1_2" /\ ~Accepts(stack, hello) ->
         { Failed(1, {"alert_protocol_version"}) }
    [] stack.speaks = "plaintext" -> { Failed(1, {"version"}) }
    [] stack.speaks = "nothing"   -> { Failed(1, {"refused"}), Killed(None, FALSE) }

FaultKinds ==
  {"stall", "reset", "refused", "dns", "option", "no_protocols", "spawn", "close"}

\* What the path or the local host can turn a connection into.  A stall may
\* come before the server's flight, behind it, or after the handshake.  With
\* TLS 1.3 switched off in the local client, every TLS 1.3 probe of the scan
\* takes the fault "no_protocols".
Disturbed(fault, stack, hello) ==
  CASE fault = "stall" ->
         {Killed(None, FALSE)} \cup
         IF Accepts(stack, hello)
         THEN {Killed(stack.cert, FALSE), Killed(stack.cert, TRUE)} ELSE {}
    [] fault = "reset"   -> { Failed(1, {"reset"}) }
    [] fault = "refused" -> { Failed(1, {"refused"}) }
    [] fault = "dns"     -> { Failed(1, {"resolver"}) }
    [] fault = "option"  -> { Failed(1, {"option"}) }
    [] fault = "no_protocols" -> { NoProtocols }
    [] fault = "spawn"   -> { Failed(-1, {}) }
    [] fault = "close"   -> { Failed(0, {}) }
=============================================================================
