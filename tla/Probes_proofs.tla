--------------------------- MODULE Probes_proofs ---------------------------
(***************************************************************************)
(* Lemmas about the classifier: what it may say of a run of s_client, and  *)
(* which of the phrases it looks for decides.                              *)
(***************************************************************************)
EXTENDS Probes, TLAPS

\* classify_failure only ever names a failure, and never the timeout, which
\* is recognised before it is called.
LEMMA ClassifyRange ==
  ASSUME NEW t
  PROVE  classify_failure(t) \in Outcome \ {"supported", "timeout"}
<1> DEFINE hits == { i \in DOMAIN FailureRules : FailureRules[i].mark \in t.marks }
<1>1. \A i \in DOMAIN FailureRules :
        FailureRules[i].outcome \in Outcome \ {"supported", "timeout"}
  BY DEF FailureRules, Outcome
<1>2. hits \subseteq 1 .. 7
  BY DEF FailureRules
<1>3. ASSUME hits # {}
      PROVE  \E i \in hits : \A j \in hits : i <= j
  <2>1. PICK k \in hits : TRUE
    BY <1>3
  <2> HIDE DEF hits
  <2> QED
    BY <1>2, <2>1
<1>4. CASE hits # {}
  <2> DEFINE i == CHOOSE i \in hits : \A j \in hits : i <= j
  <2>1. i \in hits
    BY <1>3, <1>4
  <2>2. classify_failure(t) = FailureRules[i].outcome
    BY <1>4 DEF classify_failure
  <2> QED
    BY <1>1, <2>1, <2>2
<1>5. CASE hits = {}
  BY <1>5 DEF classify_failure, Outcome
<1> QED
  BY <1>4, <1>5

\* A probe succeeded exactly if s_client ran to its end and completed.
LEMMA SucceededMeansCompleted ==
  ASSUME NEW t, t.timed_out \in BOOLEAN, t.completed \in BOOLEAN
  PROVE  /\ OutcomeOf(t) \in Outcome
         /\ OutcomeOf(t) = "supported" <=> t.completed /\ ~t.timed_out
BY ClassifyRange DEF OutcomeOf, Outcome

\* The first phrase of the table that occurs decides.
LEMMA FirstPhraseDecides ==
  ASSUME NEW t, NEW i \in 1 .. 7, FailureRules[i].mark \in t.marks,
         \A j \in 1 .. 7 : FailureRules[j].mark \in t.marks => i <= j
  PROVE  classify_failure(t) = FailureRules[i].outcome
<1> DEFINE hits == { j \in DOMAIN FailureRules : FailureRules[j].mark \in t.marks }
<1>1. DOMAIN FailureRules = 1 .. 7
  BY DEF FailureRules
<1>2. i \in hits /\ \A j \in hits : i <= j /\ j \in Int
  BY <1>1
<1> HIDE DEF hits
<1> DEFINE first == CHOOSE k \in hits : \A j \in hits : k <= j
<1>3. first \in hits /\ \A j \in hits : first <= j
  BY <1>2
<1>4. first = i
  <2>1. first <= i /\ i <= first /\ first \in Int /\ i \in Int
    BY <1>2, <1>3
  <2> HIDE DEF first
  <2> QED
    BY <2>1
<1> QED
  BY <1>2, <1>4 DEF classify_failure, hits

\* The outcomes of the failures a connection can end with.
LEMMA FailureOutcomes ==
  /\ OutcomeOf(Failed(1, {"alert"})) = "rejected"
  /\ OutcomeOf(Failed(1, {"alert", "reset"})) = "rejected"
  /\ OutcomeOf(Failed(1, {"alert_protocol_version"})) = "protocol_unsupported"
  /\ OutcomeOf(Failed(1, {"version"})) = "protocol_unsupported"
  /\ OutcomeOf(NoProtocols) = "protocol_unsupported"
  /\ OutcomeOf(Failed(1, {"refused"})) = "connect_refused"
  /\ OutcomeOf(Failed(1, {"reset"})) = "transport_failed"
  /\ OutcomeOf(Failed(1, {"resolver"})) = "dns_failed"
  /\ OutcomeOf(Failed(1, {"option"})) = "client_unsupported"
  /\ OutcomeOf(Failed(-1, {})) = "transport_failed"
  /\ OutcomeOf(Failed(0, {})) = "error"
<1>1. ASSUME NEW rc, NEW marks
      PROVE  /\ OutcomeOf(Failed(rc, marks)) = classify_failure(Failed(rc, marks))
             /\ Failed(rc, marks).marks = marks /\ Failed(rc, marks).rc = rc
  BY DEF OutcomeOf, Failed, Transcript
<1>2. ASSUME NEW marks, NEW i \in 1 .. 7, FailureRules[i].mark \in marks,
             \A j \in 1 .. 7 : FailureRules[j].mark \in marks => i <= j
      PROVE  OutcomeOf(Failed(1, marks)) = FailureRules[i].outcome
  BY <1>1, <1>2, FirstPhraseDecides
<1>3. ASSUME NEW rc \in Int
      PROVE  OutcomeOf(Failed(rc, {})) = IF rc # 0 THEN "transport_failed" ELSE "error"
  BY <1>1 DEF classify_failure
<1>4. /\ FailureRules[1] = [mark |-> "resolver", outcome |-> "dns_failed"]
      /\ FailureRules[2] = [mark |-> "refused", outcome |-> "connect_refused"]
      /\ FailureRules[3] = [mark |-> "option", outcome |-> "client_unsupported"]
      /\ FailureRules[4] = [mark |-> "version", outcome |-> "protocol_unsupported"]
      /\ FailureRules[5] = [mark |-> "alert_protocol_version", outcome |-> "protocol_unsupported"]
      /\ FailureRules[6] = [mark |-> "alert", outcome |-> "rejected"]
      /\ FailureRules[7] = [mark |-> "reset", outcome |-> "transport_failed"]
  BY DEF FailureRules
<1>5. ASSUME NEW i \in 1 .. 7
      PROVE  OutcomeOf(Failed(1, {FailureRules[i].mark})) = FailureRules[i].outcome
  <2>1. \A j \in 1 .. 7 : FailureRules[j].mark \in {FailureRules[i].mark} => i <= j
    BY <1>4
  <2> QED
    BY <1>2, <2>1
<1>6. OutcomeOf(Failed(1, {"alert", "reset"})) = "rejected"
  <2>1. \A j \in 1 .. 7 : FailureRules[j].mark \in {"alert", "reset"} => 6 <= j
    BY <1>4
  <2> QED
    BY <1>2, <1>4, <2>1
<1>7. OutcomeOf(NoProtocols) = "protocol_unsupported"
  <2>1. \A j \in 1 .. 7 : FailureRules[j].mark \in {"version", "no_protocols"} => 4 <= j
    BY <1>4
  <2> QED
    BY <1>2, <1>4, <2>1 DEF NoProtocols
<1>8. /\ OutcomeOf(Failed(-1, {})) = "transport_failed"
      /\ OutcomeOf(Failed(0, {})) = "error"
  BY <1>3
<1>9. /\ OutcomeOf(Failed(1, {"alert"})) = "rejected"
      /\ OutcomeOf(Failed(1, {"alert_protocol_version"})) = "protocol_unsupported"
      /\ OutcomeOf(Failed(1, {"version"})) = "protocol_unsupported"
      /\ OutcomeOf(Failed(1, {"refused"})) = "connect_refused"
      /\ OutcomeOf(Failed(1, {"reset"})) = "transport_failed"
      /\ OutcomeOf(Failed(1, {"resolver"})) = "dns_failed"
      /\ OutcomeOf(Failed(1, {"option"})) = "client_unsupported"
  BY <1>4, <1>5
<1> QED
  BY <1>6, <1>7, <1>8, <1>9
=============================================================================
