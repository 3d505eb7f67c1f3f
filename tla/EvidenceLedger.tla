--------------------------- MODULE EvidenceLedger ---------------------------
(***************************************************************************)
(* What the evidence of one address promises (evidence.py, module          *)
(* docstring): a ledger of positive claims.  A claim <<c, g>> says that a  *)
(* peer presenting certificate c negotiates group g.  A claim is entered   *)
(* only if it is true of a stack behind the address, and it is never taken *)
(* back; how probes are ordered, repeated, disturbed and aggregated does   *)
(* not show.                                                               *)
(***************************************************************************)
CONSTANTS LedgerPools   \* the sets of stacks that may live behind the address

VARIABLES
  pool,     \* the stacks behind the address
  claims,   \* what has been observed to be supported
  open      \* may anything still be entered?

ledgerVars == <<pool, claims, open>>

True(P, claim) ==
  \E s \in P : s.speaks = "tls1_3" /\ s.cert = claim[1] /\ claim[2] \in s.groups

Init ==
  /\ pool \in LedgerPools
  /\ claims = {}
  /\ open = TRUE

\* At most one claim per step: every probe answers one question.
Enter ==
  /\ open
  /\ open' \in BOOLEAN
  /\ \/ claims' = claims
     \/ \E s \in pool : \E g \in s.groups :
          /\ s.speaks = "tls1_3"
          /\ claims' = claims \cup {<<s.cert, g>>}
  /\ UNCHANGED pool

Next == Enter

Spec == Init /\ [][Next]_ledgerVars

\* Every claim ever entered is true of the pool.
ClaimsAreTrue == \A c \in claims : True(pool, c)
=============================================================================
