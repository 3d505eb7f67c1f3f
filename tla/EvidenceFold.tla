---------------------------- MODULE EvidenceFold ----------------------------
(***************************************************************************)
(* The loops of evidence.py as the code runs them: each goes through the   *)
(* observations in their order and builds its dict, or looks for its first *)
(* success.  A step is one iteration, of all the loops at once, on any     *)
(* observation a probe can leave.  What the loops have built must at every *)
(* length be what Evidence states declaratively of the observations.       *)
(***************************************************************************)
EXTENDS Evidence

CONSTANTS
  FoldGroups,   \* values of group_offered that are groups
  FoldPeers,    \* leaf fingerprints
  FoldOutcomes, \* outcomes of probes
  MaxObs        \* bound: observations gone through

ASSUME FoldAssumption ==
  /\ MaxObs \in Nat
  /\ FoldGroups \cap Sentinels = {}
  /\ FoldOutcomes \subseteq Outcome

VARIABLES
  observations,   \* those gone through
  matrix,         \* support_matrix(): peer_key -> group -> state
  seen,           \* inconsistencies(): group -> set of truth values
  found           \* negotiated_by_default(), _realistic(): <<>> or <<group>>

foldVars == <<observations, matrix, seen, found>>

\* dict[k] = v, and what dict.get(k, default) or dict.setdefault reads.
Put(dict, k, v) == [x \in DOMAIN dict \cup {k} |-> IF x = k THEN v ELSE dict[x]]
At(dict, k, default) == IF k \in DOMAIN dict THEN dict[k] ELSE default
Empty == [x \in {} |-> {}]

\* Mutant of UpdateRow: the rank is not compared.
UpdateRow_LastWins(row, group, new) == Put(row, group, new)

\* A cell is written when it is new or outranked.
UpdateRow(row, group, new) ==
  IF group \in DOMAIN row /\ Rank[new] <= Rank[row[group]] THEN row
  ELSE Put(row, group, new)

support_matrix_step(o) ==
  matrix' = IF GroupProbe(o)
            THEN Put(matrix, peer_key(o),
                     UpdateRow(At(matrix, peer_key(o), Empty), o.group_offered, Support(o)))
            ELSE matrix

\* Mutant of inconsistencies_step: a failed name lookup counts as an answer.
inconsistencies_step_CountsDns(o) ==
  seen' = IF GroupProbe(o)
          THEN Put(seen, o.group_offered, At(seen, o.group_offered, {}) \cup {succeeded(o)})
          ELSE seen

\* seen.setdefault(group, set()).add(succeeded)
inconsistencies_step(o) ==
  seen' = IF GroupProbe(o) /\ o.outcome \notin {"client_unsupported", "dns_failed", "connect_refused"}
          THEN Put(seen, o.group_offered, At(seen, o.group_offered, {}) \cup {succeeded(o)})
          ELSE seen

\* Mutant of negotiated_step: the loop does not return early.
negotiated_step_Last(o) ==
  found' = [ p \in DOMAIN found |->
               IF o.group_offered = p /\ succeeded(o)
               THEN <<o.negotiated_group>> ELSE found[p] ]

\* if obs.group_offered == ... and obs.succeeded: return obs.negotiated_group
negotiated_step(o) ==
  found' = [ p \in DOMAIN found |->
               IF found[p] = <<>> /\ o.group_offered = p /\ succeeded(o)
               THEN <<o.negotiated_group>> ELSE found[p] ]

-----------------------------------------------------------------------------

\* Everything a probe can leave behind: a certificate without a completed
\* handshake is what a stall behind the server's flight leaves.
Recordable ==
  { o \in [ group_offered : FoldGroups \cup Sentinels,
            outcome : FoldOutcomes,
            negotiated_group : FoldGroups \cup {None}, peer : FoldPeers \cup {None} ] :
      /\ o.outcome # "supported" => o.negotiated_group = None
      /\ o.outcome \in {"rejected", "dns_failed", "connect_refused"} => o.peer = None
      /\ o.group_offered = "__resolve__" => o.outcome = "dns_failed" }

Init ==
  /\ observations = <<>>
  /\ matrix = Empty /\ seen = Empty
  /\ found = [p \in {"__default__", "__realistic__"} |-> <<>>]

Iterate ==
  /\ Len(observations) < MaxObs
  /\ \E o \in Recordable :
       /\ observations' = Append(observations, o)
       /\ support_matrix_step(o) /\ inconsistencies_step(o) /\ negotiated_step(o)

Next == Iterate

Spec == Init /\ [][Next]_foldVars

-----------------------------------------------------------------------------

\* support_matrix's overwrite-if-outranked loop computes the best state of
\* each cell, whatever the order in which the observations came.
MatrixIsBestOf == matrix = support_matrix(observations)

\* inconsistencies() collects both truth values across peers and passes.
InconsistenciesAgree ==
  { g \in DOMAIN seen : Cardinality(seen[g]) > 1 } = inconsistencies(observations)

\* The negotiated group reported is that of the first completed handshake.
FirstNegotiatedAgrees ==
  /\ At(found["__default__"], 1, None) = negotiated_by_default(observations)
  /\ At(found["__realistic__"], 1, None) = negotiated_realistic(observations)
=============================================================================
