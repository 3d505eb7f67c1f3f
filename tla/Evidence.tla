------------------------------ MODULE Evidence ------------------------------
(***************************************************************************)
(* What may be read off the observations of one address (evidence.py).     *)
(* Nothing here is stored: every operator is a function of the sequence of *)
(* observations, computed when somebody asks.  The loops of the code are   *)
(* stated by their result; EvidenceFold runs them literally, and shows     *)
(* that the two agree.                                                     *)
(***************************************************************************)
EXTENDS Models, Integers, FiniteSets

\* group_offered of the probes that are not about one group ("__...").
Sentinels == {"__default__", "__realistic__", "__resolve__"}
GroupProbe(o) == o.group_offered \notin Sentinels

succeeded(o) == o.outcome = "supported"
peer_key(o)  == IF o.peer = None THEN Unidentified ELSE o.peer

\* Mutant of peers: peers without a certificate count as an identity.
peers_KeepUnidentified(obs) == { peer_key(obs[i]) : i \in DOMAIN obs }

peers(obs) == { obs[i].peer : i \in DOMAIN obs } \ {None}
distinct_peer_count(obs) == Cardinality(peers(obs))

-----------------------------------------------------------------------------
(* The support matrix                                                      *)

Rank == [not_observed |-> 0, observed_rejected |-> 1, observed_supported |-> 2]

\* Mutant of Support: whatever is not a success was refused.
Support_SilenceIsRefusal(o) ==
  IF succeeded(o) THEN "observed_supported" ELSE "observed_rejected"

Support(o) ==
  IF succeeded(o) THEN "observed_supported"
  ELSE IF o.outcome \in {"rejected", "protocol_unsupported"}
  THEN "observed_rejected"
  ELSE "not_observed"

\* The probes of one group that one peer (or nobody known) answered.
Attempts(obs, peer, group) ==
  { i \in DOMAIN obs : /\ GroupProbe(obs[i])
                       /\ peer_key(obs[i]) = peer
                       /\ obs[i].group_offered = group }

\* One success outranks any refusal, a refusal outranks silence.
Best(states) == CHOOSE s \in states : \A t \in states : Rank[t] <= Rank[s]

\* Mutant of Cell: the latest answer wins.
Cell_LastWins(obs, peer, group) ==
  Support(obs[Max(Attempts(obs, peer, group))])

Cell(obs, peer, group) ==
  Best({ Support(obs[i]) : i \in Attempts(obs, peer, group) })

RowPeers(obs) == { peer_key(obs[i]) : i \in {j \in DOMAIN obs : GroupProbe(obs[j])} }

RowGroups(obs, peer) ==
  { obs[i].group_offered :
      i \in {j \in DOMAIN obs : GroupProbe(obs[j]) /\ peer_key(obs[j]) = peer} }

support_matrix(obs) ==
  [ p \in RowPeers(obs) |-> [ g \in RowGroups(obs, p) |-> Cell(obs, p, g) ] ]

groups_observed_supported(obs) ==
  UNION { { g \in RowGroups(obs, p) : support_matrix(obs)[p][g] = "observed_supported" }
          : p \in RowPeers(obs) }

-----------------------------------------------------------------------------
(* Consistency and reachability                                            *)

\* Mutant of Telling: a refused port counts as an answer.
Telling_KeepsRefused(o) ==
  GroupProbe(o) /\ o.outcome \notin {"client_unsupported", "dns_failed"}

\* Group probes that say something about the peer's configuration.
Telling(o) ==
  /\ GroupProbe(o)
  /\ o.outcome \notin {"client_unsupported", "dns_failed", "connect_refused"}

\* Mutant of inconsistencies: answers are compared peer by peer.
inconsistencies_PerPeer(obs) ==
  { g \in { obs[i].group_offered : i \in DOMAIN obs } :
      \E i, j \in DOMAIN obs :
        /\ obs[i].group_offered = g /\ Telling(obs[i]) /\ succeeded(obs[i])
        /\ obs[j].group_offered = g /\ Telling(obs[j]) /\ ~succeeded(obs[j])
        /\ peer_key(obs[i]) = peer_key(obs[j]) }

\* Mutant of inconsistencies: one set of outcomes for all groups.
inconsistencies_AnyGroup(obs) ==
  { g \in { obs[i].group_offered : i \in DOMAIN obs } :
      \E i, j \in DOMAIN obs :
        /\ obs[i].group_offered = g /\ Telling(obs[i]) /\ succeeded(obs[i])
        /\ Telling(obs[j]) /\ ~succeeded(obs[j]) }

inconsistencies(obs) ==
  { g \in { obs[i].group_offered : i \in DOMAIN obs } :
      \E i, j \in DOMAIN obs :
        /\ obs[i].group_offered = g /\ Telling(obs[i]) /\ succeeded(obs[i])
        /\ obs[j].group_offered = g /\ Telling(obs[j]) /\ ~succeeded(obs[j]) }

reachable(obs) == \E i \in DOMAIN obs : succeeded(obs[i])

\* The group of the first completed handshake of one kind of probe.
FirstNegotiated(obs, probe) ==
  LET done == { i \in DOMAIN obs : obs[i].group_offered = probe /\ succeeded(obs[i]) }
  IN  IF done = {} THEN None
      ELSE obs[CHOOSE i \in done : \A j \in done : i <= j].negotiated_group

negotiated_by_default(obs) == FirstNegotiated(obs, "__default__")
negotiated_realistic(obs)  == FirstNegotiated(obs, "__realistic__")

\* Whether the repeat count plausibly saw the whole pool.
coverage_note(passes, distinctPeers) ==
  IF distinctPeers <= 1
  THEN IF passes <= 1 THEN "one_pass_one_identity" ELSE "all_passes_one_identity"
  ELSE IF passes < distinctPeers * 3 THEN "likely_incomplete" ELSE None
=============================================================================
