------------------------------- MODULE Report -------------------------------
(***************************************************************************)
(* What the text report says of an address (report.py): the groups each    *)
(* identified peer supports, rejects or was not observed on, the groups    *)
(* nothing is known about, and the inconsistent ones.  Layout is left out. *)
(***************************************************************************)
EXTENDS EndpointScan

States == {"observed_supported", "observed_rejected", "not_observed"}

\* The three lists of a peer; all are empty for one no group probe met.
_support_row(ev, peer) ==
  [ s \in States |-> { g \in RowGroups(ev, peer) : support_matrix(ev)[peer][g] = s } ]

\* Mutant of unseen: only the rows of identified peers are gone through.
unseen_Identified(ev) ==
  { g \in UNION { RowGroups(ev, p) : p \in RowPeers(ev) \cap peers(ev) } :
      \A p \in RowPeers(ev) \cap peers(ev) :
        g \in RowGroups(ev, p) => support_matrix(ev)[p][g] = "not_observed" }

\* Groups whose best state over all rows, the unidentified one included, is
\* that nothing was observed.
unseen(ev) ==
  { g \in UNION { RowGroups(ev, p) : p \in RowPeers(ev) } :
      \A p \in RowPeers(ev) :
        g \in RowGroups(ev, p) => support_matrix(ev)[p][g] = "not_observed" }

\* An address without a completed handshake gets a single line.
render_endpoint_evidence(ev) ==
  IF ~reachable(ev) THEN <<>>
  ELSE << [ rows |-> [p \in peers(ev) |-> _support_row(ev, p)],
            negotiated |-> IF negotiated_realistic(ev) # None
                           THEN negotiated_realistic(ev) ELSE negotiated_by_default(ev),
            not_observed |-> unseen(ev),
            inconsistent |-> inconsistencies(ev) ] >>

-----------------------------------------------------------------------------
(* What the report promises                                                *)

\* A peer answered a probe of the group, one way or the other.
Answered(g) ==
  \E i \in DOMAIN answered :
    /\ obs[i].group_offered = g
    /\ Undisturbed(i) /\ answered[i].stack.speaks # "nothing"

\* The local client had no TLS version to offer a probe of the group with.
Unoffered(g) ==
  \E i \in DOMAIN answered :
    obs[i].group_offered = g /\ answered[i].fault = "no_protocols"

\* report.py, render_endpoint_evidence: "Groups with no evidence either way
\* must stay visible".  The report of a reachable address says NOT OBSERVED of
\* exactly the groups that no peer answered a probe of and no probe of which
\* was refused by the local client for want of a TLS version, whatever cut the
\* others off; and a group it is silent about is one that a peer declined or
\* that such a probe was about.
OmissionsHaveCause ==
  phase = "done" =>
    \A i \in DOMAIN render_endpoint_evidence(obs) :
      LET text == render_endpoint_evidence(obs)[i]
          Shown(g) == \/ g \in text.not_observed
                      \/ \E p \in DOMAIN text.rows : \E s \in States : g \in text.rows[p][s]
      IN  \A g \in ToSet(Groups) :
            /\ g \in text.not_observed <=> ~(Answered(g) \/ Unoffered(g))
            /\ ~Shown(g) =>
                 \/ Unoffered(g)
                 \/ \E k \in DOMAIN answered :
                      /\ obs[k].group_offered = g /\ Undisturbed(k)
                      /\ ~Accepts(answered[k].stack, GroupHello(g))
=============================================================================
