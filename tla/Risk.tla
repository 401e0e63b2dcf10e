-------------------------------- MODULE Risk --------------------------------
(***************************************************************************)
(* The risk heuristic (rules_engine/risk) and the permissions a reduction  *)
(* may drop (rules_engine/minimizer/candidates.py).                        *)
(*                                                                         *)
(* The provenance of a permission counts: one that a ClusterRoleBinding    *)
(* grants, which is one without namespace in a policy resolved from        *)
(* documents, scores higher than the same permission in a candidate.       *)
(***************************************************************************)
EXTENDS Rbac, FiniteSetsExt

\* The provenance of a policy.
Resolved == "resolved"      \* from the documents of a manifest
Candidate == "candidate"    \* from calls (event_permission)

MutatingVerbs == {"create", "update", "patch", "delete", Wild}

RbacResources == {"roles", "clusterroles", "rolebindings", "clusterrolebindings"}

\* A signal of permission_risk_signals: its points if it applies.
Signal(applies, points) == IF applies THEN points ELSE 0

\* Mutant: a wildcard resource is no signal while the API group is named.
PermissionRiskNamedGroup(p, provenance) ==
      Signal(p.verb = Wild, 20)
    + Signal(p.resource = Wild /\ p.group = Wild, 25)
    + Signal(p.namespace = None, 8)
    + Signal(p.namespace = None /\ provenance = Resolved, 5)
    + Signal(p.resource = "secrets", IF p.verb \in {"get", "list", "watch", Wild} THEN 8 ELSE 12)
    + Signal(p.verb \in MutatingVerbs, 4)
    + Signal(p.verb \in {"delete", Wild}, 5)
    + Signal(p.resource \in RbacResources, 20)

\* The points of a permission, summed over its signals.
PermissionRisk(p, provenance) ==
      Signal(p.verb = Wild, 20)
    + Signal(p.resource = Wild \/ p.group = Wild, 25)
    + Signal(p.namespace = None, 8)
    + Signal(p.namespace = None /\ provenance = Resolved, 5)
    + Signal(p.resource = "secrets", IF p.verb \in {"get", "list", "watch", Wild} THEN 8 ELSE 12)
    + Signal(p.verb \in MutatingVerbs, 4)
    + Signal(p.verb \in {"delete", Wild}, 5)
    + Signal(p.resource \in RbacResources, 20)

UncappedScore(policy, provenance) ==
    MapThenSumSet(LAMBDA p : PermissionRisk(p, provenance), policy)

\* score_policy
Score(policy, provenance) == Min({100, UncappedScore(policy, provenance)})

\* candidate_reductions: the permissions that no observed call needs.  They
\* are listed riskiest first, which is left out.
CandidateReductions(policy, observed) ==
    {p \in policy : \A e \in observed : ~IsAuthorized({p}, e)}
=============================================================================
