----------------------------- MODULE Evaluation -----------------------------
(***************************************************************************)
(* The judge's comparison of Kuber with the observed-only baseline on one  *)
(* benchmark case (judge_layer/evaluation/compare.py).  The baseline is    *)
(* computed at once; Kuber is the run of the workload graph.               *)
(*                                                                         *)
(* The two share the initial risk and the initial permission count, so     *)
(* that percentages of them compare like the points and permissions that   *)
(* are removed, which stand for them.  Run times are left out.             *)
(***************************************************************************)
EXTENDS SimulatorWorkload, Risk

\* A policy lists its permissions; only permissions have wildcards, a call
\* names its group and its resource.
ASSUME CasesAssumption ==
    /\ \A policy \in Policies : IsFiniteSet(policy)
    /\ \A e \in Events : e.group # Wild /\ e.resource # Wild

HighRiskCount(policy) ==
    Cardinality({p \in policy : \/ p.verb \in {Wild, "create", "delete"}
                                \/ p.resource \in {Wild, "secrets"}})

ClusterWideCount(policy) ==
    Cardinality({p \in ExpandPolicy(policy) : p.namespace = None})

\* Mutant: a risk reduction is counted whether or not the tests passed.
MetricsUnvalidated(initial, final, provenance, success, incorrect, repairs) ==
    LET riskRemoved == Score(initial, Resolved) - Score(final, provenance)
    IN  [success |-> success,
         riskRemoved |-> riskRemoved,
         validatedRiskRemoved |-> riskRemoved,
         permissionsRemoved |-> EffectivePermissionCount(initial) - EffectivePermissionCount(final),
         permissions |-> EffectivePermissionCount(final),
         highRisk |-> HighRiskCount(final),
         clusterWide |-> ClusterWideCount(final),
         incorrect |-> incorrect,
         repairs |-> repairs]

\* _metrics
Metrics(initial, final, provenance, success, incorrect, repairs) ==
    LET riskRemoved == Score(initial, Resolved) - Score(final, provenance)
    IN  [success |-> success,
         riskRemoved |-> riskRemoved,
         validatedRiskRemoved |-> IF success THEN riskRemoved ELSE 0,
         permissionsRemoved |-> EffectivePermissionCount(initial) - EffectivePermissionCount(final),
         permissions |-> EffectivePermissionCount(final),
         highRisk |-> HighRiskCount(final),
         clusterWide |-> ClusterWideCount(final),
         incorrect |-> incorrect,
         repairs |-> repairs]

\* evaluate_baseline: the observed-only policy, applied to a simulator of its
\* own and verified once.  It raises where the reducer does.
BaselineMetrics ==
    LET policy == ObservedOnlyPolicy(case.observed)
    IN  Metrics(case.policy, policy, Candidate, Denied(policy) = {}, 0, 0)

\* evaluate_kuber: the result of the graph's run.
KuberMetrics ==
    Metrics(case.policy, FinalPolicy, IF accepted THEN Candidate ELSE Resolved,
            result.passed /\ accepted, incorrectRemovals, retryCount)

-----------------------------------------------------------------------------

\* The rows of a case agree with each other, whichever way the run went.
\* Where the baseline passes, Kuber reports the very same numbers.  Where
\* Kuber succeeds, the permissions it keeps beyond the baseline's are the
\* incorrect removals it owns up to, and it repaired only if the baseline
\* fails.  Where it gives up it claims nothing: nothing is removed, and the
\* baseline has failed too.
ReportedMetricsAgree ==
    node = "END" =>
        /\ BaselineMetrics.success => KuberMetrics = BaselineMetrics
        /\ KuberMetrics.success =>
              /\ KuberMetrics.permissions = BaselineMetrics.permissions + KuberMetrics.incorrect
              /\ KuberMetrics.repairs > 0 <=> ~BaselineMetrics.success
        /\ ~KuberMetrics.success =>
              /\ KuberMetrics.riskRemoved = 0 /\ KuberMetrics.permissionsRemoved = 0
              /\ BaselineMetrics.validatedRiskRemoved = 0
=============================================================================
