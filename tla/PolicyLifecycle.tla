-------------------------- MODULE PolicyLifecycle ---------------------------
(***************************************************************************)
(* What the optimization of a workload promises to whoever runs the        *)
(* workload, whatever the graph, the adapter and the tests do in between.  *)
(*                                                                         *)
(* The workload starts under its original policy.  It may be put under     *)
(* trial policies, each of them within the original and each allowing at   *)
(* least what the one before allowed.  In the end either the policy on     *)
(* trial is kept, if it serves the workload, or the original is back.      *)
(***************************************************************************)
EXTENDS Rbac

CONSTANT Events    \* the calls that are told apart

VARIABLES
    policy,      \* the policy the workload is under
    original,    \* the policy it started with
    needs,       \* the calls the workload must be able to make
    stage        \* "original", "trial", "kept" or "restored"

lifecycleVars == <<policy, original, needs, stage>>

\* Every call that p allows is allowed by q.
Within(p, q) == \A e \in Events : IsAuthorized(p, e) => IsAuthorized(q, e)

\* The workload can do its work under p.
Serves(p) == \A e \in needs : IsAuthorized(p, e)

LifecycleInit == stage = "original" /\ policy = original

Try ==
    /\ stage \in {"original", "trial"}
    /\ stage' = "trial"
    /\ Within(policy', original)
    /\ stage = "trial" => Within(policy, policy')
    /\ UNCHANGED <<original, needs>>

Keep ==
    /\ stage = "trial" /\ Serves(policy)
    /\ stage' = "kept"
    /\ UNCHANGED <<policy, original, needs>>

GiveBack ==
    /\ stage \in {"original", "trial"}
    /\ stage' = "restored"
    /\ policy' = original
    /\ UNCHANGED <<original, needs>>

LifecycleNext == Try \/ Keep \/ GiveBack

LifecycleSpec == LifecycleInit /\ [][LifecycleNext]_lifecycleVars
=============================================================================
