-------------------------- MODULE SimulatorWorkload --------------------------
(***************************************************************************)
(* The workload graph driving the benchmark simulator                      *)
(* (judge_layer/simulator/environment.py): a policy in memory, fixed       *)
(* observed calls, and verification tests that make fixed calls.           *)
(*                                                                         *)
(* A verification passes if no test has a denied call, so only the union   *)
(* of the tests' calls matters to the graph; it is called required.        *)
(***************************************************************************)
EXTENDS WorkloadGraph

VARIABLES
    case,    \* the BenchmarkCase: initial policy, observed and required calls
    live     \* the policy the simulated cluster enforces (_current_policy)

vars == <<graphVars, case, live>>

Cases == [policy : Policies, observed : SUBSET Events, required : SUBSET Events]

\* SimulatorEnvironment.verify_workload
Denied(policy) == {e \in case.required : ~IsAuthorized(policy, e)}

\* Mutant: a test run stops at its first denial.
SimulatedResultFirstDenial ==
    [passed |-> Denied(live) = {},
     denied |-> IF Denied(live) = {} THEN {} ELSE {CHOOSE e \in Denied(live) : TRUE}]

SimulatedResult == [passed |-> Denied(live) = {}, denied |-> Denied(live)]

SimulatorInit ==
    /\ GraphInit
    /\ case \in Cases
    /\ live = case.policy

SimulatorInspect == Inspect(live) /\ UNCHANGED <<case, live>>

SimulatorGather == Gather(case.observed) /\ UNCHANGED <<case, live>>

SimulatorApply ==
    /\ Apply
    /\ live' = candidate
    /\ UNCHANGED case

SimulatorVerify == Verify(SimulatedResult) /\ UNCHANGED <<case, live>>

\* Mutant: restore is left to the graph's own state.
SimulatorRestoreForgotten == Restore /\ UNCHANGED <<case, live>>

SimulatorRestore ==
    /\ Restore
    /\ live' = case.policy
    /\ UNCHANGED case

SimulatorNext ==
    \/ GraphStep /\ UNCHANGED <<case, live>>
    \/ SimulatorInspect
    \/ SimulatorGather
    \/ SimulatorApply
    \/ SimulatorVerify
    \/ SimulatorRestore

\* The simulator is plain computation on one thread: it always returns.
SimulatorSpec == SimulatorInit /\ [][SimulatorNext]_vars /\ WF_vars(SimulatorNext)

-----------------------------------------------------------------------------

\* A run leaves the cluster enforcing the policy it reports: one that lets
\* every declared test through if it was accepted, and otherwise the policy
\* that the cluster had before.
ReportedPolicyIsEnforced ==
    node = "END" =>
        /\ live = FinalPolicy
        /\ IF accepted THEN Denied(live) = {} ELSE live = case.policy

\* The case could be served: the evidence is usable and the original policy
\* lets every test through with supported calls.
Servable ==
    /\ CanReduce(case.policy, case.observed)
    /\ CanRepair(case.policy, case.required)

\* The minimizer gives up only when it must.  All denials of a verification
\* are reported together, so one repair is enough: a run that ends without
\* acceptance had an unservable case or no repair to spend, and no run
\* repairs twice.
GivesUpOnlyIfUnservable ==
    /\ retryCount <= 1
    /\ (node = "END" /\ ~accepted) => (~Servable \/ MaxRepairs = 0)
    /\ node = "raised" => ~CanReduce(case.policy, case.observed)

\* The final policy grants no more than the tests and the observed calls
\* need: it is the least policy for them, whatever else the original allowed.
AcceptedPolicyIsLeast ==
    (node = "END" /\ accepted) =>
        FinalPolicy \subseteq ObservedOnlyPolicy(case.observed \cup case.required)

\* Every run ends, and every case is decided rightly: with a repair to spend,
\* exactly the servable cases are accepted, and for good.
EveryCaseIsDecided ==
    <>[](/\ node \in Terminal
         /\ MaxRepairs > 0 => ((node = "END" /\ accepted) <=> Servable))

\* Where the workload stands in the life of its policy.
Stage ==
    CASE node \in {"load_service_context", "inspect_rbac", "gather_evidence", "generate_candidate"} -> "original"
      [] node \in {"validate_candidate", "apply_candidate"} -> IF retryCount = 0 THEN "original" ELSE "trial"
      [] node \in {"verify", "check_more_reductions", "final_verify", "diagnose_failure",
                   "repair_policy", "restore_last_known_good"} -> "trial"
      [] node \in {"human_review", "raised"} -> "restored"
      [] node \in {"finalize_workload", "publish_result_event", "END"} ->
            IF accepted THEN "kept" ELSE "restored"

Lifecycle == INSTANCE PolicyLifecycle WITH
    policy <- live, original <- case.policy, needs <- case.required, stage <- Stage

\* The graph with the simulator implements PolicyLifecycle: the workload is
\* only ever put under policies within its original one, a later trial never
\* takes away what an earlier one allowed, and it ends either under a policy
\* that serves it or under its original one.
ImplementsLifecycle == Lifecycle!LifecycleSpec
=============================================================================
