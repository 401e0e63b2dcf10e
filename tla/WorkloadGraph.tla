---------------------------- MODULE WorkloadGraph ----------------------------
(***************************************************************************)
(* The LangGraph state machine that optimizes one workload's policy        *)
(* (agent_layer/graphs/workload.py), with one action per graph node.       *)
(*                                                                         *)
(* The environment the graph drives is behind the EnvironmentAdapter       *)
(* protocol.  Here it is as free as that protocol: it declares any policy, *)
(* reports any calls, passes or fails any verification with any denials,   *)
(* and may raise from every call that reaches outside the process.  What   *)
(* holds here holds for every adapter.  SimulatorWorkload and              *)
(* KubernetesWorkload add the state of the two adapters of the repository. *)
(*                                                                         *)
(* The trajectory a node records and the text of the failure reasoner      *)
(* decide nothing and are left out.                                        *)
(***************************************************************************)
EXTENDS Rbac

CONSTANTS
    Policies,      \* the policies an environment may declare
    Events,        \* the API calls a workload may make
    MaxRepairs     \* max_repair_iterations

ASSUME MaxRepairsAssumption == MaxRepairs \in Nat
ASSUME EventsAssumption == IsFiniteSet(Events)

VARIABLES
    node,                \* the node to run next, or "END" or "raised"
    original, current, lastGood, candidate,     \* the policies of the state
    observed,            \* observed_events
    result,              \* verification_result
    failure,             \* failure_details
    failureType,         \* failure_type
    retryCount,          \* retry_count
    incorrectRemovals,   \* incorrect_removals
    reductions,          \* reductions_attempted, _accepted and _rejected
    accepted,
    steps                \* the supersteps LangGraph has run

policyVars == <<original, current, lastGood, candidate>>
verificationVars == <<result, failure, failureType>>
counterVars == <<retryCount, incorrectRemovals, reductions>>
graphVars == <<node, policyVars, observed, verificationVars, counterVars, accepted, steps>>

-----------------------------------------------------------------------------

Terminal == {"END", "raised"}

Nodes == {"load_service_context", "inspect_rbac", "gather_evidence", "generate_candidate",
          "validate_candidate", "apply_candidate", "verify", "check_more_reductions",
          "final_verify", "diagnose_failure", "repair_policy", "restore_last_known_good",
          "human_review", "finalize_workload", "publish_result_event"}

\* interfaces/environment.py VerificationResult, without counts and output.
Results == [passed : BOOLEAN, denied : SUBSET Events]

\* interfaces/environment.py FailureDescription, without its summary.
NoFailure == [denial |-> FALSE, missing |-> {}]
Failures == [denial : BOOLEAN, missing : SUBSET Events]

\* describe_failure, which both adapters implement alike.
DescribeFailure(r) == [denial |-> r.denied # {}, missing |-> r.denied]

FailureTypes == {"none", "rbac", "unrelated", "unrecoverable"}

\* A node completes: the next node to run, and one more superstep.
Goto(here, next) ==
    /\ node = here
    /\ node' = next
    /\ steps' = steps + 1

-----------------------------------------------------------------------------

\* WorkloadGraph.run: the initial state.  The policies and the evidence are
\* absent from it until a node adds them.
GraphInit ==
    /\ node = "load_service_context"
    /\ original = {} /\ current = {} /\ lastGood = {} /\ candidate = {}
    /\ observed = {}
    /\ result = [passed |-> FALSE, denied |-> {}]
    /\ failure = NoFailure
    /\ failureType = "none"
    /\ retryCount = 0
    /\ incorrectRemovals = 0
    /\ reductions = [attempted |-> 0, accepted |-> 0, rejected |-> 0]
    /\ accepted = FALSE
    /\ steps = 0

\* Another call of WorkloadGraph.run for the same run and workload continues
\* the thread of the first one: LangGraph runs from the first node again, and
\* the keys that the initial state does not name keep their checkpointed
\* values.
GraphResume ==
    /\ node' = "load_service_context"
    /\ retryCount' = 0
    /\ incorrectRemovals' = 0
    /\ reductions' = [attempted |-> 0, accepted |-> 0, rejected |-> 0]
    /\ accepted' = FALSE
    /\ steps' = 0
    /\ UNCHANGED <<policyVars, observed, verificationVars>>

\* A call for another run is a new thread.
GraphRestart ==
    /\ node' = "load_service_context"
    /\ original' = {} /\ current' = {} /\ lastGood' = {} /\ candidate' = {}
    /\ observed' = {}
    /\ result' = [passed |-> FALSE, denied |-> {}]
    /\ failure' = NoFailure
    /\ failureType' = "none"
    /\ retryCount' = 0
    /\ incorrectRemovals' = 0
    /\ reductions' = [attempted |-> 0, accepted |-> 0, rejected |-> 0]
    /\ accepted' = FALSE
    /\ steps' = 0

LoadContext ==
    /\ Goto("load_service_context", "inspect_rbac")
    /\ UNCHANGED <<policyVars, observed, verificationVars, counterVars, accepted>>

Inspect(policy) ==
    /\ Goto("inspect_rbac", "gather_evidence")
    /\ original' = policy
    /\ current' = policy
    /\ lastGood' = policy
    /\ UNCHANGED <<candidate, observed, verificationVars, counterVars, accepted>>

Gather(events) ==
    /\ Goto("gather_evidence", "generate_candidate")
    /\ observed' = events
    /\ UNCHANGED <<policyVars, verificationVars, counterVars, accepted>>

Generate ==
    /\ CanReduce(original, observed)
    /\ Goto("generate_candidate", "validate_candidate")
    /\ candidate' = ObservedOnlyPolicy(observed)
    /\ reductions' = [reductions EXCEPT !.attempted = @ + 1]
    /\ UNCHANGED <<original, current, lastGood, observed, verificationVars,
                   retryCount, incorrectRemovals, accepted>>

\* The reducer refuses evidence that the declared policy does not allow.
GenerateRaises ==
    /\ ~CanReduce(original, observed)
    /\ Goto("generate_candidate", "raised")
    /\ UNCHANGED <<policyVars, observed, verificationVars, counterVars, accepted>>

\* Every permission of the candidate, read as a call, is authorized by the
\* original policy.
IsValidCandidate(cand, orig) == \A p \in cand : IsAuthorized(orig, p)

Validate ==
    /\ Goto("validate_candidate",
            IF IsValidCandidate(candidate, original) THEN "apply_candidate" ELSE "raised")
    /\ UNCHANGED <<policyVars, observed, verificationVars, counterVars, accepted>>

Apply ==
    /\ Goto("apply_candidate", "verify")
    /\ current' = candidate
    /\ UNCHANGED <<original, lastGood, candidate, observed, verificationVars,
                   counterVars, accepted>>

\* Mutant: the bound on the repairs is off by one.
RouteVerificationOffByOne(r, type) ==
    CASE r.passed                                             -> "check_more_reductions"
      [] ~r.passed /\ type = "rbac" /\ retryCount <= MaxRepairs  -> "diagnose_failure"
      [] OTHER                                                -> "restore_last_known_good"

\* Mutant: any verification that reports no denial counts as passed.
RouteVerificationByDenials(r, type) ==
    CASE r.denied = {}                                        -> "check_more_reductions"
      [] r.denied # {} /\ type = "rbac" /\ retryCount < MaxRepairs -> "diagnose_failure"
      [] OTHER                                                -> "restore_last_known_good"

RouteVerification(r, type) ==
    CASE r.passed                                             -> "check_more_reductions"
      [] ~r.passed /\ type = "rbac" /\ retryCount < MaxRepairs -> "diagnose_failure"
      [] OTHER                                                -> "restore_last_known_good"

\* describe_failure is asked only when the verification failed; a passing
\* verification clears the failure of an earlier one.
Verify(r) ==
    LET fail == IF r.passed THEN NoFailure ELSE DescribeFailure(r)
        type == CASE r.passed   -> "none"
                  [] ~r.passed /\ fail.denial  -> "rbac"
                  [] ~r.passed /\ ~fail.denial -> "unrelated"
    IN  /\ Goto("verify", RouteVerification(r, type))
        /\ result' = r
        /\ failure' = fail
        /\ failureType' = type
        /\ UNCHANGED <<policyVars, observed, counterVars, accepted>>

CheckMore ==
    /\ Goto("check_more_reductions", "final_verify")
    /\ UNCHANGED <<policyVars, observed, verificationVars, counterVars, accepted>>

FinalVerify ==
    /\ Goto("final_verify", "finalize_workload")
    /\ accepted' = TRUE
    /\ failureType' = "none"
    /\ UNCHANGED <<policyVars, observed, result, failure, counterVars>>

Diagnose ==
    /\ Goto("diagnose_failure", "repair_policy")
    /\ UNCHANGED <<policyVars, observed, verificationVars, counterVars, accepted>>

\* VerifierAgent.repair returns a policy, and it is larger than the candidate.
Repairable ==
    /\ failure.denial
    /\ failure.missing # {}
    /\ CanRepair(original, failure.missing)
    /\ RepairPolicy(candidate, failure.missing) # candidate

\* Mutant: the additions of the latest repair replace those of earlier ones.
RepairReplacingRemovals ==
    LET repaired == RepairPolicy(candidate, failure.missing)
    IN  /\ Repairable
        /\ Goto("repair_policy", "validate_candidate")
        /\ candidate' = repaired
        /\ retryCount' = retryCount + 1
        /\ incorrectRemovals' = Cardinality(repaired) - Cardinality(candidate)
        /\ UNCHANGED <<original, current, lastGood, observed, verificationVars,
                       reductions, accepted>>

\* A repair only adds, so the additions are the growth of the candidate.
Repair ==
    LET repaired == RepairPolicy(candidate, failure.missing)
    IN  /\ Repairable
        /\ Goto("repair_policy", "validate_candidate")
        /\ candidate' = repaired
        /\ retryCount' = retryCount + 1
        /\ incorrectRemovals' = incorrectRemovals + Cardinality(repaired) - Cardinality(candidate)
        /\ UNCHANGED <<original, current, lastGood, observed, verificationVars,
                       reductions, accepted>>

\* Mutant: a repair that adds nothing is neither taken nor refused.
RepairRefusedOnlyIfUnsafe ==
    /\ ~CanRepair(original, failure.missing)
    /\ Goto("repair_policy", "restore_last_known_good")
    /\ failureType' = "unrecoverable"
    /\ UNCHANGED <<policyVars, observed, result, failure, counterVars, accepted>>

RepairRefused ==
    /\ ~Repairable
    /\ Goto("repair_policy", "restore_last_known_good")
    /\ failureType' = "unrecoverable"
    /\ UNCHANGED <<policyVars, observed, result, failure, counterVars, accepted>>

Restore ==
    /\ Goto("restore_last_known_good", "human_review")
    /\ current' = lastGood
    /\ accepted' = FALSE
    /\ reductions' = [reductions EXCEPT !.rejected = @ + 1]
    /\ UNCHANGED <<original, lastGood, candidate, observed, verificationVars,
                   retryCount, incorrectRemovals>>

HumanReview ==
    /\ Goto("human_review", "finalize_workload")
    /\ UNCHANGED <<policyVars, observed, verificationVars, counterVars, accepted>>

Finalize ==
    /\ Goto("finalize_workload", "publish_result_event")
    /\ reductions' = [reductions EXCEPT !.accepted = IF accepted THEN 1 ELSE 0]
    /\ UNCHANGED <<policyVars, observed, verificationVars, retryCount, incorrectRemovals, accepted>>

PublishResult ==
    /\ Goto("publish_result_event", "END")
    /\ UNCHANGED <<policyVars, observed, verificationVars, counterVars, accepted>>

\* The nodes whose call of the environment reaches outside the process
\* (kubectl, the smoke command) and may fail or time out.
EnvironmentNodes == {"gather_evidence", "apply_candidate", "verify", "restore_last_known_good"}

\* An exception of the environment leaves the graph: no node catches it.
EnvironmentRaises ==
    /\ node \in EnvironmentNodes
    /\ Goto(node, "raised")
    /\ UNCHANGED <<policyVars, observed, verificationVars, counterVars, accepted>>

\* WorkloadGraph.run returns the policy the workload is left with.
FinalPolicy == IF accepted THEN current ELSE original

\* The steps that need nothing from the environment.
GraphStep ==
    \/ LoadContext \/ Generate \/ GenerateRaises \/ Validate \/ CheckMore \/ FinalVerify
    \/ Diagnose \/ Repair \/ RepairRefused \/ HumanReview \/ Finalize \/ PublishResult

GraphNext ==
    \/ GraphStep
    \/ \E policy \in Policies : Inspect(policy)
    \/ \E events \in SUBSET Events : Gather(events)
    \/ \E r \in Results : Verify(r)
    \/ Apply
    \/ Restore
    \/ EnvironmentRaises

\* Nodes run one after the other on one thread, and every call that leaves
\* the process carries a timeout, so a node that is due is run.
GraphSpec == GraphInit /\ [][GraphNext]_graphVars /\ WF_graphVars(GraphNext)

-----------------------------------------------------------------------------
(* Properties of the graph in every environment.                           *)

CandidatePermissions == {EventPermission(e) : e \in Events}

TypeOK ==
    /\ node \in Nodes \cup Terminal
    /\ original \in Policies \cup {{}}
    /\ current \in Policies \cup SUBSET CandidatePermissions
    /\ lastGood \in Policies \cup {{}}
    /\ candidate \in SUBSET CandidatePermissions
    /\ observed \in SUBSET Events
    /\ result \in Results
    /\ failure \in Failures
    /\ failureType \in FailureTypes
    /\ retryCount \in 0 .. MaxRepairs
    /\ incorrectRemovals \in Nat
    /\ reductions \in [attempted : 0 .. 1, accepted : 0 .. 1, rejected : 0 .. 1]
    /\ accepted \in BOOLEAN
    /\ steps \in Nat

\* Whatever is observed, denied and repaired, the candidate never allows a
\* call that the original policy does not allow, including calls nobody
\* observed or tested (observed_only_policy, repair_policy, validate).
CandidateWithinOriginal ==
    \A e \in Events : IsAuthorized(candidate, e) => IsAuthorized(original, e)

\* validate_candidate, the guard against capabilities absent from the
\* original policy, never has to raise: reducer and repair keep to them.
ValidationNeverFails ==
    node = "validate_candidate" => IsValidCandidate(candidate, original)

\* A run is accepted only for the policy whose latest verification passed,
\* and that policy is the one the run returns as final.
AcceptedOnlyIfVerified ==
    accepted => /\ result.passed
                /\ FinalPolicy = candidate
                /\ failure = NoFailure

\* The reported incorrect removals are the permissions of the candidate that
\* the observed calls did not ask for: summed over all repairs, nothing is
\* counted twice or forgotten (repair's additions).
RemovalsAccountedFor ==
    (node \in Nodes \cup {"END"} /\ reductions.attempted = 1) =>
        /\ ObservedOnlyPolicy(observed) \subseteq candidate
        /\ incorrectRemovals = Cardinality(candidate \ ObservedOnlyPolicy(observed))
        /\ incorrectRemovals >= retryCount

\* A run that ends has attempted one reduction and has either accepted or
\* rejected it, as its result says.
OutcomeIsDecided ==
    node = "END" => /\ reductions.attempted = 1
                    /\ reductions.accepted + reductions.rejected = 1
                    /\ reductions.accepted = 1 <=> accepted
                    /\ ~accepted => current = original

\* LangGraph runs at most eleven nodes and five more per repair: the number
\* of supersteps, which the library limits, is bounded by the repair bound.
StepsAreBounded == steps <= 11 + 5 * MaxRepairs

\* Once proposed, a candidate only grows: a repair never takes back what an
\* observation or an earlier repair granted.
CandidateOnlyGrows == [][candidate \subseteq candidate']_graphVars

\* Every run ends, with a result or with an exception.
EventuallyEnds == <>(node \in Terminal)
=============================================================================
