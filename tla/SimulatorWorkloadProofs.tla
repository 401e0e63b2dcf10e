----------------------- MODULE SimulatorWorkloadProofs -----------------------
(***************************************************************************)
(* The optimization of a benchmark case, for every case: the simulated     *)
(* workload implements the graph, and its runs are sound, complete and     *)
(* minimal with respect to the declared tests.                             *)
(*                                                                         *)
(* SimulatorInv adds to the invariant of the graph how the simulated       *)
(* cluster follows the graph's state (Synchronized), what is known of the  *)
(* candidate after a verification and after a repair (Tested), why a run   *)
(* gives up (Justified) and what the candidate is made of (Minimal).       *)
(***************************************************************************)
EXTENDS Evaluation, WorkloadGraphProofs

\* The simulated cluster enforces the graph's current policy.
Synchronized ==
    /\ case \in Cases
    /\ node \in {"load_service_context", "inspect_rbac"} => live = case.policy
    /\ node \notin {"load_service_context", "inspect_rbac"} =>
          live = current /\ original = case.policy
    /\ node \notin {"load_service_context", "inspect_rbac", "gather_evidence"} =>
          observed = case.observed

\* One repair makes every test pass.
Tested ==
    /\ retryCount > 0 => retryCount = 1 /\ Denied(candidate) = {}
    /\ (accepted \/ node \in {"check_more_reductions", "final_verify"}) => Denied(candidate) = {}
    /\ node \in {"diagnose_failure", "repair_policy"} =>
          /\ retryCount = 0
          /\ Denied(candidate) # {}
          /\ failure.denial
          /\ failure.missing = Denied(candidate)

Justified ==
    /\ (\/ node \in {"restore_last_known_good", "human_review"}
        \/ node \in Closing /\ ~accepted) => (~Servable \/ MaxRepairs = 0)
    /\ node = "raised" => ~CanReduce(case.policy, case.observed)

Minimal == candidate \subseteq ObservedOnlyPolicy(case.observed \cup case.required)

SimulatorInv == GraphInv /\ Synchronized /\ Tested /\ Justified /\ Minimal

-----------------------------------------------------------------------------

\* The calls a policy denies are calls of the case.
LEMMA DeniedCalls ==
    ASSUME case \in Cases, NEW policy
    PROVE  Denied(policy) \in SUBSET Events
BY DEF Denied, Cases

\* Each step of the simulated workload is a step of the graph.
LEMMA SimulatorStepIsGraphStep ==
    ASSUME GraphInv, Synchronized, [SimulatorNext]_vars
    PROVE  [GraphNext]_graphVars
<1>1. CASE GraphStep /\ UNCHANGED <<case, live>>
  BY <1>1 DEF GraphNext
<1>2. CASE SimulatorInspect
  BY <1>2 DEF SimulatorInspect, Inspect, Goto, GraphNext, Synchronized, Cases
<1>3. CASE SimulatorGather
  BY <1>3 DEF SimulatorGather, GraphNext, Synchronized, Cases
<1>4. CASE SimulatorApply
  BY <1>4 DEF SimulatorApply, GraphNext
<1>5. CASE SimulatorVerify
  <2>1. SimulatedResult \in Results
    BY DeniedCalls DEF SimulatedResult, Results, Synchronized
  <2> QED
    BY <1>5, <2>1 DEF SimulatorVerify, GraphNext
<1>6. CASE SimulatorRestore
  BY <1>6 DEF SimulatorRestore, GraphNext
<1>7. CASE UNCHANGED vars
  BY <1>7 DEF vars
<1> QED
  BY <1>1, <1>2, <1>3, <1>4, <1>5, <1>6, <1>7 DEF SimulatorNext

\* The initial states satisfy the invariant.
LEMMA SimulatorInitEstablishesInv == SimulatorInit => SimulatorInv
<1> SUFFICES ASSUME SimulatorInit PROVE SimulatorInv
  OBVIOUS
<1>1. GraphInv
  BY InitEstablishesInv DEF SimulatorInit
<1> QED
  BY <1>1 DEF SimulatorInit, GraphInit, SimulatorInv, Synchronized, Tested, Justified, Minimal,
              Closing

\* The cluster follows the current policy of the graph.
LEMMA SynchronizedIsPreserved ==
    ASSUME GraphInv, Synchronized, [SimulatorNext]_vars
    PROVE  Synchronized'
<1> USE DEF Synchronized, Goto, policyVars, verificationVars, counterVars, GraphInv, TypeOK, Nodes,
            Terminal
<1>1. CASE GraphStep /\ UNCHANGED <<case, live>>
  BY <1>1 DEF GraphStep, LoadContext, Generate, GenerateRaises, Validate, CheckMore, FinalVerify,
              Diagnose, Repair, RepairRefused, HumanReview, Finalize, PublishResult
<1>2. CASE SimulatorInspect
  BY <1>2 DEF SimulatorInspect, Inspect
<1>3. CASE SimulatorGather
  BY <1>3 DEF SimulatorGather, Gather
<1>4. CASE SimulatorApply
  BY <1>4 DEF SimulatorApply, Apply
<1>5. CASE SimulatorVerify
  <2>1. node' \in {"check_more_reductions", "diagnose_failure", "restore_last_known_good"}
    BY <1>5 DEF SimulatorVerify, Verify, RouteVerification
  <2> QED
    BY <1>5, <2>1 DEF SimulatorVerify, Verify
<1>6. CASE SimulatorRestore
  BY <1>6 DEF SimulatorRestore, Restore, Policy
<1>7. CASE UNCHANGED vars
  BY <1>7 DEF vars, graphVars
<1> QED
  BY <1>1, <1>2, <1>3, <1>4, <1>5, <1>6, <1>7 DEF SimulatorNext

\* What a verification of the candidate tells, and where the run goes on.
LEMMA VerificationTells ==
    ASSUME GraphInv, Synchronized, Tested, SimulatorVerify
    PROVE  /\ UNCHANGED <<case, candidate, retryCount, accepted, original, observed>>
           /\ node = "verify" /\ ~accepted
           /\ \/ node' = "check_more_reductions" /\ Denied(candidate) = {}
              \/ /\ node' = "diagnose_failure" /\ Denied(candidate) # {} /\ retryCount = 0
                 /\ failure'.denial /\ failure'.missing = Denied(candidate)
              \/ /\ node' = "restore_last_known_good" /\ MaxRepairs = 0
                 /\ Denied(candidate) # {} /\ retryCount = 0
<1>1. /\ node = "verify" /\ live = candidate /\ ~accepted
      /\ retryCount \in Nat /\ retryCount <= MaxRepairs
  BY DEF SimulatorVerify, Verify, Goto, GraphInv, TypeOK, Phase, Policy, Synchronized, Closing
<1>2. retryCount > 0 => retryCount = 1 /\ Denied(live) = {}
  BY <1>1 DEF Tested
<1>3. UNCHANGED <<case, candidate, retryCount, accepted, original, observed>>
  BY DEF SimulatorVerify, Verify, policyVars, counterVars
<1>4. CASE Denied(live) = {}
  BY <1>1, <1>3, <1>4 DEF SimulatorVerify, Verify, Goto, SimulatedResult, RouteVerification
<1>5. CASE Denied(live) # {}
  <2>1. retryCount = 0
    BY <1>1, <1>2, <1>5
  <2>2. failure' = DescribeFailure(SimulatedResult)
    BY <1>5 DEF SimulatorVerify, Verify, SimulatedResult
  <2>3. failure'.denial /\ failure'.missing = Denied(live)
    BY <1>5, <2>2 DEF DescribeFailure, SimulatedResult
  <2>4. ~SimulatedResult.passed /\ DescribeFailure(SimulatedResult).denial
    BY <1>5 DEF DescribeFailure, SimulatedResult
  <2>5. node' = RouteVerification(SimulatedResult, "rbac")
    BY <2>4 DEF SimulatorVerify, Verify, Goto
  <2>6. CASE retryCount < MaxRepairs
    <3>1. node' = "diagnose_failure"
      BY <2>4, <2>5, <2>6 DEF RouteVerification
    <3> QED
      BY <1>1, <1>3, <1>5, <2>1, <2>3, <3>1
  <2>7. CASE ~(retryCount < MaxRepairs)
    <3>1. node' = "restore_last_known_good"
      BY <2>4, <2>5, <2>7 DEF RouteVerification
    <3>2. MaxRepairs = 0
      BY <2>1, <2>7, MaxRepairsAssumption
    <3> QED
      BY <1>1, <1>3, <1>5, <2>1, <3>1, <3>2
  <2> QED
    BY <2>6, <2>7
<1> QED
  BY <1>4, <1>5

\* A repair restores every call of the tests that the candidate denied.
LEMMA RepairPassesTests ==
    ASSUME Synchronized, Tested, Repair
    PROVE  case' = case => Denied(candidate)' = {}
<1> SUFFICES ASSUME case' = case PROVE Denied(candidate)' = {}
  OBVIOUS
<1>1. candidate' = RepairPolicy(candidate, Denied(candidate))
  BY DEF Repair, Goto, Tested
<1>2. ASSUME NEW e \in case.required PROVE IsAuthorized(candidate', e)
  <2>1. CASE IsAuthorized(candidate, e)
    BY <1>1, <2>1 DEF IsAuthorized, RepairPolicy
  <2>2. CASE ~IsAuthorized(candidate, e)
    BY <1>1, <2>2, EventPermissionMatches DEF IsAuthorized, RepairPolicy, Denied
  <2> QED
    BY <2>1, <2>2
<1> QED
  BY <1>2 DEF Denied

\* One repair makes every test pass, whatever the case.
LEMMA TestedIsPreserved ==
    ASSUME GraphInv, Synchronized, Tested, [SimulatorNext]_vars
    PROVE  Tested'
<1> USE DEF Goto, policyVars, verificationVars, counterVars
<1>1. CASE GraphStep /\ UNCHANGED <<case, live>>
  <2>1. CASE Repair
    <3>1. retryCount' = 1 /\ node' = "validate_candidate" /\ ~accepted'
      BY <2>1 DEF Repair, Tested, GraphInv, Phase, Closing
    <3>2. Denied(candidate)' = {}
      BY <1>1, <2>1, RepairPassesTests
    <3> QED
      BY <3>1, <3>2 DEF Tested
  <2>2. CASE Generate
    <3>1. retryCount' = 0 /\ node' = "validate_candidate" /\ ~accepted'
      BY <2>2 DEF Generate, GraphInv, Phase, PreGenerate, Closing
    <3> QED
      BY <3>1 DEF Tested
  <2>3. CASE ~Repair /\ ~Generate
    BY <1>1, <2>3 DEF Tested, Denied, GraphStep, LoadContext, GenerateRaises, Validate, CheckMore,
                      FinalVerify, Diagnose, RepairRefused, HumanReview, Finalize, PublishResult
  <2> QED
    BY <2>1, <2>2, <2>3
<1>2. CASE SimulatorInspect
  BY <1>2 DEF SimulatorInspect, Inspect, Tested, Denied
<1>3. CASE SimulatorGather
  BY <1>3 DEF SimulatorGather, Gather, Tested, Denied
<1>4. CASE SimulatorApply
  BY <1>4 DEF SimulatorApply, Apply, Tested, Denied
<1>5. CASE SimulatorVerify
  BY <1>5, VerificationTells DEF Tested, Denied
<1>6. CASE SimulatorRestore
  BY <1>6 DEF SimulatorRestore, Restore, Tested, Denied
<1>7. CASE UNCHANGED vars
  BY <1>7 DEF vars, graphVars, Tested, Denied
<1> QED
  BY <1>1, <1>2, <1>3, <1>4, <1>5, <1>6, <1>7 DEF SimulatorNext

\* A repair of the tests' denials is refused only if the case is not
\* servable: the candidate never holds already what a denied call needs.
LEMMA RefusalMeansUnservable ==
    ASSUME Synchronized, Tested, RepairRefused
    PROVE  ~Servable
<1>1. /\ failure.denial
      /\ failure.missing = Denied(candidate)
      /\ Denied(candidate) # {}
      /\ original = case.policy
      /\ ~Repairable
  BY DEF RepairRefused, Goto, Tested, Synchronized
<1>2. PICK e \in Denied(candidate) : ~IsAuthorized(candidate, e)
  BY <1>1 DEF Denied
<1>3. EventPermission(e) \notin candidate
  BY <1>2, EventPermissionMatches DEF IsAuthorized
<1>4. RepairPolicy(candidate, Denied(candidate)) # candidate
  BY <1>3 DEF RepairPolicy
<1>5. ~CanRepair(case.policy, Denied(candidate))
  BY <1>1, <1>4 DEF Repairable
<1> QED
  BY <1>5 DEF Servable, CanRepair, Denied

\* A run gives up only for a reason.
LEMMA JustifiedIsPreserved ==
    ASSUME GraphInv, Synchronized, Tested, Justified, [SimulatorNext]_vars
    PROVE  Justified'
<1> USE DEF Goto, policyVars, verificationVars, counterVars
<1>1. CASE GraphStep /\ UNCHANGED <<case, live>>
  <2>1. Servable' <=> Servable
    BY <1>1 DEF Servable
  <2>2. CASE RepairRefused
    BY <1>1, <2>1, <2>2, RefusalMeansUnservable DEF RepairRefused, Justified
  <2>3. CASE GenerateRaises
    BY <1>1, <2>3 DEF GenerateRaises, Justified, Synchronized, Closing
  <2>4. CASE Validate
    <3>1. node' = "apply_candidate"
      BY <2>4 DEF Validate, GraphInv, Policy
    <3> QED
      BY <3>1 DEF Justified, Closing
  <2>5. CASE FinalVerify
    BY <2>5 DEF FinalVerify, Justified, Closing
  <2>6. CASE HumanReview \/ Finalize \/ PublishResult
    BY <1>1, <2>1, <2>6 DEF HumanReview, Finalize, PublishResult, Justified, Closing
  <2>7. CASE LoadContext \/ Generate \/ CheckMore \/ Diagnose \/ Repair
    BY <2>7 DEF LoadContext, Generate, CheckMore, Diagnose, Repair, Justified, Closing
  <2> QED
    BY <1>1, <2>2, <2>3, <2>4, <2>5, <2>6, <2>7 DEF GraphStep
<1>2. CASE SimulatorInspect
  BY <1>2 DEF SimulatorInspect, Inspect, Justified, Closing
<1>3. CASE SimulatorGather
  BY <1>3 DEF SimulatorGather, Gather, Justified, Closing
<1>4. CASE SimulatorApply
  BY <1>4 DEF SimulatorApply, Apply, Justified, Closing
<1>5. CASE SimulatorVerify
  BY <1>5, VerificationTells DEF Justified, Closing
<1>6. CASE SimulatorRestore
  <2>1. Servable' <=> Servable
    BY <1>6 DEF Servable, SimulatorRestore
  <2> QED
    BY <1>6, <2>1 DEF SimulatorRestore, Restore, Justified, Closing
<1>7. CASE UNCHANGED vars
  BY <1>7 DEF vars, graphVars, Justified, Servable
<1> QED
  BY <1>1, <1>2, <1>3, <1>4, <1>5, <1>6, <1>7 DEF SimulatorNext

\* The candidate is made of permissions for observed or required calls.
LEMMA MinimalIsPreserved ==
    ASSUME GraphInv, Synchronized, Tested, Minimal, [SimulatorNext]_vars
    PROVE  Minimal'
<1> USE DEF Goto, policyVars, verificationVars, counterVars
<1>1. CASE Generate /\ UNCHANGED <<case, live>>
  BY <1>1 DEF Generate, Minimal, Synchronized, ObservedOnlyPolicy
<1>2. CASE Repair /\ UNCHANGED <<case, live>>
  <2>1. candidate' = RepairPolicy(candidate, Denied(candidate))
    BY <1>2 DEF Repair, Tested
  <2> QED
    BY <1>2, <2>1 DEF RepairPolicy, Denied, Minimal, ObservedOnlyPolicy
<1>3. CASE /\ ~Generate /\ ~Repair
           /\ GraphStep /\ UNCHANGED <<case, live>>
  <2>1. UNCHANGED <<candidate, case>>
    BY <1>3 DEF GraphStep, LoadContext, GenerateRaises, Validate, CheckMore, FinalVerify,
                Diagnose, RepairRefused, HumanReview, Finalize, PublishResult
  <2> QED
    BY <2>1 DEF Minimal
<1>4. CASE SimulatorInspect \/ SimulatorGather \/ SimulatorApply \/ SimulatorVerify
           \/ SimulatorRestore \/ UNCHANGED vars
  <2>1. UNCHANGED <<candidate, case>>
    BY <1>4 DEF SimulatorInspect, SimulatorGather, SimulatorApply, SimulatorVerify,
                SimulatorRestore, Inspect, Gather, Apply, Verify, Restore, vars, graphVars
  <2> QED
    BY <2>1 DEF Minimal
<1> QED
  BY <1>1, <1>2, <1>3, <1>4 DEF SimulatorNext

\* The invariant holds of every run of every case.
THEOREM SimulatorInvHolds == SimulatorSpec => []SimulatorInv
<1>1. SimulatorInv /\ [SimulatorNext]_vars => SimulatorInv'
  BY SimulatorStepIsGraphStep, NextPreservesInv, SynchronizedIsPreserved, TestedIsPreserved,
     JustifiedIsPreserved, MinimalIsPreserved DEF SimulatorInv
<1> QED
  BY <1>1, SimulatorInitEstablishesInv, PTL DEF SimulatorSpec

-----------------------------------------------------------------------------

\* The simulated workload is a run of the graph in one of the environments
\* that WorkloadGraph allows: what is proved of the graph holds of it.
THEOREM SimulatorImplementsGraph == SimulatorSpec => GraphInit /\ [][GraphNext]_graphVars
<1>1. SimulatorInit => GraphInit
  BY DEF SimulatorInit
<1>2. SimulatorInv /\ [SimulatorNext]_vars => [GraphNext]_graphVars
  BY SimulatorStepIsGraphStep DEF SimulatorInv
<1> QED
  BY <1>1, <1>2, SimulatorInvHolds, PTL DEF SimulatorSpec

\* A run leaves the simulated cluster with the policy it reports: one that
\* passes every declared test, or the policy it started with.
THEOREM ReportIsEnforced == SimulatorSpec => []ReportedPolicyIsEnforced
<1>1. SimulatorInv => ReportedPolicyIsEnforced
  BY DEF SimulatorInv, GraphInv, Phase, Policy, Closing, Synchronized, Tested,
         ReportedPolicyIsEnforced, FinalPolicy
<1> QED
  BY <1>1, SimulatorInvHolds, PTL

\* A run repairs at most once, and gives up only a case that no policy within
\* the original one can serve, or when no repair is allowed at all.
THEOREM GivingUpIsJustified == SimulatorSpec => []GivesUpOnlyIfUnservable
<1>1. SimulatorInv => GivesUpOnlyIfUnservable
  BY DEF SimulatorInv, GraphInv, TypeOK, Tested, Justified, Closing, GivesUpOnlyIfUnservable
<1> QED
  BY <1>1, SimulatorInvHolds, PTL

\* An accepted policy is within the least policy for the observed and the
\* required calls.
THEOREM AcceptedIsLeast == SimulatorSpec => []AcceptedPolicyIsLeast
<1>1. SimulatorInv => AcceptedPolicyIsLeast
  BY DEF SimulatorInv, GraphInv, Policy, Minimal, AcceptedPolicyIsLeast, FinalPolicy
<1> QED
  BY <1>1, SimulatorInvHolds, PTL
-----------------------------------------------------------------------------
(* The simulated workload implements PolicyLifecycle.                      *)

\* The policy is the original one until a candidate is applied.  A verification
\* that fails leaves the candidate in force, and the repaired candidate that
\* is applied next extends it.
Trials ==
    /\ node \in PreGenerate => live = case.policy
    /\ node \in {"diagnose_failure", "repair_policy"} => current = candidate
    /\ (node \in {"validate_candidate", "apply_candidate"} /\ retryCount > 0) =>
          current \subseteq candidate

\* No step of the run forgets which policy is on trial.
LEMMA TrialsIsPreserved ==
    ASSUME SimulatorInv, Trials, [SimulatorNext]_vars
    PROVE  Trials'
<1> USE DEF Trials, PreGenerate, Goto, policyVars, verificationVars, counterVars, SimulatorInv, GraphInv,
            TypeOK, Nodes, Terminal
<1>1. CASE Repair /\ UNCHANGED <<case, live>>
  <2>1. node' = "validate_candidate" /\ current' = candidate /\ candidate \subseteq candidate'
    BY <1>1 DEF Repair, RepairPolicy
  <2> QED
    BY <2>1
<1>2. CASE Generate /\ UNCHANGED <<case, live>>
  BY <1>2 DEF Generate, Phase
<1>3. CASE GraphStep /\ ~Repair /\ ~Generate /\ UNCHANGED <<case, live>>
  BY <1>3 DEF GraphStep, LoadContext, GenerateRaises, Validate, CheckMore, FinalVerify,
              Diagnose, RepairRefused, HumanReview, Finalize, PublishResult
<1>4. CASE SimulatorInspect \/ SimulatorGather \/ SimulatorApply \/ SimulatorRestore
  BY <1>4 DEF SimulatorInspect, SimulatorGather, SimulatorApply, SimulatorRestore, Inspect,
              Gather, Apply, Restore
<1>5. CASE SimulatorVerify
  <2>1. node' \in {"check_more_reductions", "diagnose_failure", "restore_last_known_good"}
    BY <1>5 DEF SimulatorVerify, Verify, RouteVerification
  <2> QED
    BY <1>5, <2>1 DEF SimulatorVerify, Verify, Policy
<1>6. CASE UNCHANGED vars
  BY <1>6 DEF vars, graphVars
<1> QED
  BY <1>1, <1>2, <1>3, <1>4, <1>5, <1>6 DEF SimulatorNext

\* PolicyLifecycle has its own copy of the authorization of Rbac.
LEMMA LifecycleAuthorization ==
    /\ \A p, q : Lifecycle!Within(p, q) <=>
                   \A e \in Events : IsAuthorized(p, e) => IsAuthorized(q, e)
    /\ \A p : Lifecycle!Serves(p) <=> \A e \in case.required : IsAuthorized(p, e)
<1>1. \A a, e : Lifecycle!Matches(a, e) <=> Matches(a, e)
  BY DEF Lifecycle!Matches, Matches, Lifecycle!Wild, Wild, Lifecycle!None, None,
         Lifecycle!ResourceNameVerbs, ResourceNameVerbs
<1>2. \A policy, e : Lifecycle!IsAuthorized(policy, e) <=> IsAuthorized(policy, e)
  BY <1>1 DEF Lifecycle!IsAuthorized, IsAuthorized
<1> QED
  BY <1>2 DEF Lifecycle!Within, Lifecycle!Serves

\* A policy that extends another allows all that the other allows.
LEMMA ExtensionAllowsMore ==
    ASSUME NEW p, NEW q, p \subseteq q, NEW e, IsAuthorized(p, e)
    PROVE  IsAuthorized(q, e)
BY DEF IsAuthorized

\* Trials begin with the application of a candidate.
LEMMA ApplyIsTry ==
    ASSUME SimulatorInv, Trials, SimulatorApply
    PROVE  Lifecycle!Try
<1> USE DEF SimulatorInv, GraphInv, Synchronized
<1>1. /\ node = "apply_candidate" /\ node' = "verify"
      /\ live' = candidate /\ UNCHANGED case
  BY DEF SimulatorApply, Apply, Goto
<1>2. Stage = (IF retryCount = 0 THEN "original" ELSE "trial") /\ Stage' = "trial"
  BY <1>1 DEF Stage
<1>3. Lifecycle!Within(live', case.policy)
  BY <1>1, ValidationIsSound, LifecycleAuthorization DEF Policy, IsValidCandidate
<1>4. Stage = "trial" => Lifecycle!Within(live, live')
  <2> SUFFICES ASSUME Stage = "trial" PROVE live \subseteq live'
    BY ExtensionAllowsMore, LifecycleAuthorization
  <2>1. retryCount > 0
    BY <1>2 DEF TypeOK
  <2> QED
    BY <1>1, <2>1 DEF Trials
<1> QED
  BY <1>1, <1>2, <1>3, <1>4 DEF Lifecycle!Try

\* A step that does not change the policy leaves the stage, or ends in
\* giving back or keeping it.
LEMMA GraphStepIsLifecycleStep ==
    ASSUME SimulatorInv, Trials, GraphStep, UNCHANGED <<case, live>>
    PROVE  Lifecycle!Keep \/ Lifecycle!GiveBack \/ UNCHANGED Stage
<1> USE DEF SimulatorInv, GraphInv, Synchronized, Goto
<1>1. CASE FinalVerify
  <2>1. Stage = "trial" /\ Stage' = "kept"
    BY <1>1 DEF FinalVerify, Stage
  <2>2. Lifecycle!Serves(live)
    BY <1>1, LifecycleAuthorization DEF FinalVerify, Tested, Policy, Denied
  <2> QED
    BY <2>1, <2>2 DEF Lifecycle!Keep
<1>2. CASE GenerateRaises
  <2>1. Stage = "original" /\ Stage' = "restored"
    BY <1>2 DEF GenerateRaises, Stage
  <2>2. live = case.policy
    BY <1>2 DEF GenerateRaises, Trials, PreGenerate
  <2> QED
    BY <2>1, <2>2 DEF Lifecycle!GiveBack
<1>3. CASE Validate
  <2>1. node = "validate_candidate" /\ node' = "apply_candidate" /\ UNCHANGED retryCount
    BY <1>3 DEF Validate, Policy, counterVars
  <2> QED
    BY <2>1 DEF Stage
<1>4. CASE Repair
  <2>1. node = "repair_policy" /\ node' = "validate_candidate" /\ retryCount' = retryCount + 1
    BY <1>4 DEF Repair
  <2>2. retryCount' # 0
    BY <2>1 DEF TypeOK
  <2> QED
    BY <2>1, <2>2 DEF Stage
<1>5. CASE Generate
  <2>1. node = "generate_candidate" /\ node' = "validate_candidate" /\ retryCount' = 0
    BY <1>5 DEF Generate, Phase, PreGenerate
  <2> QED
    BY <2>1 DEF Stage
<1>6. CASE LoadContext \/ CheckMore \/ Diagnose \/ RepairRefused
  BY <1>6 DEF LoadContext, CheckMore, Diagnose, RepairRefused, Stage
<1>7. CASE HumanReview
  <2>1. ~accepted /\ ~accepted'
    BY <1>7 DEF HumanReview, Phase, Closing
  <2> QED
    BY <1>7, <2>1 DEF HumanReview, Stage
<1>8. CASE Finalize \/ PublishResult
  BY <1>8 DEF Finalize, PublishResult, Stage
<1> QED
  BY <1>1, <1>2, <1>3, <1>4, <1>5, <1>6, <1>7, <1>8 DEF GraphStep

\* Every step of the run is one of the life cycle, or none.
LEMMA StepIsLifecycleStep ==
    ASSUME SimulatorInv, Trials, [SimulatorNext]_vars
    PROVE  [Lifecycle!LifecycleNext]_(Lifecycle!lifecycleVars)
<1> USE DEF Lifecycle!LifecycleNext, Lifecycle!lifecycleVars
<1>1. CASE GraphStep /\ UNCHANGED <<case, live>>
  BY <1>1, GraphStepIsLifecycleStep
<1>2. CASE SimulatorInspect \/ SimulatorGather
  <2>1. UNCHANGED <<case, live>> /\ Stage = "original" /\ Stage' = "original"
    BY <1>2 DEF SimulatorInspect, SimulatorGather, Inspect, Gather, Goto, Stage
  <2> QED
    BY <2>1
<1>3. CASE SimulatorApply
  BY <1>3, ApplyIsTry
<1>4. CASE SimulatorVerify
  <2>1. node = "verify"
        /\ node' \in {"check_more_reductions", "diagnose_failure", "restore_last_known_good"}
    BY <1>4 DEF SimulatorVerify, Verify, RouteVerification, Goto
  <2> QED
    BY <1>4, <2>1 DEF SimulatorVerify, Stage
<1>5. CASE SimulatorRestore
  <2>1. node = "restore_last_known_good" /\ node' = "human_review"
        /\ live' = case.policy /\ UNCHANGED case
    BY <1>5 DEF SimulatorRestore, Restore, Goto
  <2> QED
    BY <2>1 DEF Stage, Lifecycle!GiveBack
<1>6. CASE UNCHANGED vars
  BY <1>6 DEF vars, graphVars, Stage
<1> QED
  BY <1>1, <1>2, <1>3, <1>4, <1>5, <1>6 DEF SimulatorNext

\* Every run of every case implements PolicyLifecycle: trials stay within the
\* original policy and only widen, and a policy is kept only if it serves.
THEOREM SimulatorImplementsLifecycle == SimulatorSpec => ImplementsLifecycle
<1>1. SimulatorInit => Trials
  BY DEF SimulatorInit, GraphInit, Trials
<1>2. SimulatorInit => Lifecycle!LifecycleInit
  BY DEF SimulatorInit, GraphInit, Lifecycle!LifecycleInit, Stage
<1>3. SimulatorInv /\ Trials /\ [SimulatorNext]_vars => Trials'
  BY TrialsIsPreserved
<1>4. SimulatorInv /\ Trials /\ [SimulatorNext]_vars
        => [Lifecycle!LifecycleNext]_(Lifecycle!lifecycleVars)
  BY StepIsLifecycleStep
<1> QED
  BY <1>1, <1>2, <1>3, <1>4, SimulatorInvHolds, PTL
     DEF SimulatorSpec, ImplementsLifecycle, Lifecycle!LifecycleSpec

\* What whoever runs the workload can rely on at every moment of the run: it
\* never can do what its original policy forbids, also not under a candidate
\* on trial; it gets that policy back unless a candidate is kept, and a kept
\* candidate serves it.
WorkloadIsProtected ==
    /\ \A e \in Events : IsAuthorized(live, e) => IsAuthorized(case.policy, e)
    /\ Stage = "restored" => live = case.policy
    /\ Stage = "kept" => Denied(live) = {}

\* The promise holds of PolicyLifecycle, and so of every run that implements it.
THEOREM WorkloadStaysProtected == SimulatorSpec => []WorkloadIsProtected
<1> DEFINE Promise == /\ Lifecycle!Within(live, case.policy)
                      /\ Stage = "restored" => live = case.policy
                      /\ Stage = "kept" => Lifecycle!Serves(live)
<1>1. Lifecycle!LifecycleInit => Promise
  BY LifecycleAuthorization DEF Lifecycle!LifecycleInit
<1>2. Promise /\ [Lifecycle!LifecycleNext]_(Lifecycle!lifecycleVars) => Promise'
  <2> SUFFICES ASSUME Promise, [Lifecycle!LifecycleNext]_(Lifecycle!lifecycleVars) PROVE Promise'
    OBVIOUS
  <2> USE DEF Lifecycle!Within, Lifecycle!Serves
  <2>1. CASE Lifecycle!Try
    BY <2>1 DEF Lifecycle!Try
  <2>2. CASE Lifecycle!Keep
    BY <2>2 DEF Lifecycle!Keep
  <2>3. CASE Lifecycle!GiveBack
    BY <2>3 DEF Lifecycle!GiveBack
  <2>4. CASE UNCHANGED Lifecycle!lifecycleVars
    BY <2>4 DEF Lifecycle!lifecycleVars
  <2> QED
    BY <2>1, <2>2, <2>3, <2>4 DEF Lifecycle!LifecycleNext
<1>3. Promise => WorkloadIsProtected
  BY LifecycleAuthorization DEF WorkloadIsProtected, Denied
<1> QED
  BY <1>1, <1>2, <1>3, SimulatorImplementsLifecycle, PTL
     DEF ImplementsLifecycle, Lifecycle!LifecycleSpec

\* Once a candidate is kept or the original policy is back, the run leaves
\* the policy of the workload alone.
DecisionIsFinal == [][(Stage \in {"kept", "restored"}) => live' = live]_vars

\* The decision is the last step of PolicyLifecycle.
THEOREM DecisionsAreFinal == SimulatorSpec => DecisionIsFinal
<1>1. [Lifecycle!LifecycleNext]_(Lifecycle!lifecycleVars)
        => [(Stage \in {"kept", "restored"}) => live' = live]_vars
  BY DEF Lifecycle!LifecycleNext, Lifecycle!Try, Lifecycle!Keep, Lifecycle!GiveBack,
         Lifecycle!lifecycleVars
<1> QED
  BY <1>1, SimulatorImplementsLifecycle, PTL
     DEF ImplementsLifecycle, Lifecycle!LifecycleSpec, DecisionIsFinal

-----------------------------------------------------------------------------
(* The comparison with the baseline.                                       *)

Baseline == ObservedOnlyPolicy(case.observed)

\* How a run relates to the baseline, which is the run's first candidate: a
\* repair, and a rejection, mean that the baseline fails a test.  What is
\* granted on the way are permissions for supported calls.
Compared ==
    /\ (retryCount = 0 /\ node \notin PreGenerate \cup {"raised"}) => candidate = Baseline
    /\ retryCount > 0 => Denied(Baseline) # {}
    /\ (\/ node \in {"restore_last_known_good", "human_review"}
        \/ node \in Closing /\ ~accepted) => Denied(Baseline) # {}
    /\ \A p \in candidate : \E e \in Events : p = EventPermission(e) /\ IsSupportedEvent(e)

\* Every step keeps what the metrics are compared by.
LEMMA ComparedIsPreserved ==
    ASSUME SimulatorInv, Compared, [SimulatorNext]_vars
    PROVE  Compared'
<1> USE DEF Goto, policyVars, verificationVars, counterVars, SimulatorInv, GraphInv, PreGenerate, Closing
<1>1. CASE Generate /\ UNCHANGED <<case, live>>
  <2>1. /\ node = "generate_candidate" /\ node' = "validate_candidate"
        /\ candidate' = ObservedOnlyPolicy(observed) /\ retryCount' = retryCount /\ accepted' = accepted
        /\ CanReduce(original, observed)
    BY <1>1 DEF Generate
  <2>2. observed = case.observed /\ retryCount = 0 /\ ~accepted /\ observed \in SUBSET Events
    BY <2>1 DEF Synchronized, Phase, TypeOK
  <2>3. candidate' = Baseline' /\ Baseline' = Baseline
    BY <1>1, <2>1, <2>2 DEF Baseline
  <2>4. \A p \in candidate' : \E e \in Events : p = EventPermission(e) /\ IsSupportedEvent(e)
    BY <2>1, <2>2 DEF ObservedOnlyPolicy, CanReduce
  <2> QED
    BY <2>1, <2>2, <2>3, <2>4 DEF Compared
<1>2. CASE Repair /\ UNCHANGED <<case, live>>
  <2>1. /\ node = "repair_policy" /\ node' = "validate_candidate" /\ retryCount' = retryCount + 1
        /\ candidate' = RepairPolicy(candidate, Denied(candidate)) /\ accepted' = accepted
        /\ CanRepair(original, Denied(candidate)) /\ retryCount = 0 /\ Denied(candidate) # {}
    BY <1>2 DEF Repair, Repairable, Tested
  <2>2. Denied(Baseline)' = Denied(candidate)
    BY <1>2, <2>1 DEF Compared, Denied, Baseline
  <2>3. Denied(candidate) \subseteq Events /\ ~accepted
    BY <2>1 DEF Denied, Synchronized, Cases, Phase
  <2>4. \A p \in candidate' : \E e \in Events : p = EventPermission(e) /\ IsSupportedEvent(e)
    BY <2>1, <2>3 DEF RepairPolicy, CanRepair, Compared
  <2> QED
    BY <2>1, <2>2, <2>3, <2>4 DEF Compared
<1>3. CASE GraphStep /\ ~Generate /\ ~Repair /\ UNCHANGED <<case, live>>
  <2>1. UNCHANGED <<candidate, case, retryCount>>
    BY <1>3 DEF GraphStep, LoadContext, GenerateRaises, Validate, CheckMore, FinalVerify,
                Diagnose, RepairRefused, HumanReview, Finalize, PublishResult
  <2>2. Baseline' = Baseline /\ Denied(Baseline)' = Denied(Baseline)
    BY <2>1 DEF Baseline, Denied
  <2>3. CASE RepairRefused
    <3>1. /\ node = "repair_policy" /\ node' = "restore_last_known_good" /\ retryCount = 0
          /\ Denied(candidate) # {}
      BY <2>3 DEF RepairRefused, Tested
    <3> QED
      BY <2>1, <2>2, <3>1 DEF Compared
  <2>4. CASE ~RepairRefused
    BY <1>3, <2>1, <2>2, <2>4 DEF Compared, GraphStep, LoadContext, GenerateRaises, Validate, CheckMore,
                FinalVerify, Diagnose, HumanReview, Finalize, PublishResult
  <2> QED
    BY <2>3, <2>4
<1>4. CASE SimulatorInspect \/ SimulatorGather \/ SimulatorApply \/ SimulatorRestore \/ UNCHANGED vars
  <2>1. UNCHANGED <<candidate, case, retryCount>>
    BY <1>4 DEF SimulatorInspect, SimulatorGather, SimulatorApply,
                SimulatorRestore, Inspect, Gather, Apply, Restore, vars, graphVars
  <2>2. Baseline' = Baseline /\ Denied(Baseline)' = Denied(Baseline)
    BY <2>1 DEF Baseline, Denied
  <2> QED
    BY <1>4, <2>1, <2>2 DEF Compared, SimulatorInspect, SimulatorGather, SimulatorApply,
                SimulatorRestore, Inspect, Gather, Apply, Restore, vars, graphVars
<1>5. CASE SimulatorVerify
  <2>1. /\ UNCHANGED <<case, candidate, retryCount, accepted>>
        /\ node = "verify" /\ ~accepted
        /\ \/ node' \in {"check_more_reductions", "diagnose_failure"}
           \/ node' = "restore_last_known_good" /\ Denied(candidate) # {} /\ retryCount = 0
    BY <1>5, VerificationTells
  <2>2. Baseline' = Baseline /\ Denied(Baseline)' = Denied(Baseline)
    BY <2>1 DEF Baseline, Denied
  <2> QED
    BY <2>1, <2>2 DEF Compared
<1> QED
  BY <1>1, <1>2, <1>3, <1>4, <1>5 DEF SimulatorNext

\* The rows of a case agree, for every case.
THEOREM ReportsAgree == SimulatorSpec => []ReportedMetricsAgree
<1>1. SimulatorInit => Compared
  BY DEF SimulatorInit, GraphInit, Compared, PreGenerate, Closing
<1>2. SimulatorInv /\ Compared /\ [SimulatorNext]_vars => Compared'
  BY ComparedIsPreserved
<1>3. SimulatorInv /\ Compared => ReportedMetricsAgree
  <2> SUFFICES ASSUME SimulatorInv, Compared, node = "END"
               PROVE  /\ BaselineMetrics.success => KuberMetrics = BaselineMetrics
                      /\ KuberMetrics.success =>
                            /\ KuberMetrics.permissions = BaselineMetrics.permissions + KuberMetrics.incorrect
                            /\ KuberMetrics.repairs > 0 <=> ~BaselineMetrics.success
                      /\ ~KuberMetrics.success =>
                            /\ KuberMetrics.riskRemoved = 0 /\ KuberMetrics.permissionsRemoved = 0
                            /\ BaselineMetrics.validatedRiskRemoved = 0
    BY DEF ReportedMetricsAgree
  <2>1. /\ case.policy \in Policies /\ case.observed \in SUBSET Events
        /\ observed = case.observed /\ original = case.policy
    BY DEF SimulatorInv, Synchronized, Cases
  <2>2. /\ reductions.attempted = 1 /\ retryCount \in Nat /\ candidate \in SUBSET CandidatePermissions
        /\ accepted \in BOOLEAN /\ result.passed \in BOOLEAN /\ incorrectRemovals \in Nat
    BY DEF SimulatorInv, GraphInv, Phase, PreGenerate, Nodes, TypeOK, Results
  <2>3. /\ Baseline \subseteq candidate
        /\ incorrectRemovals = Cardinality(candidate \ Baseline)
    BY <2>1, <2>2 DEF SimulatorInv, GraphInv, Accounting, Baseline
  <2>4. accepted => result.passed /\ current = candidate /\ Denied(candidate) = {}
    BY DEF SimulatorInv, GraphInv, Policy, Tested
  <2>5. ~accepted => Denied(Baseline) # {}
    BY DEF Compared, Closing
  <2>6. retryCount = 0 => candidate = Baseline
    BY DEF Compared, PreGenerate
  <2>7. retryCount > 0 => Denied(Baseline) # {}
    BY DEF Compared
  <2>8. /\ EffectivePermissionCount(candidate) = Cardinality(candidate)
        /\ EffectivePermissionCount(Baseline) = Cardinality(Baseline)
    <3>1. \A p \in candidate : \E e : /\ p = EventPermission(e) /\ IsSupportedEvent(e)
                                      /\ e.group # Wild /\ e.resource # Wild
      BY CasesAssumption DEF Compared
    <3>2. ExpandPolicy(candidate) = candidate /\ ExpandPolicy(Baseline) = Baseline
      BY <2>3, <3>1, CallsExpandToThemselves
    <3> QED
      BY <3>2 DEF EffectivePermissionCount
  <2>9. Cardinality(candidate) = Cardinality(Baseline) + incorrectRemovals
    <3>1. IsFiniteSet(candidate)
      BY <2>2, CandidatesAreFinite
    <3>2. Baseline \in SUBSET candidate
      BY <2>3
    <3>3. /\ Cardinality(candidate \ Baseline) = Cardinality(candidate) - Cardinality(Baseline)
          /\ Cardinality(candidate) \in Nat /\ Cardinality(Baseline) \in Nat
      BY <3>1, <3>2, DifferenceOfSizes
    <3> QED
      BY <2>3, <3>3
  <2>10. /\ Score(case.policy, Resolved) - Score(case.policy, Resolved) = 0
         /\ EffectivePermissionCount(case.policy) - EffectivePermissionCount(case.policy) = 0
    <3>1. IsFiniteSet(case.policy)
      BY <2>1, CasesAssumption
    <3>2. Score(case.policy, Resolved) \in 0 .. 100
      BY <3>1, ScoreIsNatural
    <3>3. EffectivePermissionCount(case.policy) \in Nat
      BY <3>1, ExpansionIsFinite, FS_CardinalityType DEF EffectivePermissionCount
    <3> QED
      BY <3>2, <3>3
  <2>11. BaselineMetrics = Metrics(case.policy, Baseline, Candidate, Denied(Baseline) = {}, 0, 0)
    BY DEF BaselineMetrics, Baseline
  <2>12. /\ BaselineMetrics.success = (Denied(Baseline) = {})
         /\ BaselineMetrics.permissions = EffectivePermissionCount(Baseline)
         /\ BaselineMetrics.validatedRiskRemoved =
                IF Denied(Baseline) = {} THEN Score(case.policy, Resolved) - Score(Baseline, Candidate) ELSE 0
    BY <2>11 DEF Metrics
  <2>13. CASE accepted
    <3>1. KuberMetrics = Metrics(case.policy, candidate, Candidate, TRUE, incorrectRemovals, retryCount)
      BY <2>2, <2>4, <2>13 DEF KuberMetrics, FinalPolicy
    <3>2. /\ KuberMetrics.success
          /\ KuberMetrics.permissions = EffectivePermissionCount(candidate)
          /\ KuberMetrics.incorrect = incorrectRemovals /\ KuberMetrics.repairs = retryCount
      BY <3>1 DEF Metrics
    <3>3. Denied(Baseline) = {} => KuberMetrics = BaselineMetrics
      <4> SUFFICES ASSUME Denied(Baseline) = {}
                   PROVE  KuberMetrics = BaselineMetrics
        OBVIOUS
      <4>1. retryCount = 0 /\ candidate = Baseline
        BY <2>2, <2>6, <2>7
      <4>2. incorrectRemovals = 0
        BY <2>3, <4>1, FS_EmptySet
      <4>3. (Denied(Baseline) = {}) = TRUE
        OBVIOUS
      <4> QED
        BY <2>11, <3>1, <4>1, <4>2, <4>3
    <3>4. retryCount > 0 <=> Denied(Baseline) # {}
      BY <2>2, <2>4, <2>6, <2>7, <2>13
    <3> QED
      BY <2>8, <2>9, <2>12, <3>2, <3>3, <3>4
  <2>14. CASE ~accepted
    <3>1. /\ ~KuberMetrics.success
          /\ KuberMetrics.riskRemoved = Score(case.policy, Resolved) - Score(case.policy, Resolved)
          /\ KuberMetrics.permissionsRemoved =
                 EffectivePermissionCount(case.policy) - EffectivePermissionCount(case.policy)
      BY <2>1, <2>14 DEF KuberMetrics, FinalPolicy, Metrics
    <3> QED
      BY <2>5, <2>10, <2>12, <2>14, <3>1
  <2> QED
    BY <2>2, <2>13, <2>14
<1> QED
  BY <1>1, <1>2, <1>3, SimulatorInvHolds, PTL DEF SimulatorSpec
=============================================================================
