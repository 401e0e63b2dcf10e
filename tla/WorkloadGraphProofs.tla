------------------------- MODULE WorkloadGraphProofs -------------------------
(***************************************************************************)
(* The safety properties of the workload graph, for every environment,     *)
(* every set of policies and calls and every repair bound.                 *)
(*                                                                         *)
(* GraphInv is the inductive invariant.  Its parts say where in the graph  *)
(* the run is (Phase), what the candidate is made of (Policy), what the    *)
(* counters count (Accounting) and how many nodes have run (Budget).       *)
(***************************************************************************)
EXTENDS WorkloadGraph, RbacProofs, FiniteSetTheorems

PreGenerate == {"load_service_context", "inspect_rbac", "gather_evidence", "generate_candidate"}

Rejecting == {"human_review", "finalize_workload", "publish_result_event", "END"}

Closing == {"finalize_workload", "publish_result_event", "END"}

\* What the position of the run says about the counters and the decision.
Phase ==
    /\ node \in PreGenerate => /\ candidate = {}
                               /\ retryCount = 0
                               /\ incorrectRemovals = 0
                               /\ reductions.attempted = 0
    /\ (node \in Nodes \cup {"END"} /\ node \notin PreGenerate) => reductions.attempted = 1
    /\ node \in {"diagnose_failure", "repair_policy"} => retryCount < MaxRepairs
    /\ node \notin Rejecting => reductions.rejected = 0
    /\ node \notin {"publish_result_event", "END"} => reductions.accepted = 0
    /\ node = "human_review" => reductions.rejected = 1 /\ current = original
    /\ node \in Closing =>
          IF accepted THEN reductions.rejected = 0
                      ELSE reductions.rejected = 1 /\ current = original
    /\ node \in {"publish_result_event", "END"} => (reductions.accepted = 1 <=> accepted)
    /\ accepted => node \in Closing

\* The part of Phase that also holds of a run that continues the thread of
\* an earlier one: no counter is at its bound where it is counted up.
Room ==
    /\ node \in PreGenerate => reductions.attempted = 0
    /\ node \in {"diagnose_failure", "repair_policy"} => retryCount < MaxRepairs
    /\ node \in Nodes \ Rejecting => reductions.rejected = 0

\* What is applied, verified and accepted is the candidate, and the
\* candidate is made of permissions the original policy covers.
Policy ==
    /\ lastGood = original
    /\ node \in {"verify", "check_more_reductions", "final_verify"} => current = candidate
    /\ (accepted \/ node \in {"check_more_reductions", "final_verify"}) =>
          result.passed /\ failure = NoFailure /\ current = candidate
    /\ IsValidCandidate(candidate, original)

Accounting ==
    reductions.attempted = 1 =>
        /\ ObservedOnlyPolicy(observed) \subseteq candidate
        /\ incorrectRemovals = Cardinality(candidate \ ObservedOnlyPolicy(observed))
        /\ incorrectRemovals >= retryCount

\* The supersteps run when a node is due.  The paths through
\* restore_last_known_good differ by the two nodes of a refused repair.
Budget ==
    /\ node = "load_service_context"  => steps = 0
    /\ node = "inspect_rbac"          => steps = 1
    /\ node = "gather_evidence"       => steps = 2
    /\ node = "generate_candidate"    => steps = 3
    /\ node = "validate_candidate"    => steps = 4 + 5 * retryCount
    /\ node = "apply_candidate"       => steps = 5 + 5 * retryCount
    /\ node = "verify"                => steps = 6 + 5 * retryCount
    /\ node \in {"check_more_reductions", "diagnose_failure"} => steps = 7 + 5 * retryCount
    /\ node \in {"final_verify", "repair_policy"} => steps = 8 + 5 * retryCount
    /\ node = "restore_last_known_good" => steps <= 7 + 5 * MaxRepairs
    /\ node = "human_review"          => steps <= 8 + 5 * MaxRepairs
    /\ node = "finalize_workload"     => steps <= 9 + 5 * MaxRepairs
    /\ node = "publish_result_event"  => steps <= 10 + 5 * MaxRepairs
    /\ node \in Terminal              => steps <= 11 + 5 * MaxRepairs

GraphInv == TypeOK /\ Phase /\ Policy /\ Accounting /\ Budget

-----------------------------------------------------------------------------

USE MaxRepairsAssumption

\* The initial state of a run satisfies the invariant.
LEMMA InitEstablishesInv == GraphInit => GraphInv
<1> SUFFICES ASSUME GraphInit PROVE GraphInv
  OBVIOUS
<1> USE DEF GraphInit
<1>1. TypeOK
  <2>1. result \in Results /\ failure \in Failures /\ failureType \in FailureTypes
    BY DEF Results, NoFailure, Failures, FailureTypes
  <2>2. reductions \in [attempted : 0 .. 1, accepted : 0 .. 1, rejected : 0 .. 1]
    OBVIOUS
  <2>3. accepted \in BOOLEAN
    OBVIOUS
  <2> QED
    BY <2>1, <2>2, <2>3 DEF TypeOK, Nodes, Terminal
<1>2. Phase
  BY DEF Phase, PreGenerate, Nodes, Terminal, Rejecting, Closing
<1>3. Policy
  BY DEF Policy, IsValidCandidate
<1>4. Accounting
  BY DEF Accounting
<1>5. Budget
  BY DEF Budget, Terminal
<1> QED
  BY <1>1, <1>2, <1>3, <1>4, <1>5 DEF GraphInv

\* A set of permissions made for calls is finite.
LEMMA CandidatesAreFinite ==
    ASSUME NEW c \in SUBSET CandidatePermissions
    PROVE  IsFiniteSet(c)
<1>1. IsFiniteSet(CandidatePermissions)
  <2> DEFINE f == [e \in Events |-> EventPermission(e)]
  <2>1. f \in Surjection(Events, CandidatePermissions)
    BY DEF Surjection, CandidatePermissions
  <2> QED
    BY <2>1, EventsAssumption, FS_Surjection
<1> QED
  BY <1>1, FS_Subset

\* The type invariant needs Room for the bounds of the counters.
LEMMA TypeIsPreserved ==
    ASSUME TypeOK, Room, [GraphNext]_graphVars
    PROVE  TypeOK'
<1> USE DEF TypeOK, Room, Goto, policyVars, verificationVars, counterVars,
            Nodes, Terminal, PreGenerate, Rejecting, Closing
<1>1. CASE LoadContext \/ Validate \/ CheckMore \/ Diagnose \/ HumanReview \/ PublishResult
           \/ GenerateRaises \/ EnvironmentRaises
  BY <1>1 DEF LoadContext, Validate, CheckMore, Diagnose, HumanReview, PublishResult,
              GenerateRaises, EnvironmentRaises
<1>2. CASE \E policy \in Policies : Inspect(policy)
  BY <1>2 DEF Inspect
<1>3. CASE \E events \in SUBSET Events : Gather(events)
  BY <1>3 DEF Gather
<1>4. CASE Generate
  <2>1. ObservedOnlyPolicy(observed) \in SUBSET CandidatePermissions
    BY DEF ObservedOnlyPolicy, CandidatePermissions
  <2> QED
    BY <1>4, <2>1 DEF Generate
<1>5. CASE Apply
  BY <1>5 DEF Apply
<1>6. CASE \E r \in Results : Verify(r)
  <2>1. PICK r \in Results : Verify(r)
    BY <1>6
  <2>2. failure' \in Failures /\ failureType' \in FailureTypes /\ result' \in Results
    BY <2>1 DEF Verify, Results, Failures, NoFailure, DescribeFailure, FailureTypes
  <2>3. node' \in Nodes
    BY <2>1 DEF Verify, RouteVerification
  <2>4. steps' = steps + 1 /\ UNCHANGED <<policyVars, observed, counterVars, accepted>>
    BY <2>1 DEF Verify
  <2> QED
    BY <2>2, <2>3, <2>4
<1>7. CASE FinalVerify
  BY <1>7 DEF FinalVerify, FailureTypes
<1>8. CASE Repair
  <2>1. RepairPolicy(candidate, failure.missing) \in SUBSET CandidatePermissions
    BY DEF RepairPolicy, CandidatePermissions, Failures
  <2> DEFINE repaired == RepairPolicy(candidate, failure.missing)
  <2>2. /\ IsFiniteSet(repaired) /\ candidate \subseteq repaired
        /\ Cardinality(repaired) \in Nat /\ Cardinality(candidate) \in Nat
        /\ Cardinality(candidate) <= Cardinality(repaired)
    BY <2>1, CandidatesAreFinite, FS_Subset, FS_CardinalityType DEF RepairPolicy
  <2>3. incorrectRemovals' \in Nat
    BY <1>8, <2>2 DEF Repair
  <2> QED
    BY <1>8, <2>1, <2>3 DEF Repair
<1>9. CASE RepairRefused
  BY <1>9 DEF RepairRefused, FailureTypes
<1>10. CASE Restore
  <2>1. current' \in Policies \cup SUBSET CandidatePermissions
    BY <1>10 DEF Restore
  <2>2. reductions' \in [attempted : 0 .. 1, accepted : 0 .. 1, rejected : 0 .. 1]
    BY <1>10 DEF Restore
  <2>3. accepted' \in BOOLEAN
    BY <1>10 DEF Restore
  <2> QED
    BY <1>10, <2>1, <2>2, <2>3 DEF Restore
<1>11. CASE Finalize
  BY <1>11 DEF Finalize
<1>12. CASE UNCHANGED graphVars
  BY <1>12 DEF graphVars
<1> QED
  BY <1>1, <1>2, <1>3, <1>4, <1>5, <1>6, <1>7, <1>8, <1>9, <1>10, <1>11, <1>12
     DEF GraphNext, GraphStep

\* A counter is counted up once, or up to the bound on the repairs.
LEMMA RoomIsPreserved ==
    ASSUME TypeOK, Room, [GraphNext]_graphVars
    PROVE  Room'
<1> USE DEF TypeOK, Room, Goto, policyVars, verificationVars, counterVars,
            Nodes, Terminal, PreGenerate, Rejecting, Closing
<1>1. CASE LoadContext \/ Validate \/ CheckMore \/ Diagnose \/ HumanReview \/ PublishResult
           \/ GenerateRaises \/ EnvironmentRaises
  BY <1>1 DEF LoadContext, Validate, CheckMore, Diagnose, HumanReview, PublishResult,
              GenerateRaises, EnvironmentRaises
<1>2. CASE (\E policy \in Policies : Inspect(policy)) \/ (\E events \in SUBSET Events : Gather(events))
  BY <1>2 DEF Inspect, Gather
<1>3. CASE Generate \/ Apply \/ FinalVerify \/ Repair \/ RepairRefused \/ Restore \/ Finalize
  BY <1>3 DEF Generate, Apply, FinalVerify, Repair, RepairRefused, Restore, Finalize
<1>4. CASE \E r \in Results : Verify(r)
  <2>1. PICK r \in Results : Verify(r)
    BY <1>4
  <2>2. /\ node' \in {"check_more_reductions", "diagnose_failure", "restore_last_known_good"}
        /\ node' = "diagnose_failure" => retryCount < MaxRepairs
    BY <2>1 DEF Verify, RouteVerification
  <2> QED
    BY <2>1, <2>2 DEF Verify
<1>5. CASE UNCHANGED graphVars
  BY <1>5 DEF graphVars
<1> QED
  BY <1>1, <1>2, <1>3, <1>4, <1>5 DEF GraphNext, GraphStep

\* Each node leaves the counters and the decision as its place requires.
LEMMA PhaseIsPreserved ==
    ASSUME TypeOK, Phase, Policy, [GraphNext]_graphVars
    PROVE  Phase'
<1> USE DEF TypeOK, Phase, Goto, policyVars, verificationVars, counterVars,
            Nodes, Terminal, PreGenerate, Rejecting, Closing
<1>1. CASE LoadContext \/ Validate \/ CheckMore \/ Diagnose \/ HumanReview \/ PublishResult
           \/ GenerateRaises
  BY <1>1 DEF LoadContext, Validate, CheckMore, Diagnose, HumanReview, PublishResult,
              GenerateRaises
<1>2. CASE \E policy \in Policies : Inspect(policy)
  BY <1>2 DEF Inspect
<1>3. CASE \E events \in SUBSET Events : Gather(events)
  BY <1>3 DEF Gather
<1>4. CASE Generate
  BY <1>4 DEF Generate
<1>5. CASE Apply
  <2>1. /\ node = "apply_candidate" /\ node' = "verify" /\ steps' = steps + 1
        /\ UNCHANGED <<original, lastGood, candidate, observed, verificationVars, counterVars, accepted>>
    BY <1>5 DEF Apply
  <2> QED
    BY <2>1
<1>6. CASE \E r \in Results : Verify(r)
  <2>1. PICK r \in Results : Verify(r)
    BY <1>6
  <2>2. /\ node' \in {"check_more_reductions", "diagnose_failure", "restore_last_known_good"}
        /\ node' = "diagnose_failure" => retryCount < MaxRepairs
    BY <2>1 DEF Verify, RouteVerification
  <2> QED
    BY <2>1, <2>2 DEF Verify
<1>7. CASE FinalVerify
  BY <1>7 DEF FinalVerify
<1>8. CASE Repair
  BY <1>8 DEF Repair
<1>9. CASE RepairRefused
  BY <1>9 DEF RepairRefused
<1>10. CASE Restore
  BY <1>10 DEF Restore, Policy
<1>11. CASE Finalize
  BY <1>11 DEF Finalize
<1>12. CASE EnvironmentRaises
  BY <1>12 DEF EnvironmentRaises, EnvironmentNodes
<1>13. CASE UNCHANGED graphVars
  BY <1>13 DEF graphVars
<1> QED
  BY <1>1, <1>2, <1>3, <1>4, <1>5, <1>6, <1>7, <1>8, <1>9, <1>10, <1>11, <1>12, <1>13
     DEF GraphNext, GraphStep

\* Reduction and repair keep the candidate valid: both add only permissions
\* made for calls that the original policy authorizes.
LEMMA PolicyIsPreserved ==
    ASSUME TypeOK, Phase, Policy, [GraphNext]_graphVars
    PROVE  Policy'
<1> USE DEF Policy, Goto, policyVars, verificationVars, counterVars, Closing
<1>1. CASE LoadContext \/ Validate \/ CheckMore \/ Diagnose \/ HumanReview \/ PublishResult
           \/ GenerateRaises
  BY <1>1 DEF LoadContext, Validate, CheckMore, Diagnose, HumanReview, PublishResult,
              GenerateRaises, Phase
<1>2. CASE \E policy \in Policies : Inspect(policy)
  BY <1>2 DEF Inspect, Phase, PreGenerate, IsValidCandidate
<1>3. CASE \E events \in SUBSET Events : Gather(events)
  BY <1>3 DEF Gather, Phase
<1>4. CASE Generate
  <2>1. IsValidCandidate(candidate', original')
    BY <1>4, EventPermissionsAreValid DEF Generate, CanReduce, ObservedOnlyPolicy,
                                          IsValidCandidate
  <2> QED
    BY <1>4, <2>1 DEF Generate, Phase
<1>5. CASE Apply
  BY <1>5 DEF Apply, Phase
<1>6. CASE \E r \in Results : Verify(r)
  <2>1. PICK r \in Results : Verify(r)
    BY <1>6
  <2>2. ~accepted
    BY <2>1 DEF Verify, Phase
  <2>3. node' \in {"check_more_reductions", "final_verify"} => r.passed
    BY <2>1 DEF Verify, RouteVerification
  <2> QED
    BY <2>1, <2>2, <2>3 DEF Verify
<1>7. CASE FinalVerify
  BY <1>7 DEF FinalVerify
<1>8. CASE Repair
  <2>1. \A e \in failure.missing : IsAuthorized(original, e)
    BY <1>8 DEF Repair, Repairable, CanRepair
  <2>2. IsValidCandidate(candidate', original')
    BY <1>8, <2>1, EventPermissionsAreValid DEF Repair, RepairPolicy, IsValidCandidate
  <2> QED
    BY <1>8, <2>2 DEF Repair, Phase
<1>9. CASE RepairRefused
  BY <1>9 DEF RepairRefused, Phase
<1>10. CASE Restore
  BY <1>10 DEF Restore, Phase
<1>11. CASE Finalize
  BY <1>11 DEF Finalize
<1>12. CASE EnvironmentRaises
  BY <1>12 DEF EnvironmentRaises
<1>13. CASE UNCHANGED graphVars
  BY <1>13 DEF graphVars
<1> QED
  BY <1>1, <1>2, <1>3, <1>4, <1>5, <1>6, <1>7, <1>8, <1>9, <1>10, <1>11, <1>12, <1>13
     DEF GraphNext, GraphStep

\* The size of what a superset adds to a base.
LEMMA DifferenceOfSizes ==
    ASSUME NEW S, IsFiniteSet(S), NEW T \in SUBSET S
    PROVE  /\ Cardinality(S \ T) = Cardinality(S) - Cardinality(T)
           /\ Cardinality(S) \in Nat
           /\ Cardinality(T) \in Nat
<1>1. S \cap T = T
  OBVIOUS
<1>2. IsFiniteSet(T)
  BY FS_Subset
<1>3. Cardinality(S \ T) = Cardinality(S) - Cardinality(S \cap T)
  BY <1>2, FS_Difference
<1> QED
  BY <1>1, <1>2, <1>3, FS_CardinalityType

\* Reduction and repair keep the incorrect removals exact.
LEMMA AccountingIsPreserved ==
    ASSUME TypeOK, Phase, Accounting, [GraphNext]_graphVars
    PROVE  Accounting'
<1> USE DEF Accounting, Goto, policyVars, verificationVars, counterVars
<1>1. CASE \/ LoadContext \/ Validate \/ CheckMore \/ Diagnose \/ HumanReview \/ PublishResult
           \/ GenerateRaises \/ Apply \/ FinalVerify \/ RepairRefused \/ EnvironmentRaises
           \/ UNCHANGED graphVars
  BY <1>1 DEF LoadContext, Validate, CheckMore, Diagnose, HumanReview, PublishResult,
              GenerateRaises, Apply, FinalVerify, RepairRefused, EnvironmentRaises, graphVars
<1>2. CASE \E policy \in Policies : Inspect(policy)
  BY <1>2 DEF Inspect
<1>3. CASE \E events \in SUBSET Events : Gather(events)
  BY <1>3 DEF Gather, Phase, PreGenerate
<1>4. CASE Generate
  <2>1. candidate' \ ObservedOnlyPolicy(observed') = {}
    BY <1>4 DEF Generate
  <2>2. Cardinality({}) = 0
    BY FS_EmptySet
  <2>3. incorrectRemovals' = 0 /\ retryCount' = 0
    BY <1>4 DEF Generate, Phase, PreGenerate
  <2> QED
    BY <1>4, <2>1, <2>2, <2>3 DEF Generate
<1>5. CASE \E r \in Results : Verify(r)
  BY <1>5 DEF Verify
<1>6. CASE Repair
  <2> DEFINE base == ObservedOnlyPolicy(observed)
             repaired == RepairPolicy(candidate, failure.missing)
  <2>1. reductions.attempted = 1
    BY <1>6 DEF Repair, Phase, Nodes, PreGenerate
  <2>2. /\ candidate \in SUBSET CandidatePermissions
        /\ repaired \in SUBSET CandidatePermissions
        /\ candidate \in SUBSET repaired
    BY DEF TypeOK, RepairPolicy, CandidatePermissions, Failures
  <2>3. IsFiniteSet(candidate) /\ IsFiniteSet(repaired)
    BY <2>2, CandidatesAreFinite
  <2>4. base \in SUBSET candidate /\ base \in SUBSET repaired
    BY <2>1, <2>2
  <2>5. /\ Cardinality(repaired \ base) = Cardinality(repaired) - Cardinality(base)
        /\ Cardinality(candidate \ base) = Cardinality(candidate) - Cardinality(base)
        /\ Cardinality(repaired) \in Nat /\ Cardinality(candidate) \in Nat
        /\ Cardinality(base) \in Nat
    BY <2>3, <2>4, DifferenceOfSizes
  <2>6. Cardinality(candidate) < Cardinality(repaired)
    <3>1. repaired # candidate
      BY <1>6 DEF Repair, Repairable
    <3> QED
      BY <2>2, <2>3, <2>5, <3>1, FS_Subset
  <2>7. /\ incorrectRemovals' = incorrectRemovals + Cardinality(repaired) - Cardinality(candidate)
        /\ retryCount' = retryCount + 1
        /\ candidate' = repaired /\ observed' = observed /\ reductions' = reductions
    BY <1>6 DEF Repair
  <2>8. retryCount \in Nat /\ incorrectRemovals \in Nat
    BY DEF TypeOK
  <2>9. /\ incorrectRemovals = Cardinality(candidate) - Cardinality(base)
        /\ incorrectRemovals >= retryCount
    BY <2>1, <2>5
  <2>10. /\ incorrectRemovals' = Cardinality(repaired) - Cardinality(base)
         /\ incorrectRemovals' >= retryCount'
    BY <2>5, <2>6, <2>7, <2>8, <2>9
  <2> QED
    BY <2>4, <2>5, <2>7, <2>10
<1>7. CASE Restore
  BY <1>7 DEF Restore, TypeOK
<1>8. CASE Finalize
  BY <1>8 DEF Finalize, TypeOK
<1> QED
  BY <1>1, <1>2, <1>3, <1>4, <1>5, <1>6, <1>7, <1>8 DEF GraphNext, GraphStep

\* The supersteps are a function of the node and of the repairs so far.
LEMMA BudgetIsPreserved ==
    ASSUME TypeOK, Phase, Budget, [GraphNext]_graphVars
    PROVE  Budget'
<1> USE DEF Budget, Goto, policyVars, verificationVars, counterVars, Terminal
<1>0. retryCount \in Nat /\ retryCount <= MaxRepairs /\ steps \in Nat
  BY DEF TypeOK
<1>1. CASE \/ LoadContext \/ Validate \/ CheckMore \/ Diagnose \/ HumanReview \/ PublishResult
           \/ GenerateRaises
  BY <1>0, <1>1 DEF LoadContext, Validate, CheckMore, Diagnose, HumanReview, PublishResult,
                    GenerateRaises
<1>2. CASE \E policy \in Policies : Inspect(policy)
  BY <1>0, <1>2 DEF Inspect
<1>3. CASE \E events \in SUBSET Events : Gather(events)
  BY <1>0, <1>3 DEF Gather
<1>4. CASE Generate
  BY <1>0, <1>4 DEF Generate, Phase, PreGenerate
<1>5. CASE Apply
  BY <1>0, <1>5 DEF Apply
<1>6. CASE \E r \in Results : Verify(r)
  <2>1. PICK r \in Results : Verify(r)
    BY <1>6
  <2>2. node' \in {"check_more_reductions", "diagnose_failure", "restore_last_known_good"}
    BY <2>1 DEF Verify, RouteVerification
  <2>3. node = "verify" /\ steps' = steps + 1 /\ retryCount' = retryCount
    BY <2>1 DEF Verify
  <2> QED
    BY <1>0, <2>2, <2>3
<1>7. CASE FinalVerify
  BY <1>0, <1>7 DEF FinalVerify
<1>8. CASE Repair
  BY <1>0, <1>8 DEF Repair
<1>9. CASE RepairRefused
  <2>1. retryCount < MaxRepairs
    BY <1>9 DEF RepairRefused, Phase
  <2> QED
    BY <1>0, <1>9, <2>1 DEF RepairRefused
<1>10. CASE Restore
  BY <1>0, <1>10 DEF Restore
<1>11. CASE Finalize
  BY <1>0, <1>11 DEF Finalize
<1>12. CASE EnvironmentRaises
  BY <1>0, <1>12 DEF EnvironmentRaises, EnvironmentNodes
<1>13. CASE UNCHANGED graphVars
  BY <1>13 DEF graphVars
<1> QED
  BY <1>1, <1>2, <1>3, <1>4, <1>5, <1>6, <1>7, <1>8, <1>9, <1>10, <1>11, <1>12, <1>13
     DEF GraphNext, GraphStep

\* Every step of the graph, in any environment, preserves the invariant.
LEMMA NextPreservesInv == GraphInv /\ [GraphNext]_graphVars => GraphInv'
<1>1. Phase => Room
  BY DEF Phase, Room
<1> QED
  BY <1>1, TypeIsPreserved, PhaseIsPreserved, PolicyIsPreserved, AccountingIsPreserved,
     BudgetIsPreserved DEF GraphInv

\* The inductive invariant holds of every run in every environment.
THEOREM GraphInvHolds == GraphSpec => []GraphInv
BY InitEstablishesInv, NextPreservesInv, PTL DEF GraphSpec

-----------------------------------------------------------------------------

\* The state of the graph keeps its types, and the retry counter never
\* exceeds max_repair_iterations.
THEOREM GraphTypeCorrect == GraphSpec => []TypeOK
BY GraphInvHolds, PTL DEF GraphInv

\* No sequence of observations, denials and repairs makes the candidate
\* allow a call the original policy does not allow.
THEOREM NoEscalation == GraphSpec => []CandidateWithinOriginal
<1>1. GraphInv => CandidateWithinOriginal
  BY ValidationIsSound DEF GraphInv, Policy, IsValidCandidate, CandidateWithinOriginal
<1> QED
  BY <1>1, GraphInvHolds, PTL

\* validate_candidate never raises.
THEOREM ValidationHolds == GraphSpec => []ValidationNeverFails
<1>1. GraphInv => ValidationNeverFails
  BY DEF GraphInv, Policy, ValidationNeverFails
<1> QED
  BY <1>1, GraphInvHolds, PTL

\* A run is accepted only for the candidate that passed its verification.
THEOREM AcceptanceIsVerified == GraphSpec => []AcceptedOnlyIfVerified
<1>1. GraphInv => AcceptedOnlyIfVerified
  BY DEF GraphInv, Policy, AcceptedOnlyIfVerified, FinalPolicy
<1> QED
  BY <1>1, GraphInvHolds, PTL

\* The incorrect removals a run reports are exactly the permissions that
\* repairs added to the observed-only proposal.
THEOREM RemovalsAreExact == GraphSpec => []RemovalsAccountedFor
<1>1. GraphInv => RemovalsAccountedFor
  BY DEF GraphInv, Accounting, RemovalsAccountedFor
<1> QED
  BY <1>1, GraphInvHolds, PTL

\* A run that ends has decided its one reduction, and a rejected run reports
\* the original policy as current.
THEOREM EndIsDecided == GraphSpec => []OutcomeIsDecided
<1>1. GraphInv => OutcomeIsDecided
  BY DEF GraphInv, TypeOK, Phase, OutcomeIsDecided, Nodes, PreGenerate, Closing
<1> QED
  BY <1>1, GraphInvHolds, PTL

\* No run takes more than 11 + 5 * max_repair_iterations supersteps.
THEOREM SupersteppingIsBounded == GraphSpec => []StepsAreBounded
<1>1. GraphInv => StepsAreBounded
  <2> SUFFICES ASSUME GraphInv PROVE steps <= 11 + 5 * MaxRepairs
    BY DEF StepsAreBounded
  <2>1. retryCount \in Nat /\ retryCount <= MaxRepairs /\ steps \in Nat
    BY DEF GraphInv, TypeOK
  <2>2. node \in Nodes \cup Terminal
    BY DEF GraphInv, TypeOK
  <2> QED
    BY <2>1, <2>2 DEF GraphInv, Budget, Nodes, Terminal
<1> QED
  BY <1>1, GraphInvHolds, PTL

\* The supersteps that are left to a run.
Remaining == 11 + 5 * MaxRepairs - steps

\* The measure on which termination rests: whatever the environment answers,
\* every step uses up one of finitely many supersteps.
EveryStepCounts == [][Remaining' \in Nat /\ Remaining' < Remaining]_graphVars

\* No run goes on forever: the loop through diagnosis and repair is left
\* after at most max_repair_iterations rounds.
THEOREM GraphRunsAreFinite == GraphSpec => EveryStepCounts
<1>1. GraphInv /\ GraphNext => steps' = steps + 1
  BY DEF GraphNext, GraphStep, LoadContext, Generate, GenerateRaises, Validate, CheckMore,
         FinalVerify, Diagnose, Repair, RepairRefused, HumanReview, Finalize, PublishResult,
         Inspect, Gather, Verify, Apply, Restore, EnvironmentRaises, Goto
<1>2. GraphInv => steps \in Nat
  BY DEF GraphInv, TypeOK
<1>3. GraphInv /\ GraphInv' /\ StepsAreBounded' /\ [GraphNext]_graphVars
        => [Remaining' \in Nat /\ Remaining' < Remaining]_graphVars
  BY <1>1, <1>2 DEF StepsAreBounded, Remaining
<1> QED
  BY <1>3, GraphInvHolds, SupersteppingIsBounded, PTL DEF GraphSpec, EveryStepCounts

\* A candidate only grows from its proposal on.
THEOREM CandidateIsMonotone == GraphSpec => CandidateOnlyGrows
<1>1. GraphInv /\ [GraphNext]_graphVars => [candidate \subseteq candidate']_graphVars
  <2> SUFFICES ASSUME GraphInv, GraphNext PROVE candidate \subseteq candidate'
    OBVIOUS
  <2>1. CASE Generate
    BY <2>1 DEF Generate, Goto, GraphInv, Phase, PreGenerate
  <2>2. CASE Repair
    BY <2>2 DEF Repair, RepairPolicy
  <2>3. CASE ~Generate /\ ~Repair
    BY <2>3 DEF GraphNext, GraphStep, LoadContext, Validate, CheckMore, Diagnose, HumanReview,
                PublishResult, GenerateRaises, Apply, FinalVerify, RepairRefused,
                EnvironmentRaises, Inspect, Gather, Verify, Restore, Finalize, policyVars
  <2> QED
    BY <2>1, <2>2, <2>3
<1> QED
  BY <1>1, GraphInvHolds, PTL DEF GraphSpec, CandidateOnlyGrows
=============================================================================
