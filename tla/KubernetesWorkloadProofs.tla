----------------------- MODULE KubernetesWorkloadProofs -----------------------
(***************************************************************************)
(* What the live adapter guarantees for every manifest, every set of calls *)
(* and any number of repairs, deliveries and commands, wherever kubectl    *)
(* fails, the process is killed or a binding is left behind.               *)
(*                                                                         *)
(* A delivery resumes the thread of the one before it, so the state a      *)
(* graph starts from is not its initial state and GraphInv does not hold.  *)
(* ClusterInv says instead which policy the run works on (Loaded), what    *)
(* any binding may grant (Covered), what the cluster enforces while a      *)
(* candidate is tried (Applied), after the tests passed (Tested), after a  *)
(* rejection or a failure (GivenBack) and in a dry run (Untouched).        *)
(*                                                                         *)
(* The second half is about `kuber optimize` on a reference service, where *)
(* the calls of the tests are known: what every command leaves behind,     *)
(* whatever the coordinator counts and wherever the worker fails           *)
(* (CommandInv), what it has counted (Reported), and why a workload is     *)
(* rejected (Counted, Justified).  CommandTypes are the types of all this, *)
(* which need Room for the counters.                                       *)
(***************************************************************************)
EXTENDS SandboxCommand, WorkloadGraphProofs

\* The graph works on the manifest once it has inspected it.
Loaded ==
    /\ manifest \in Policies
    /\ node \notin {"load_service_context", "inspect_rbac"} => original = manifest
    /\ candidate \in SUBSET CandidatePermissions
    /\ observed \in SUBSET Events
    /\ failure.missing \in SUBSET Events
    /\ required \in SUBSET Events
    /\ unread \in SUBSET Events
    /\ accepted => node \in Closing
    /\ worker # "busy" => node = "raised"

\* The bindings b grant no call that the policy m does not grant.
Within(b, m) ==
    \A n \in BindingNames : \A p \in b[n] : \A e \in Events :
        Matches(p, e) => IsAuthorized(m, e)

\* No binding grants a call that the manifest does not grant, and none will
\* once the candidate that is due is applied.
Covered ==
    /\ Within(bound, manifest)
    /\ node = "apply_candidate" => IsValidCandidate(candidate, original)

\* A candidate that is tried or was accepted is bound, scope by scope.
Applied ==
    (accepted \/ node \in {"verify", "check_more_reductions", "final_verify"}) =>
        /\ current = candidate
        /\ documents = DocumentNames("kuber", candidate)
        /\ \A n \in documents : bound[n] = InScope(candidate, n.scope)

\* The cluster in which the tests passed is the one that is left.
Tested ==
    (accepted \/ node \in {"check_more_reductions", "final_verify"}) => Denied(Live) = {}

\* After a restore that returned, the manifest is in force again.
GivenBack ==
    (\/ node = "human_review"
     \/ node \in Closing /\ ~accepted
     \/ worker = "restored") => manifest \subseteq Live

\* A dry run gets no further than apply_candidate.
Untouched ==
    dryRun => /\ node \in {"load_service_context", "inspect_rbac", "gather_evidence",
                           "generate_candidate", "validate_candidate", "apply_candidate", "raised"}
              /\ manifest \subseteq Live

BindingInv == Loaded /\ Covered /\ Applied /\ GivenBack /\ Untouched

ClusterInv == BindingInv /\ Tested

-----------------------------------------------------------------------------
(* The bindings.                                                           *)

\* Deleting bindings grants nothing.
LEMMA WithoutStaysWithin ==
    ASSUME NEW b, NEW m, NEW names, Within(b, m)
    PROVE  Within(Without(b, names), m)
BY DEF Within, Without

\* Applying documents grants what their policy grants.
LEMMA WithDocumentsStaysWithin ==
    ASSUME NEW b, NEW m, NEW base, NEW policy, Within(b, m),
           \A p \in policy : \A e \in Events : Matches(p, e) => IsAuthorized(m, e)
    PROVE  Within(WithDocuments(b, base, policy), m)
BY DEF Within, WithDocuments, InScope

\* A policy grants what it grants: the manifest and its parts.
LEMMA PartOfManifestGrantsNothingNew ==
    ASSUME NEW m, NEW p \in m, NEW e, Matches(p, e)
    PROVE  IsAuthorized(m, e)
BY DEF IsAuthorized

\* A candidate that validate_candidate let through grants only what the
\* policy it was compared with grants.
LEMMA ValidCandidateGrantsNothingNew ==
    ASSUME NEW m, NEW cand, IsValidCandidate(cand, m), NEW p \in cand, NEW e, Matches(p, e)
    PROVE  IsAuthorized(m, e)
<1>1. PICK q \in m : Matches(q, p)
  BY DEF IsValidCandidate, IsAuthorized
<1> QED
  BY <1>1, AuthorizedPermissionIsCovered DEF IsAuthorized

\* Every permission of a policy whose scopes the adapter knows is in force
\* once the policy's documents are applied.
LEMMA AppliedPolicyIsBound ==
    ASSUME NEW b, NEW base \in {"overprivileged", "kuber", "effective"}, NEW policy,
           \A p \in policy : p.namespace \in {Namespace, None}
    PROVE  \A p \in policy : \E n \in BindingNames : p \in WithDocuments(b, base, policy)[n]
<1> SUFFICES ASSUME NEW p \in policy
             PROVE  \E n \in BindingNames : p \in WithDocuments(b, base, policy)[n]
  OBVIOUS
<1> DEFINE n == [base |-> base, scope |-> p.namespace]
<1>1. n \in BindingNames /\ n \in DocumentNames(base, policy)
  BY DEF BindingNames, DocumentNames, Scopes
<1>2. p \in InScope(policy, n.scope)
  BY DEF InScope
<1> QED
  BY <1>1, <1>2 DEF WithDocuments

\* The scopes of a policy that environments declare, and of a candidate.
LEMMA ScopesAreKnown ==
    /\ \A m \in Policies : \A p \in m : p.namespace \in {Namespace, None}
    /\ \A p \in CandidatePermissions : p.namespace \in {Namespace, None}
BY ScopesAssumption DEF CandidatePermissions, EventPermission, Key

\* The manifest is in force once its documents are applied.
LEMMA ManifestIsBound ==
    ASSUME NEW m \in Policies, NEW base \in {"overprivileged", "effective"}, NEW b
    PROVE  \A p \in m : \E n \in BindingNames : p \in WithDocuments(b, base, m)[n]
<1>1. \A p \in m : p.namespace \in {Namespace, None}
  BY ScopesAreKnown
<1> QED
  BY <1>1, AppliedPolicyIsBound

\* Documents are named in the adapter's namespaces.
LEMMA DocumentsAreBindings ==
    ASSUME NEW base \in {"overprivileged", "kuber", "effective"}, NEW policy,
           \A p \in policy : p.namespace \in {Namespace, None}
    PROVE  DocumentNames(base, policy) \subseteq BindingNames
BY DEF DocumentNames, BindingNames, Scopes

-----------------------------------------------------------------------------
(* The invariant holds.                                                    *)

\* The manifest alone is in force at first.
LEMMA ClusterInitially == KubernetesInit => ClusterInv
<1> SUFFICES ASSUME KubernetesInit PROVE ClusterInv
  OBVIOUS
<1> USE DEF KubernetesInit, GraphInit
<1>1. Loaded
  BY DEF Loaded, NoFailure
<1>2. Within([n \in BindingNames |-> {}], manifest)
  BY DEF Within
<1>3. Covered
  <2>1. Within(bound, manifest)
    BY <1>2, WithDocumentsStaysWithin, PartOfManifestGrantsNothingNew
  <2> QED
    BY <2>1 DEF Covered
<1>4. manifest \subseteq Live
  BY ManifestIsBound DEF Live
<1> QED
  BY <1>1, <1>3, <1>4 DEF ClusterInv, BindingInv, Applied, Tested, GivenBack, Untouched, Closing

\* The steps of the graph that leave the environment alone.
LEMMA GraphStepKeepsBindings ==
    ASSUME BindingInv, GraphStep, UNCHANGED <<clusterVars, runVars, fixedVars>>
    PROVE  BindingInv'
<1> USE DEF clusterVars, runVars, fixedVars, GraphStep, Goto, policyVars, verificationVars,
            counterVars, BindingInv
<1>1. Loaded'
  <2>1. CASE Generate
    BY <2>1 DEF Loaded, Closing, Generate, ObservedOnlyPolicy, CandidatePermissions
  <2>2. CASE Repair
    BY <2>2 DEF Loaded, Closing, Repair, RepairPolicy, CandidatePermissions
  <2>3. CASE LoadContext \/ GenerateRaises \/ Validate \/ CheckMore \/ Diagnose
    BY <2>3 DEF Loaded, Closing, LoadContext, GenerateRaises, Validate, CheckMore, Diagnose
  <2>4. CASE FinalVerify \/ RepairRefused \/ HumanReview \/ Finalize \/ PublishResult
    BY <2>4 DEF Loaded, Closing, FinalVerify, RepairRefused, HumanReview, Finalize,
                PublishResult
  <2> QED
    BY <2>1, <2>2, <2>3, <2>4
<1>2. bound' = bound /\ manifest' = manifest /\ documents' = documents /\ required' = required
  OBVIOUS
<1>3. Covered'
  <2>1. Within(bound, manifest)'
    BY <1>2 DEF Covered, Within
  <2>2. node' = "apply_candidate" => IsValidCandidate(candidate, original)'
    BY DEF LoadContext, Generate, GenerateRaises, Validate, CheckMore, FinalVerify, Diagnose,
           Repair, RepairRefused, HumanReview, Finalize, PublishResult, IsValidCandidate
  <2> QED
    BY <2>1, <2>2 DEF Covered
<1>4. Live' = Live
  BY <1>2 DEF Live
<1>5. Applied' /\ GivenBack' /\ Untouched'
  <2> USE <1>2, <1>4 DEF Loaded, Closing
  <2>1. CASE LoadContext \/ Generate \/ GenerateRaises \/ Validate
    BY <2>1 DEF Applied, GivenBack, Untouched, LoadContext, Generate, GenerateRaises,
                Validate
  <2>2. CASE CheckMore \/ FinalVerify \/ Diagnose \/ Repair
    BY <2>2 DEF Applied, GivenBack, Untouched, CheckMore, FinalVerify, Diagnose, Repair
  <2>3. CASE RepairRefused \/ HumanReview \/ Finalize \/ PublishResult
    BY <2>3 DEF Applied, GivenBack, Untouched, RepairRefused, HumanReview, Finalize,
                PublishResult
  <2> QED
    BY <2>1, <2>2, <2>3
<1> QED
  BY <1>1, <1>3, <1>5

\* A candidate cluster-wide and in the sandbox, perhaps only in part.
LEMMA CandidateStaysWithin ==
    ASSUME BindingInv, node = "apply_candidate", NEW part \in SUBSET candidate
    PROVE  Within(WithDocuments(bound, "kuber", part), manifest)
<1>1. original = manifest /\ IsValidCandidate(candidate, manifest)
  BY DEF BindingInv, Loaded, Covered
<1>2. \A p \in part : \A e \in Events : Matches(p, e) => IsAuthorized(manifest, e)
  BY <1>1, ValidCandidateGrantsNothingNew
<1>3. Within(bound, manifest)
  BY DEF BindingInv, Covered
<1> QED
  BY <1>2, <1>3, WithDocumentsStaysWithin

\* Whatever a restore deleted and applied, the manifest bounds it.
LEMMA RestoredStaysWithin ==
    ASSUME BindingInv, NEW kept, NEW scopes
    PROVE  Within(Restored(kept, scopes), manifest)
BY WithoutStaysWithin, WithDocumentsStaysWithin, PartOfManifestGrantsNothingNew
   DEF BindingInv, Covered, Restored

\* A restore that applied every scope gives all access back.
LEMMA RestoredGivesBack ==
    ASSUME BindingInv, NEW kept
    PROVE  \A p \in manifest : \E n \in BindingNames : p \in Restored(kept, Scopes(manifest))[n]
<1>1. {p \in manifest : p.namespace \in Scopes(manifest)} = manifest
  BY DEF Scopes
<1> QED
  BY <1>1, ManifestIsBound DEF Restored, BindingInv, Loaded

\* What both outcomes of restore_policy guarantee.
LEMMA RestoreKeepsWithin ==
    ASSUME BindingInv, RestoreSucceeds \/ RestoreFails, UNCHANGED manifest
    PROVE  Within(bound, manifest)'
<1>1. bound' = bound \/ \E kept, scopes : bound' = Restored(kept, scopes)
  BY DEF RestoreSucceeds, RestoreFails
<1>2. CASE bound' = bound
  BY <1>2 DEF BindingInv, Covered, Within
<1>3. CASE \E kept, scopes : bound' = Restored(kept, scopes)
  BY <1>3, RestoredStaysWithin DEF Within
<1> QED
  BY <1>1, <1>2, <1>3

\* A restore that returned gives all access back, also in a dry run.
LEMMA RestoreGivesBack ==
    ASSUME BindingInv, RestoreSucceeds, UNCHANGED <<manifest, dryRun>>
    PROVE  (manifest \subseteq Live)'
<1>1. CASE dryRun
  BY <1>1 DEF RestoreSucceeds, BindingInv, Untouched, Live
<1>2. CASE ~dryRun
  BY <1>2, RestoredGivesBack DEF RestoreSucceeds, Live
<1> QED
  BY <1>1, <1>2

\* A candidate that was applied for every scope is bound, scope by scope.
LEMMA CandidateIsBound ==
    ASSUME BindingInv, KubeApply
    PROVE  \A n \in documents' : bound'[n] = InScope(candidate, n.scope)
<1>1. candidate \in SUBSET CandidatePermissions
  BY DEF BindingInv, Loaded
<1>2. DocumentNames("kuber", candidate) \subseteq BindingNames
  BY <1>1, ScopesAreKnown, DocumentsAreBindings
<1>3. \A n \in DocumentNames("kuber", candidate) : n.base = "kuber"
  BY DEF DocumentNames
<1>4. \A n \in DocumentNames("kuber", candidate) :
          n \notin [base : {"overprivileged"}, scope : {Namespace, None}]
  BY <1>3
<1> QED
  BY <1>2, <1>4 DEF KubeApply, Without, WithDocuments

\* The operations of the adapter before a candidate is applied.
LEMMA EarlyStepsKeepBindings ==
    ASSUME BindingInv, PrepareSandbox \/ KubeInspect \/ KubeGather
    PROVE  BindingInv'
<1> USE DEF BindingInv
<1>1. CASE PrepareSandbox
  <2> USE <1>1 DEF PrepareSandbox, graphVars, policyVars, verificationVars, runVars, fixedVars
  <2>1. Within(bound', manifest)
    BY WithoutStaysWithin, WithDocumentsStaysWithin, PartOfManifestGrantsNothingNew DEF Covered
  <2>2. Within(bound, manifest)'
    BY <2>1 DEF Within
  <2> QED
    BY <2>2 DEF Loaded, Covered, IsValidCandidate, Applied, GivenBack, Untouched,
                Closing
<1>2. CASE KubeInspect \/ KubeGather
  <2> USE <1>2 DEF KubeInspect, KubeGather, Inspect, Gather, Goto, policyVars, verificationVars,
                   clusterVars, runVars, fixedVars
  <2>1. bound' = bound /\ manifest' = manifest /\ Live' = Live
    BY DEF Live
  <2>2. Within(bound, manifest)'
    BY <2>1 DEF Covered, Within
  <2>3. Loaded'
    BY DEF Loaded, Closing
  <2> QED
    BY <2>1, <2>2, <2>3 DEF Loaded, Covered, Applied, GivenBack, Untouched, Closing
<1> QED
  BY <1>1, <1>2

\* Applying a candidate, wholly or until kubectl fails.
LEMMA ApplyingKeepsBindings ==
    ASSUME BindingInv, KubeApply \/ KubeApplyFails
    PROVE  BindingInv'
<1> USE DEF BindingInv
<1>1. CASE KubeApply
  <2> USE <1>1 DEF KubeApply, Apply, Goto, verificationVars, counterVars, runVars, fixedVars
  <2>1. Within(WithDocuments(bound, "kuber", candidate), manifest)
    BY CandidateStaysWithin
  <2>2. Within(bound', manifest)
    BY <2>1, WithoutStaysWithin
  <2>3. Within(bound, manifest)'
    BY <2>2 DEF Within
  <2>4. Applied'
    BY CandidateIsBound DEF Applied
  <2> QED
    BY <2>3, <2>4 DEF Loaded, Covered, GivenBack, Untouched, Closing
<1>2. CASE KubeApplyFails
  <2> USE <1>2 DEF KubeApplyFails, EnvironmentRaises, Goto, policyVars, verificationVars,
                   counterVars, runVars, fixedVars
  <2>1. Within(bound, manifest)'
    <3>1. CASE dryRun
      BY <3>1 DEF Covered, Within
    <3>2. CASE ~dryRun
      <4>1. PICK done, names : bound' = Without(
                WithDocuments(bound, "kuber", {p \in candidate : p.namespace \in done}), names)
        BY <3>2
      <4>2. Within(WithDocuments(bound, "kuber", {p \in candidate : p.namespace \in done}), manifest)
        BY CandidateStaysWithin
      <4>3. Within(bound', manifest)
        BY <4>1, <4>2, WithoutStaysWithin
      <4> QED
        BY <4>3 DEF Within
    <3> QED
      BY <3>1, <3>2
  <2>2. dryRun => Live' = Live
    BY DEF Live
  <2> QED
    BY <2>1, <2>2 DEF Loaded, Covered, Applied, GivenBack, Untouched, Closing
<1> QED
  BY <1>1, <1>2

\* The smoke command, whatever it finds, and the calls that time out.
LEMMA VerifyingKeepsBindings ==
    ASSUME BindingInv, NEW r \in Results, Verify(r), unread' \in SUBSET Events,
           UNCHANGED <<bound, documents, runVars, fixedVars>>
    PROVE  BindingInv'
<1> USE DEF BindingInv
<1>1. /\ bound' = bound /\ documents' = documents /\ candidate' = candidate
      /\ current' = current /\ original' = original /\ accepted' = accepted
      /\ observed' = observed /\ worker' = worker
      /\ manifest' = manifest /\ required' = required /\ dryRun' = dryRun
  BY DEF Verify, policyVars, counterVars, runVars, fixedVars
<1>2. Live' = Live /\ Within(bound, manifest)'
  BY <1>1 DEF Live, Covered, Within
<1>3. /\ node = "verify"
      /\ node' \in {"check_more_reductions", "diagnose_failure", "restore_last_known_good"}
      /\ failure'.missing \in SUBSET Events
  BY DEF Verify, Goto, RouteVerification, DescribeFailure, NoFailure, Results
<1>4. Loaded'
  BY <1>1, <1>3 DEF Loaded, Closing
<1> QED
  BY <1>1, <1>2, <1>3, <1>4 DEF Loaded, Covered, Applied, GivenBack, Untouched, Closing

\* A call that times out changes no binding.
LEMMA FailingKeepsBindings ==
    ASSUME BindingInv, KubeCallFails
    PROVE  BindingInv'
<1> USE DEF BindingInv
<1>1. /\ bound' = bound /\ documents' = documents /\ unread' = unread /\ failure' = failure
      /\ candidate' = candidate /\ current' = current /\ original' = original
      /\ accepted' = accepted /\ observed' = observed /\ worker' = worker
      /\ manifest' = manifest /\ required' = required /\ dryRun' = dryRun
      /\ node \in {"gather_evidence", "verify"} /\ node' = "raised"
  BY DEF KubeCallFails, EnvironmentRaises, Goto, policyVars, verificationVars, counterVars,
         clusterVars, runVars, fixedVars
<1>2. Live' = Live /\ Within(bound, manifest)'
  BY <1>1 DEF Live, Covered, Within
<1> QED
  BY <1>1, <1>2 DEF Loaded, Covered, Applied, GivenBack, Untouched, Closing

\* Restoring the last known good policy, successfully or not.
LEMMA RestoringKeepsBindings ==
    ASSUME BindingInv, KubeRestore \/ KubeRestoreFails
    PROVE  BindingInv'
<1>1. Within(bound, manifest)'
  BY RestoreKeepsWithin DEF KubeRestore, KubeRestoreFails, fixedVars
<1>2. CASE KubeRestore
  <2>1. (manifest \subseteq Live)'
    BY <1>2, RestoreGivesBack DEF KubeRestore, fixedVars
  <2> QED
    BY <1>1, <1>2, <2>1 DEF BindingInv, KubeRestore, Restore, Goto, verificationVars, runVars,
       fixedVars, Loaded, Covered, Applied, GivenBack, Untouched, Closing
<1>3. CASE KubeRestoreFails
  BY <1>1, <1>3 DEF BindingInv, KubeRestoreFails, RestoreFails, EnvironmentRaises, Goto,
     policyVars, verificationVars, counterVars, runVars, fixedVars,
     Loaded, Covered, Applied, GivenBack, Untouched, Closing
<1> QED
  BY <1>2, <1>3

\* The worker's handler grants nothing new,
LEMMA HandlerKeepsWithin ==
    ASSUME BindingInv, HandlerLeaves
    PROVE  Within(bound, manifest)'
BY RestoreKeepsWithin DEF HandlerLeaves, fixedVars

\* and gives all access back when its restore returns.
LEMMA HandlerGivesBack ==
    ASSUME BindingInv, HandlerLeaves, worker' = "restored"
    PROVE  (manifest \subseteq Live)'
<1>1. RestoreSucceeds /\ UNCHANGED <<manifest, dryRun>>
  BY DEF HandlerLeaves, fixedVars
<1> QED
  BY <1>1, RestoreGivesBack

\* What the worker does about an exception.
LEMMA WorkerKeepsBindings ==
    ASSUME BindingInv, HandlerRetries \/ WorkerGivesUp
    PROVE  BindingInv'
<1>1. CASE HandlerRetries
  <2>1. Within(bound, manifest)'
    BY <1>1, RestoreKeepsWithin DEF HandlerRetries, fixedVars
  <2>2. dryRun => (manifest \subseteq Live)'
    BY <1>1, RestoreGivesBack DEF HandlerRetries, RestoreFails, fixedVars
  <2> QED
    BY <1>1, <2>1, <2>2 DEF BindingInv, HandlerRetries, GraphResume, policyVars,
       verificationVars, fixedVars,
       Loaded, Covered, Applied, GivenBack, Untouched, Closing
<1>2. CASE WorkerGivesUp
  <2>1. Within(bound, manifest)'
    BY <1>2, HandlerKeepsWithin DEF WorkerGivesUp
  <2>2. (worker = "restored" => manifest \subseteq Live)'
    BY <1>2, HandlerGivesBack DEF WorkerGivesUp
  <2> QED
    BY <1>2, <2>1, <2>2 DEF BindingInv, WorkerGivesUp, HandlerLeaves, RestoreSucceeds, RestoreFails,
       graphVars, policyVars, verificationVars, fixedVars,
       Loaded, Covered, Applied, GivenBack, Untouched, Closing
<1> QED
  BY <1>1, <1>2

\* What another command begins with, however the last one ended.
LEMMA RestartKeepsBindings ==
    ASSUME manifest \in Policies, required \in SUBSET Events, Within(bound', manifest), ~dryRun,
           GraphRestart, documents' = {}, unread' = {}, worker' = "busy", UNCHANGED fixedVars
    PROVE  BindingInv'
<1>1. Within(bound, manifest)'
  BY DEF Within, fixedVars
<1> QED
  BY <1>1 DEF BindingInv, GraphRestart, NoFailure, fixedVars, Loaded, Covered, Applied,
     GivenBack, Untouched, Closing

\* The sandbox is reset by deleting candidates and applying the manifest.
LEMMA ResetStaysWithin ==
    ASSUME Within(bound, manifest), NEW names
    PROVE  /\ Within(Without(bound, names), manifest)
           /\ Within(WithDocuments(Without(bound, names), "overprivileged", manifest), manifest)
BY WithoutStaysWithin, WithDocumentsStaysWithin, PartOfManifestGrantsNothingNew

\* reset.sh makes a fresh start of whatever bindings there are.
LEMMA RerunKeepsBindings ==
    ASSUME manifest \in Policies, required \in SUBSET Events, Within(bound, manifest), Rerun
    PROVE  BindingInv'
BY ResetStaysWithin, RestartKeepsBindings DEF Rerun

\* A step that only logs denials, or changes nothing.
LEMMA BindingsStutter ==
    ASSUME BindingInv, UNCHANGED <<graphVars, bound, documents, runVars, fixedVars>>,
           unread' \in SUBSET Events
    PROVE  BindingInv'
BY DEF graphVars, policyVars, verificationVars, counterVars, runVars, fixedVars, BindingInv,
       Loaded, Covered, Within, IsValidCandidate, Applied, GivenBack, Untouched, Live

\* Every operation of the adapter, the graph and the worker.
LEMMA BindingsArePreserved ==
    ASSUME BindingInv, [KubernetesNext]_vars
    PROVE  BindingInv'
<1>1. CASE KubeVerify
  <2>1. PICK passed \in BOOLEAN, logged \in SUBSET Denied(Live) :
             \E readable \in SUBSET (unread \cup logged) :
                /\ Verify([passed |-> passed, denied |-> readable])
                /\ unread' = (unread \cup logged) \ readable
                /\ UNCHANGED <<bound, documents, runVars, fixedVars>>
    BY <1>1 DEF KubeVerify
  <2>2. PICK readable \in SUBSET (unread \cup logged) :
                /\ Verify([passed |-> passed, denied |-> readable])
                /\ unread' = (unread \cup logged) \ readable
                /\ UNCHANGED <<bound, documents, runVars, fixedVars>>
    BY <2>1
  <2>3. unread \cup logged \in SUBSET Events
    BY DEF BindingInv, Loaded, Denied
  <2>4. [passed |-> passed, denied |-> readable] \in Results
    BY <2>3 DEF Results
  <2> QED
    BY <2>2, <2>3, <2>4, VerifyingKeepsBindings
<1>2. CASE Rerun
  BY <1>2, RerunKeepsBindings DEF BindingInv, Loaded, Covered
<1>3. CASE UNCHANGED vars
  BY <1>3, BindingsStutter DEF vars, clusterVars, BindingInv, Loaded
<1> QED
  BY <1>1, <1>2, <1>3, GraphStepKeepsBindings, EarlyStepsKeepBindings, ApplyingKeepsBindings,
     FailingKeepsBindings, RestoringKeepsBindings, WorkerKeepsBindings
     DEF KubernetesNext, WorkerRetries

\* Only a passed verification leads to an accepted candidate, and nothing is
\* bound or deleted on the way.
LEMMA TestedIsPreserved ==
    ASSUME BindingInv, Tested, [KubernetesNext]_vars
    PROVE  Tested'
<1> USE DEF Goto, policyVars, verificationVars, counterVars, clusterVars, runVars, fixedVars
<1>1. accepted => node \in Closing
  BY DEF BindingInv, Loaded
<1>2. CASE GraphStep /\ UNCHANGED <<clusterVars, runVars, fixedVars>>
  <2>1. Denied(Live)' = Denied(Live)
    BY <1>2 DEF Denied, Live
  <2> QED
    BY <1>1, <1>2, <2>1 DEF Tested, Closing, GraphStep, LoadContext, Generate,
       GenerateRaises, Validate, CheckMore, FinalVerify, Diagnose, Repair, RepairRefused,
       HumanReview, Finalize, PublishResult
<1>3. CASE KubeVerify
  <2>1. /\ node = "verify" /\ accepted' = accepted
        /\ node' = "check_more_reductions" => Denied(Live) = {}
        /\ node' # "final_verify"
    BY <1>3 DEF KubeVerify, Verify, RouteVerification
  <2>2. Denied(Live)' = Denied(Live)
    BY <1>3 DEF KubeVerify, Denied, Live
  <2> QED
    BY <1>1, <2>1, <2>2 DEF Tested, Closing
<1>4. CASE PrepareSandbox \/ KubeInspect \/ KubeGather \/ KubeApply \/ KubeRestore
  BY <1>1, <1>4 DEF Tested, Closing, PrepareSandbox, graphVars, KubeInspect, Inspect,
     KubeGather, Gather, KubeApply, Apply, KubeRestore, Restore
<1>5. CASE KubeApplyFails \/ KubeRestoreFails \/ KubeCallFails
  BY <1>1, <1>5 DEF Tested, Closing, KubeApplyFails, KubeRestoreFails, KubeCallFails,
     EnvironmentRaises, EnvironmentNodes
<1>6. CASE WorkerRetries \/ WorkerGivesUp \/ Rerun
  BY <1>1, <1>6 DEF Tested, Closing, WorkerRetries, HandlerRetries, GraphResume, WorkerGivesUp,
     HandlerLeaves, graphVars, Rerun, GraphRestart
<1>7. CASE UNCHANGED vars
  BY <1>7 DEF Tested, vars, graphVars, Denied, Live
<1> QED
  BY <1>2, <1>3, <1>4, <1>5, <1>6, <1>7 DEF KubernetesNext

\* The invariant of the live adapter, over deliveries and commands.
THEOREM ClusterInvHolds == KubernetesSpec => []ClusterInv
<1>1. ClusterInv /\ [KubernetesNext]_vars => ClusterInv'
  BY BindingsArePreserved, TestedIsPreserved DEF ClusterInv
<1> QED
  BY ClusterInitially, <1>1, PTL DEF KubernetesSpec

-----------------------------------------------------------------------------
(* The properties.                                                         *)

\* Wherever kubectl fails, whatever is left over and restored, the workload
\* is never granted a call that its manifest does not grant.
THEOREM ClusterStaysWithinOriginal == KubernetesSpec => []ClusterWithinOriginal
<1>1. ClusterInv => ClusterWithinOriginal
  BY DEF ClusterInv, BindingInv, Covered, Within, ClusterWithinOriginal, Live, IsAuthorized
<1> QED
  BY ClusterInvHolds, <1>1, PTL

\* A candidate that is tried is in force, next to whatever is left over.
LEMMA TriedIsInForce ==
    ASSUME BindingInv,
           accepted \/ node \in {"verify", "check_more_reductions", "final_verify"}
    PROVE  candidate \subseteq Live
<1> SUFFICES ASSUME NEW p \in candidate PROVE p \in Live
  OBVIOUS
<1>1. /\ candidate \in SUBSET CandidatePermissions
      /\ documents = DocumentNames("kuber", candidate)
      /\ \A n \in documents : bound[n] = InScope(candidate, n.scope)
  BY DEF BindingInv, Loaded, Applied
<1>2. documents \subseteq BindingNames
  BY <1>1, ScopesAreKnown, DocumentsAreBindings
<1> DEFINE n == [base |-> "kuber", scope |-> p.namespace]
<1>3. n \in documents /\ n.scope = p.namespace
  BY <1>1 DEF DocumentNames, Scopes
<1>4. p \in bound[n]
  BY <1>1, <1>3 DEF InScope
<1> QED
  BY <1>2, <1>3, <1>4 DEF Live

\* An accepted candidate is all that is in force, unless a binding is left.
LEMMA AcceptedIsInForce ==
    ASSUME BindingInv, accepted, Leftover = {}
    PROVE  Live = candidate /\ FinalPolicy = candidate
<1>1. /\ FinalPolicy = candidate
      /\ candidate \in SUBSET CandidatePermissions
      /\ documents = DocumentNames("kuber", candidate)
      /\ \A n \in documents : bound[n] = InScope(candidate, n.scope)
  BY DEF BindingInv, Loaded, Applied, FinalPolicy
<1>2. ASSUME NEW p \in Live PROVE p \in candidate
  <2>1. PICK n \in BindingNames : p \in bound[n]
    BY DEF Live
  <2>2. n \in documents
    BY <2>1 DEF Leftover
  <2> QED
    BY <2>1, <2>2, <1>1 DEF InScope
<1>3. candidate \subseteq Live
  BY TriedIsInForce
<1> QED
  BY <1>1, <1>2, <1>3

\* An accepted run leaves exactly the policy it reports, which passed the
\* tests, unless a binding of an earlier restore or command is left.
THEOREM AcceptedPoliciesAreEnforced == KubernetesSpec => []AcceptedPolicyIsEnforced
<1>1. ClusterInv => AcceptedPolicyIsEnforced
  BY AcceptedIsInForce DEF ClusterInv, Tested, AcceptedPolicyIsEnforced
<1> QED
  BY ClusterInvHolds, <1>1, PTL

\* A rejected run, and a worker that gave up after restoring, give all the
\* access of the manifest back.
THEOREM OriginalAccessComesBack == KubernetesSpec => []OriginalAccessIsBack
<1>1. ClusterInv => OriginalAccessIsBack
  BY DEF ClusterInv, BindingInv, GivenBack, Closing, OriginalAccessIsBack, IsAuthorized
<1> QED
  BY ClusterInvHolds, <1>1, PTL

\* A dry run never changes the cluster: every operation of the adapter that
\* does is guarded, also in the worker's handler and in another command.
THEOREM DryRunsChangeNothing == KubernetesSpec => DryRunChangesNothing
<1>1. [KubernetesNext]_vars => [dryRun => UNCHANGED bound]_vars
  BY DEF KubernetesNext, vars, clusterVars, PrepareSandbox, KubeInspect, KubeGather, KubeApply,
         KubeVerify, KubeRestore, KubeApplyFails, KubeRestoreFails, KubeCallFails,
         WorkerRetries, HandlerRetries, WorkerGivesUp, HandlerLeaves, Rerun, RestoreSucceeds,
         RestoreFails
<1> QED
  BY <1>1, PTL DEF KubernetesSpec, DryRunChangesNothing

-----------------------------------------------------------------------------
(* The calls of the reference services.  Sequences enter the arguments     *)
(* below only through the sets of calls they hold.                         *)

\* Joining sequences joins the sets of their elements.
LEMMA RangeOfJoined ==
    ASSUME NEW S, NEW a \in Seq(S), NEW b \in Seq(S)
    PROVE  a \o b \in Seq(S) /\ Range(a \o b) = Range(a) \cup Range(b)
<1>1. /\ a \o b \in Seq(S) /\ Len(a \o b) = Len(a) + Len(b)
      /\ \A i \in 1 .. Len(a) : (a \o b)[i] = a[i]
      /\ \A i \in 1 .. Len(b) : (a \o b)[Len(a) + i] = b[i]
  OBVIOUS
<1>2. DOMAIN a = 1 .. Len(a) /\ DOMAIN b = 1 .. Len(b) /\ DOMAIN (a \o b) = 1 .. Len(a) + Len(b)
  BY <1>1
<1>3. Len(a) \in Nat /\ Len(b) \in Nat
  OBVIOUS
<1>4. ASSUME NEW i \in 1 .. Len(a) + Len(b) PROVE (a \o b)[i] \in Range(a) \cup Range(b)
  <2>1. CASE i <= Len(a)
    BY <1>1, <1>2, <1>3, <2>1 DEF Range
  <2>2. CASE i > Len(a)
    <3>1. i - Len(a) \in 1 .. Len(b) /\ Len(a) + (i - Len(a)) = i
      BY <1>3, <2>2
    <3>2. (a \o b)[i] = b[i - Len(a)]
      BY <1>1, <3>1
    <3> QED
      BY <1>2, <3>1, <3>2 DEF Range
  <2> QED
    BY <1>3, <2>1, <2>2
<1>5. ASSUME NEW i \in 1 .. Len(a) PROVE a[i] \in Range(a \o b)
  BY <1>1, <1>2, <1>3 DEF Range
<1>6. ASSUME NEW i \in 1 .. Len(b) PROVE b[i] \in Range(a \o b)
  <2>1. Len(a) + i \in 1 .. Len(a) + Len(b)
    BY <1>3
  <2> QED
    BY <1>1, <1>2, <2>1 DEF Range
<1>7. Range(a \o b) \subseteq Range(a) \cup Range(b)
  BY <1>2, <1>4 DEF Range
<1>8. Range(a) \subseteq Range(a \o b) /\ Range(b) \subseteq Range(a \o b)
  <2> HIDE DEF Range
  <2>1. Range(a) = {a[i] : i \in 1 .. Len(a)} /\ Range(b) = {b[i] : i \in 1 .. Len(b)}
    BY <1>2 DEF Range
  <2> QED
    BY <1>5, <1>6, <2>1
<1> QED
  BY <1>1, <1>7, <1>8

\* The elements of one or two sequences joined to one.
LEMMA RangeOfFlattened ==
    ASSUME NEW S, NEW n \in 1 .. 2, NEW seqs, Len(seqs) = n, \A t \in 1 .. n : seqs[t] \in Seq(S)
    PROVE  /\ FlattenSeq(seqs) \in Seq(S)
           /\ \A e : e \in Range(FlattenSeq(seqs)) <=> \E t \in 1 .. n : e \in Range(seqs[t])
<1> DEFINE J(a, b) == a \o b
           F(g) == [i \in 1 .. n |-> IF i = 1 THEN seqs[i] ELSE J(g[i - 1], seqs[i])]
           two == J(seqs[1], seqs[2])
           joined == [i \in 1 .. n |-> IF i = 1 THEN seqs[1] ELSE two]
<1>1. joined = F(joined)
  <2> HIDE DEF J
  <2>1. ASSUME NEW i \in 1 .. n PROVE joined[i] = F(joined)[i]
    <3>1. i = 1 \/ (i = 2 /\ i - 1 = 1 /\ 1 \in 1 .. n)
      OBVIOUS
    <3> QED
      BY <3>1
  <2> QED
    BY <2>1
<1>2. ASSUME NEW g, g = F(g) PROVE g = joined
  <2> HIDE DEF J
  <2>1. g[1] = seqs[1]
    BY <1>2
  <2>2. ASSUME n = 2 PROVE g[2] = two
    <3>1. 2 \in 1 .. n /\ 2 - 1 = 1
      BY <2>2
    <3>2. g[2] = J(g[2 - 1], seqs[2])
      BY <1>2, <3>1
    <3> QED
      BY <2>1, <3>1, <3>2
  <2>3. ASSUME NEW i \in 1 .. n PROVE g[i] = joined[i]
    <3>1. i = 1 \/ (i = 2 /\ n = 2)
      OBVIOUS
    <3> HIDE DEF two
    <3> QED
      BY <2>1, <2>2, <3>1
  <2> HIDE DEF joined
  <2>4. joined = [i \in 1 .. n |-> joined[i]] /\ g = [i \in 1 .. n |-> g[i]]
    BY <1>1, <1>2
  <2> QED
    BY <2>3, <2>4
<1>3. FlattenSeq(seqs) = joined[n]
  <2> HIDE DEF joined
  <2>1. (CHOOSE g : g = F(g)) = joined
    BY <1>1, <1>2
  <2>2. Len(seqs) # 0 /\ 1 .. Len(seqs) = 1 .. n
    OBVIOUS
  <2>3. FlattenSeq(seqs) = (CHOOSE g : g = F(g))[n]
    BY <2>2 DEF FlattenSeq
  <2> QED
    BY <2>1, <2>3
<1>4. n = 2 => two \in Seq(S) /\ Range(two) = Range(seqs[1]) \cup Range(seqs[2])
  BY RangeOfJoined
<1>5. CASE n = 1
  <2>1. 1 .. n = {1} /\ FlattenSeq(seqs) = seqs[1]
    BY <1>3, <1>5
  <2> QED
    BY <1>5, <2>1
<1>6. CASE n = 2
  <2>1. 1 .. n = {1, 2}
    BY <1>6
  <2>2. FlattenSeq(seqs) = two
    BY <1>3, <1>6
  <2> QED
    BY <1>4, <1>6, <2>1, <2>2
<1> QED
  BY <1>5, <1>6

\* The elements of short sequences.
LEMMA NoneOf ==
    ASSUME NEW S
    PROVE  <<>> \in Seq(S) /\ Len(<<>>) = 0 /\ Range(<<>>) = {}
BY DEF Range

LEMMA OneOf ==
    ASSUME NEW S, NEW x \in S
    PROVE  <<x>> \in Seq(S) /\ Len(<<x>>) = 1 /\ Range(<<x>>) = {x}
BY DEF Range

LEMMA TwoOf ==
    ASSUME NEW S, NEW x \in S, NEW y \in S
    PROVE  <<x, y>> \in Seq(S) /\ Len(<<x, y>>) = 2 /\ Range(<<x, y>>) = {x, y}
<1>1. DOMAIN <<x, y>> = {1, 2}
  OBVIOUS
<1>2. {<<x, y>>[i] : i \in {1, 2}} = {x, y}
  OBVIOUS
<1> QED
  BY <1>1, <1>2 DEF Range

LEMMA ThreeOf ==
    ASSUME NEW S, NEW x \in S, NEW y \in S, NEW z \in S
    PROVE  <<x, y, z>> \in Seq(S) /\ Len(<<x, y, z>>) = 3 /\ Range(<<x, y, z>>) = {x, y, z}
<1>1. DOMAIN <<x, y, z>> = {1, 2, 3}
  OBVIOUS
<1>2. {<<x, y, z>>[i] : i \in {1, 2, 3}} = {x, y, z}
  OBVIOUS
<1>3. <<x, y, z>> \in Seq(S) /\ Len(<<x, y, z>>) = 3
  OBVIOUS
<1> QED
  BY <1>1, <1>2, <1>3 DEF Range

\* The tests of a service, as a set, and the calls that they make.
Routes(s) == {Profile(s)} \cup (IF s = "worker-service" THEN {Reconcile} ELSE {})

Asks(s) == UNION {Range(route) : route \in Routes(s)}

\* service-smoke.sh runs the routes of the service, each at least once.
LEMMA TestsAreRoutes ==
    ASSUME NEW s
    PROVE  /\ Tests(s) \in Seq(Routes(s))
           /\ Len(Tests(s)) \in 1 .. 2
           /\ Range(Tests(s)) = Routes(s)
<1> DEFINE R == Routes(s)
           a == <<Profile(s)>>
           b == IF s = "worker-service" THEN <<Reconcile>> ELSE <<>>
<1>1. a \in Seq(R) /\ Range(a) = {Profile(s)} /\ Len(a) = 1
  BY OneOf DEF Routes
<1>2. /\ b \in Seq(R) /\ Len(b) \in 0 .. 1
      /\ Range(b) = IF s = "worker-service" THEN {Reconcile} ELSE {}
  <2>1. CASE s = "worker-service"
    <3>1. Reconcile \in R /\ b = <<Reconcile>>
      BY <2>1 DEF Routes
    <3> QED
      BY <2>1, <3>1, OneOf
  <2>2. CASE s # "worker-service"
    BY <2>2, NoneOf
  <2> QED
    BY <2>1, <2>2
<1> HIDE DEF R, a, b
<1>3. a \o b \in Seq(R) /\ Range(a \o b) = Range(a) \cup Range(b)
  BY <1>1, <1>2, RangeOfJoined
<1>4. Len(a \o b) = Len(a) + Len(b)
  <2>1. ASSUME NEW u \in Seq(R), NEW v \in Seq(R) PROVE Len(u \o v) = Len(u) + Len(v)
    OBVIOUS
  <2> QED
    BY <1>1, <1>2, <2>1
<1>5. Tests(s) = a \o b
  BY DEF Tests, a, b
<1> QED
  BY <1>1, <1>2, <1>3, <1>4, <1>5 DEF Routes, R

\* A route has one to three calls.
LEMMA RoutesAreShort ==
    ASSUME NEW s, NEW route \in Routes(s)
    PROVE  /\ route \in Seq(Asks(s))
           /\ Len(route) \in 1 .. 3
<1>1. Len(route) \in 1 .. 3 /\ route \in Seq(Range(route))
  <2>1. ASSUME NEW x, NEW y, NEW z,
               route = <<x>> \/ route = <<x, y>> \/ route = <<x, y, z>>
        PROVE  Len(route) \in 1 .. 3 /\ route \in Seq(Range(route))
    <3> DEFINE S == {x, y, z}
    <3>1. x \in S /\ y \in S /\ z \in S
      OBVIOUS
    <3> HIDE DEF S
    <3>2. <<x>> \in Seq(S) /\ <<x, y>> \in Seq(S) /\ <<x, y, z>> \in Seq(S)
      BY <3>1, OneOf, TwoOf, ThreeOf
    <3>3. Len(<<x>>) = 1 /\ Len(<<x, y>>) = 2 /\ Len(<<x, y, z>>) = 3
      OBVIOUS
    <3>4. route \in Seq(S) /\ Len(route) \in 1 .. 3
      <4>1. CASE route = <<x>>
        BY <3>2, <3>3, <4>1
      <4>2. CASE route = <<x, y>>
        BY <3>2, <3>3, <4>2
      <4>3. CASE route = <<x, y, z>>
        BY <3>2, <3>3, <4>3
      <4> QED
        BY <2>1, <4>1, <4>2, <4>3
    <3>5. \A i \in 1 .. Len(route) : route[i] \in Range(route)
      BY <3>4 DEF Range
    <3> QED
      BY <3>4, <3>5
  <2>2. CASE route = Profile(s)
    BY <2>1, <2>2 DEF Profile
  <2>3. CASE route = Reconcile
    BY <2>1, <2>3 DEF Reconcile
  <2> QED
    BY <2>2, <2>3 DEF Routes
<1>2. Range(route) \subseteq Asks(s)
  BY DEF Asks
<1> QED
  BY <1>1, <1>2

\* The API server's answer ends a route where, and only where, it refuses.
LEMMA RefusalsEndRoutes ==
    ASSUME NEW policy, NEW call
    PROVE  Answer(policy, call) \in Tolerated(call) <=> IsAuthorized(policy, call)
BY DEF Answer, Tolerated

\* A route comes to its end if all its calls are authorized: a conflict is
\* tolerated.
LEMMA ServedRoute ==
    ASSUME NEW policy, NEW S, NEW route \in Seq(S)
    PROVE  Ending(policy, route) = {} <=> \A e \in Range(route) : IsAuthorized(policy, e)
<1>1. DOMAIN route = 1 .. Len(route)
  OBVIOUS
<1>2. Ending(policy, route) = {i \in 1 .. Len(route) : ~IsAuthorized(policy, route[i])}
  BY RefusalsEndRoutes DEF Ending
<1> QED
  BY <1>1, <1>2 DEF Range

\* The smoke command passes if all calls of all tests are authorized.
LEMMA SmokeIsAuthorization ==
    ASSUME NEW policy
    PROVE  SmokePasses(policy) <=> \A e \in Asks(service) : IsAuthorized(policy, e)
<1>1. \A route \in Routes(service) :
          Ending(policy, route) = {} <=> \A e \in Range(route) : IsAuthorized(policy, e)
  BY RoutesAreShort, ServedRoute
<1>2. Range(Tests(service)) = Routes(service)
  BY TestsAreRoutes
<1> QED
  BY <1>1, <1>2 DEF SmokePasses, Asks

\* The declared calls are those of the tests.
LEMMA DeclaredCallsAreAsked ==
    ASSUME NEW s
    PROVE  DeclaredCalls(s) = Asks(s)
<1> DEFINE T == Tests(s)
<1>1. T \in Seq(Routes(s)) /\ Len(T) \in 1 .. 2 /\ Range(T) = Routes(s)
  BY TestsAreRoutes
<1>2. DeclaredCalls(s) = Range(FlattenSeq(T))
  BY DEF DeclaredCalls
<1> HIDE DEF T
<1>3. DOMAIN T = 1 .. Len(T) /\ \A t \in 1 .. Len(T) : T[t] \in Routes(s)
  BY <1>1
<1>4. \A t \in 1 .. Len(T) : T[t] \in Seq(Asks(s))
  BY <1>3, RoutesAreShort
<1>5. \A e : e \in Range(FlattenSeq(T)) <=> \E t \in 1 .. Len(T) : e \in Range(T[t])
  <2> DEFINE n == Len(T)
             S == Asks(s)
  <2>1. n \in 1 .. 2 /\ Len(T) = n /\ \A t \in 1 .. n : T[t] \in Seq(S)
    BY <1>1, <1>4
  <2> HIDE DEF n, S
  <2>2. \A e : e \in Range(FlattenSeq(T)) <=> \E t \in 1 .. n : e \in Range(T[t])
    BY <2>1, RangeOfFlattened
  <2> QED
    BY <2>2 DEF n
<1>6. Routes(s) = {T[t] : t \in 1 .. Len(T)}
  BY <1>1, <1>3 DEF Range
<1> QED
  BY <1>2, <1>5, <1>6 DEF Asks

\* The call that ends a route.
LEMMA LeastEnding ==
    ASSUME NEW policy, NEW route, Len(route) \in 1 .. 3, Ending(policy, route) # {}
    PROVE  Min(Ending(policy, route)) \in Ending(policy, route)
<1> DEFINE E == Ending(policy, route)
<1>1. E \subseteq 1 .. 3
  BY DEF Ending
<1>2. E # {}
  OBVIOUS
<1> HIDE DEF E
<1>3. \E x \in E : \A y \in E : x =< y
  <2>1. CASE 1 \in E
    BY <1>1, <2>1
  <2>2. CASE 1 \notin E /\ 2 \in E
    BY <1>1, <2>2
  <2>3. CASE 1 \notin E /\ 2 \notin E
    <3>1. \A x \in E : x = 1 \/ x = 2 \/ x = 3
      BY <1>1
    <3>2. E = {3}
      BY <1>2, <2>3, <3>1
    <3> QED
      BY <3>2
  <2> QED
    BY <2>1, <2>2, <2>3
<1>4. Min(E) \in E
  BY <1>3 DEF Min
<1> QED
  BY <1>4 DEF E

\* A route is made as far as the call that ends it.
LEMMA MadeIsPrefix ==
    ASSUME NEW policy, NEW S, NEW route \in Seq(S), Len(route) \in 1 .. 3
    PROVE  Made(policy, route) \in Seq(S)
<1> DEFINE E == Ending(policy, route)
<1>1. CASE E = {}
  BY <1>1 DEF Made
<1>2. CASE E # {}
  <2>1. Min(E) \in 1 .. Len(route)
    BY <1>2, LeastEnding DEF Ending
  <2>2. \A m \in 1 .. Len(route) : SubSeq(route, 1, m) \in Seq(S)
    OBVIOUS
  <2>3. Made(policy, route) = SubSeq(route, 1, Min(E))
    BY <1>2 DEF Made
  <2> QED
    BY <2>1, <2>2, <2>3
<1> QED
  BY <1>1, <1>2

\* That call was refused, and is made.
LEMMA RefusedIsMade ==
    ASSUME NEW policy, NEW S, NEW route \in Seq(S), Len(route) \in 1 .. 3,
           Ending(policy, route) # {}
    PROVE  \E e \in Range(Made(policy, route)) : ~IsAuthorized(policy, e)
<1> DEFINE m == Min(Ending(policy, route))
<1>1. m \in Ending(policy, route)
  BY LeastEnding
<1>2. m \in 1 .. Len(route) /\ ~IsAuthorized(policy, route[m])
  BY <1>1, RefusalsEndRoutes DEF Ending
<1>3. Made(policy, route) = SubSeq(route, 1, m)
  BY DEF Made
<1> HIDE DEF m
<1>4. route[m] \in Range(SubSeq(route, 1, m))
  <2>1. Len(SubSeq(route, 1, m)) = m /\ SubSeq(route, 1, m)[m] = route[m]
    BY <1>2
  <2>2. m \in DOMAIN SubSeq(route, 1, m)
    BY <1>2
  <2> QED
    BY <2>1, <2>2 DEF Range
<1> QED
  BY <1>2, <1>3, <1>4

\* The smoke command makes calls of the declared tests only.
LEMMA SmokeCallsAreDeclared ==
    /\ SmokeCalls(Live) \in Seq(Asks(service))
    /\ Refusals(Live) \subseteq Asks(service)
    /\ \A n \in 0 .. Len(SmokeCalls(Live)) :
          SubSeq(SmokeCalls(Live), 1, n) \in Seq(Asks(service))
<1> DEFINE S == Asks(service)
           T == Tests(service)
           n == Len(T)
           seqs == [t \in 1 .. n |-> Made(Live, T[t])]
<1>1. /\ n \in 1 .. 2 /\ DOMAIN T = 1 .. n
      /\ \A t \in 1 .. n : T[t] \in Routes(service)
  BY TestsAreRoutes
<1>2. \A t \in 1 .. n : T[t] \in Seq(S) /\ Len(T[t]) \in 1 .. 3
  BY <1>1, RoutesAreShort
<1> HIDE DEF S, T
<1>3. \A t \in 1 .. n : Made(Live, T[t]) \in Seq(S)
  BY <1>2, MadeIsPrefix
<1>4. SmokeCalls(Live) = FlattenSeq(seqs)
  BY DEF SmokeCalls, T
<1>5. Len(seqs) = n /\ \A t \in 1 .. n : seqs[t] \in Seq(S)
  BY <1>1, <1>3
<1> HIDE DEF seqs, n
<1>6. SmokeCalls(Live) \in Seq(S)
  <2>1. n \in 1 .. 2
    BY <1>1
  <2>2. FlattenSeq(seqs) \in Seq(S)
    BY <1>5, <2>1, RangeOfFlattened
  <2> QED
    BY <1>4, <2>2
<1>7. Range(SmokeCalls(Live)) \subseteq S
  BY <1>6 DEF Range
<1>8. \A m \in 0 .. Len(SmokeCalls(Live)) : SubSeq(SmokeCalls(Live), 1, m) \in Seq(S)
  BY <1>6
<1> QED
  BY <1>6, <1>7, <1>8 DEF Refusals, S

\* A smoke command that nothing else disturbs fails by a refusal.
LEMMA FailureIsRefusal ==
    ASSUME ~SmokePasses(Live)
    PROVE  \E e \in Refusals(Live) : ~IsAuthorized(Live, e)
<1> DEFINE S == Asks(service)
           T == Tests(service)
           n == Len(T)
           seqs == [t \in 1 .. n |-> Made(Live, T[t])]
<1>1. /\ n \in 1 .. 2 /\ DOMAIN T = 1 .. n
      /\ \A t \in 1 .. n : T[t] \in Routes(service)
  BY TestsAreRoutes
<1>2. PICK at \in 1 .. n : Ending(Live, T[at]) # {}
  BY <1>1 DEF SmokePasses, Range
<1>3. \A t \in 1 .. n : T[t] \in Seq(S) /\ Len(T[t]) \in 1 .. 3
  BY <1>1, RoutesAreShort
<1> HIDE DEF S, T
<1>4. \A t \in 1 .. n : Made(Live, T[t]) \in Seq(S)
  BY <1>3, MadeIsPrefix
<1>5. PICK e \in Range(Made(Live, T[at])) : ~IsAuthorized(Live, e)
  BY <1>2, <1>3, RefusedIsMade
<1>6. SmokeCalls(Live) = FlattenSeq(seqs)
  BY DEF SmokeCalls, T
<1>7. /\ Len(seqs) = n /\ \A t \in 1 .. n : seqs[t] \in Seq(S)
      /\ seqs[at] = Made(Live, T[at])
  BY <1>1, <1>4
<1>8. n \in 1 .. 2
  BY <1>1
<1> HIDE DEF seqs, n
<1>9. \A f : f \in Range(FlattenSeq(seqs)) <=> \E t \in 1 .. n : f \in Range(seqs[t])
  BY <1>7, <1>8, RangeOfFlattened
<1>10. e \in Range(SmokeCalls(Live))
  BY <1>5, <1>6, <1>7, <1>9
<1> QED
  BY <1>5, <1>10 DEF Refusals

\* Printing calls adds them to the log.
LEMMA LogGrows ==
    ASSUME NEW S, log \in Seq(S), NEW calls \in Seq(S), MakesCalls(Live, calls)
    PROVE  log' \in Seq(S)
<1> DEFINE new == {i \in 1 .. Len(calls) : calls[i] \notin Range(log)}
<1>1. PICK at \in InOrder(new) : log' = log \o [k \in DOMAIN at |-> calls[at[k]]]
  BY DEF MakesCalls
<1>2. Len(calls) \in Nat /\ new \subseteq 1 .. Len(calls)
  OBVIOUS
<1>3. IsFiniteSet(new)
  <2>1. IsFiniteSet(1 .. Len(calls))
    BY <1>2, FS_Interval
  <2> QED
    BY <1>2, <2>1, FS_Subset
<1> HIDE DEF new
<1>4. Cardinality(new) \in Nat
  BY <1>3, FS_CardinalityType
<1>5. DOMAIN at = 1 .. Cardinality(new) /\ \A k \in DOMAIN at : at[k] \in new
  BY DEF InOrder
<1>6. \A k \in DOMAIN at : calls[at[k]] \in S
  <2>1. \A i \in 1 .. Len(calls) : calls[i] \in S
    OBVIOUS
  <2> QED
    BY <1>2, <1>5, <2>1
<1> DEFINE added == [k \in 1 .. Cardinality(new) |-> calls[at[k]]]
<1>7. added \in Seq(S)
  BY <1>4, <1>5, <1>6
<1>8. log' = log \o added
  BY <1>1, <1>5
<1> HIDE DEF added
<1> QED
  BY <1>7, <1>8

\* In particular with what is in force.
LEMMA SmokeIsAuthorized ==
    SmokePasses(Live) <=> \A e \in Asks(service) : IsAuthorized(Live, e)
BY SmokeIsAuthorization

\* A passed smoke command would pass again.
LEMMA SmokeStaysPassed ==
    ASSUME SmokePasses(Live), UNCHANGED <<bound, service>>
    PROVE  SmokePasses(Live)'
<1>1. Live' = Live
  BY DEF Live
<1>2. (SmokePasses(Live) <=> \A e \in Asks(service) : IsAuthorized(Live, e))'
  BY SmokeIsAuthorized, PTL
<1> QED
  BY <1>1, <1>2, SmokeIsAuthorized

\* The manifest of a service grants every call of its tests.
LEMMA TestsAreGranted ==
    ASSUME service \in Services, NEW policy, ReferencePolicy(service) \subseteq policy
    PROVE  \A e \in Asks(service) : IsAuthorized(policy, e)
<1>1. ASSUME NEW group, NEW resource, NEW verb \in SupportedVerbs, NEW resources,
             resource \in resources, NEW name
      PROVE  \E p \in Granted(group, resources) : Matches(p, Key(group, resource, verb, Namespace, name))
  <2>1. Key(group, resource, verb, Namespace, None) \in Granted(group, resources)
    BY <1>1 DEF Granted
  <2>2. Matches(Key(group, resource, verb, Namespace, None), Key(group, resource, verb, Namespace, name))
    BY DEF Matches, Key
  <2> QED
    BY <2>1, <2>2
<1>2. "get" \in SupportedVerbs /\ "list" \in SupportedVerbs
  BY DEF SupportedVerbs
<1>3. ASSUME NEW resources, "configmaps" \in resources
      PROVE  \E p \in Granted("", resources) : Matches(p, ReadConfig)
  BY <1>1, <1>2, <1>3 DEF ReadConfig
<1>4. ASSUME NEW resources, "secrets" \in resources, NEW name
      PROVE  \E p \in Granted("", resources) : Matches(p, ReadSecret(name))
  BY <1>1, <1>2, <1>4 DEF ReadSecret
<1>5. ASSUME NEW resources, "pods" \in resources
      PROVE  \E p \in Granted("", resources) : Matches(p, ListPods)
  BY <1>1, <1>2, <1>5 DEF ListPods
<1>6. IsAuthorized(policy, ReadConfig)
  <2>1. \E resources : "configmaps" \in resources /\ Granted("", resources) \subseteq policy
    BY ServicesAssumption DEF ReferencePolicy
  <2> QED
    BY <1>3, <2>1 DEF IsAuthorized
<1>7. ASSUME service \in {"auth-service", "payment-service"}, NEW name
      PROVE  IsAuthorized(policy, ReadSecret(name))
  <2>1. \E resources : "secrets" \in resources /\ Granted("", resources) \subseteq policy
    BY <1>7 DEF ReferencePolicy
  <2> QED
    BY <1>4, <2>1 DEF IsAuthorized
<1>8. ASSUME service = "payment-service" PROVE IsAuthorized(policy, ListPods)
  <2>1. \E resources : "pods" \in resources /\ Granted("", resources) \subseteq policy
    BY <1>8 DEF ReferencePolicy
  <2> QED
    BY <1>5, <2>1 DEF IsAuthorized
<1>9. \A e \in Range(Profile(service)) : IsAuthorized(policy, e)
  <2>1. CASE service = "auth-service"
    <3>1. Profile(service) = <<ReadConfig, ReadSecret("auth-secret")>>
      BY <2>1 DEF Profile
    <3>2. Range(Profile(service)) = {ReadConfig, ReadSecret("auth-secret")}
      BY <3>1, TwoOf
    <3> QED
      BY <1>6, <1>7, <2>1, <3>2
  <2>2. CASE service = "payment-service"
    <3>1. Profile(service) = <<ReadConfig, ReadSecret("payment-secret"), ListPods>>
      BY <2>2 DEF Profile
    <3>2. Range(Profile(service)) = {ReadConfig, ReadSecret("payment-secret"), ListPods}
      BY <3>1, ThreeOf
    <3> QED
      BY <1>6, <1>7, <1>8, <2>2, <3>2
  <2>3. CASE service \notin {"auth-service", "payment-service"}
    <3>1. Profile(service) = <<ReadConfig>>
      BY <2>3 DEF Profile
    <3>2. Range(Profile(service)) = {ReadConfig}
      BY <3>1, OneOf
    <3> QED
      BY <1>6, <3>2
  <2> QED
    BY <2>1, <2>2, <2>3
<1>10. ASSUME service = "worker-service"
       PROVE  \A e \in Range(Reconcile) : IsAuthorized(policy, e)
  <2>1. Granted("batch", {"jobs"}) \subseteq policy
    BY <1>10 DEF ReferencePolicy
  <2>2. ASSUME NEW verb \in SupportedVerbs PROVE IsAuthorized(policy, JobCall(verb))
    BY <1>1, <2>1 DEF JobCall, IsAuthorized
  <2>3. {"create", "get", "delete"} \subseteq SupportedVerbs
    BY DEF SupportedVerbs
  <2>4. Range(Reconcile) = {JobCall("create"), JobCall("get"), JobCall("delete")}
    BY ThreeOf DEF Reconcile
  <2> QED
    BY <2>2, <2>3, <2>4
<1> QED
  BY <1>9, <1>10 DEF Asks, Routes

-----------------------------------------------------------------------------
(* `kuber optimize` on a sandbox.  A command that is killed, or whose graph *)
(* raises, leaves the graph's state anywhere, and a handler that has run   *)
(* leaves another policy than the graph's, so BindingInv holds where the   *)
(* worker has the workload, while a command runs and after one that has    *)
(* come to the end of its graph.                                           *)

Preparing == {"warmup", "enter", "reading"} \cup Waits
Active == Optimizing \cup {"closing"}

Alive == cmd # "ended" \/ node = "END"
Going == worker = "busy" /\ Alive

\* What no command and no failure changes.
Sandbox ==
    /\ service \in Services
    /\ manifest \in Policies
    /\ manifest = ReferencePolicy(service)
    /\ required = Asks(service)
    /\ required \in SUBSET Events
    /\ log \in Seq(required)
    /\ attempt \in Nat
    /\ Within(bound, manifest)
    /\ cmd \in Preparing \cup Active \cup {"ended"}
    /\ untested \in 0 .. Len(Tests(service))

\* Until the first delivery tries a candidate, the manifest is in force.
Prepared ==
    /\ cmd \in Preparing => node = "load_service_context" /\ attempt = 0
    /\ cmd = "ended" => node \in Terminal \cup {"load_service_context"}
    /\ (/\ node = "load_service_context" /\ attempt = 0
        /\ cmd # "ended" \/ outcome \notin {"killed", "reset_failed"}) => manifest \subseteq Live
    /\ dryRun => cmd = "ended" /\ manifest \subseteq Live

\* What the worker leaves, when it has given the workload up.
Left ==
    worker # "busy" =>
        /\ cmd \notin Preparing
        /\ node \in Terminal
        /\ worker # "unrestored" => manifest \subseteq Live

\* Under a policy that is accepted, the smoke command would pass again.
Served ==
    (Going /\ (accepted \/ node \in {"check_more_reductions", "final_verify"})) =>
        SmokePasses(Live)

CommandInv == Sandbox /\ Prepared /\ Left /\ (Going => BindingInv) /\ Served

\* The sandbox is set up before the first command.
LEMMA CommandInitially == CommandInit => CommandInv
<1> SUFFICES ASSUME CommandInit PROVE CommandInv
  OBVIOUS
<1>1. ClusterInv
  BY ClusterInitially DEF CommandInit, ReferenceInit
<1>2. manifest \subseteq Live
  BY ManifestIsBound DEF CommandInit, ReferenceInit, KubernetesInit, Live
<1>3. required = Asks(service)
  BY DeclaredCallsAreAsked DEF CommandInit, ReferenceInit
<1>4. log \in Seq(required)
  BY NoneOf DEF CommandInit, ReferenceInit
<1>5. Sandbox
  BY <1>1, <1>3, <1>4, TestsAreRoutes
     DEF Sandbox, CommandInit, ReferenceInit, KubernetesInit, ClusterInv, BindingInv, Covered
<1> QED
  BY <1>1, <1>2, <1>5 DEF CommandInv, Prepared, Left, Preparing, Waits, Served, Going, Alive, ClusterInv,
     CommandInit, ReferenceInit, KubernetesInit, GraphInit

\* What a smoke command that runs to its end, or not, means for the graph.
LEMMA VerificationIsHonest ==
    ASSUME Sandbox, BindingInv, ReferenceVerify \/ ReferenceVerifyDisturbed
    PROVE  /\ \E r \in Results : /\ Verify(r)
                                 /\ r.passed => SmokePasses(Live)
                                 /\ r.denied \subseteq unread \cup required
           /\ unread' \in SUBSET Events /\ unread' \subseteq unread \cup required
           /\ \E calls \in Seq(required) : MakesCalls(Live, calls)
           /\ UNCHANGED <<service, bound, documents, runVars, fixedVars>>
<1>1. /\ SmokeCalls(Live) \in Seq(required)
      /\ Refusals(Live) \subseteq Events /\ Refusals(Live) \subseteq required
      /\ \A n \in 0 .. Len(SmokeCalls(Live)) : SubSeq(SmokeCalls(Live), 1, n) \in Seq(required)
  BY SmokeCallsAreDeclared DEF Sandbox
<1>2. \E refused \in SUBSET Refusals(Live), calls \in Seq(required) :
          Reads(refused) /\ MakesCalls(Live, calls)
  <2>1. CASE ReferenceVerify
    BY <1>1, <2>1 DEF ReferenceVerify
  <2>2. CASE ReferenceVerifyDisturbed
    <3>1. PICK n \in 0 .. Len(SmokeCalls(Live)) :
              LET calls == SubSeq(SmokeCalls(Live), 1, n)
              IN  /\ Reads(Range(calls) \cap Refusals(Live))
                  /\ MakesCalls(Live, calls)
      BY <2>2 DEF ReferenceVerifyDisturbed
    <3>2. Range(SubSeq(SmokeCalls(Live), 1, n)) \cap Refusals(Live) \in SUBSET Refusals(Live)
      OBVIOUS
    <3> QED
      BY <1>1, <3>1, <3>2
  <2> QED
    BY <2>1, <2>2
<1>3. PICK refused \in SUBSET Refusals(Live), calls \in Seq(required) :
          Reads(refused) /\ MakesCalls(Live, calls)
  BY <1>2
<1>4. PICK late \in SUBSET (unread \cup refused) :
          /\ Verify([passed |-> SmokePasses(Live) /\ ~disturbed', denied |-> (unread \cup refused) \ late])
          /\ unread' = late
  BY <1>3 DEF Reads
<1> DEFINE passed == SmokePasses(Live) /\ ~disturbed'
           r == [passed |-> passed, denied |-> (unread \cup refused) \ late]
<1>5. r \in Results
  <2>1. passed \in BOOLEAN
    OBVIOUS
  <2>2. (unread \cup refused) \ late \in SUBSET Events
    BY <1>1 DEF BindingInv, Loaded
  <2> HIDE DEF passed
  <2> QED
    BY <2>1, <2>2 DEF Results
<1>6. Verify(r) /\ (r.passed => SmokePasses(Live)) /\ r.denied \subseteq unread \cup required
  BY <1>1, <1>4
<1>7. unread' \in SUBSET Events /\ unread' \subseteq unread \cup required
  BY <1>1, <1>4 DEF BindingInv, Loaded
<1>8. UNCHANGED <<service, bound, documents, runVars, fixedVars>>
  BY DEF ReferenceVerify, ReferenceVerifyDisturbed
<1> HIDE DEF r
<1> QED
  BY <1>3, <1>5, <1>6, <1>7, <1>8

\* The evidence is what the service printed.
LEMMA RangeOfPrefix ==
    ASSUME NEW S, NEW s \in Seq(S), NEW m \in 0 .. Len(s)
    PROVE  Range(SubSeq(s, 1, m)) \subseteq S
<1> DEFINE c == SubSeq(s, 1, m)
<1>1. c \in Seq(S)
  OBVIOUS
<1> HIDE DEF c
<1>2. Range(c) \subseteq S
  BY <1>1 DEF Range
<1> QED
  BY <1>2 DEF c

\* So reading the log is a step of the adapter that any log allows.
LEMMA ReferenceGatherIsGather ==
    ASSUME Sandbox, ReferenceGather
    PROVE  KubeGather
<1>1. PICK n \in 0 .. Len(log) : Gather(Range(SubSeq(log, 1, n)))
  BY DEF ReferenceGather
<1>2. Range(SubSeq(log, 1, n)) \in SUBSET Events
  BY RangeOfPrefix DEF Sandbox
<1> QED
  BY <1>1, <1>2 DEF ReferenceGather, KubeGather

\* The steps of the graph and of the handler that begins it again.
SystemStep == GraphThread \/ (WorkerHandler /\ WorkerRetries) \/ HandlerForgets

\* A graph that is not at its end has its worker.
LEMMA GraphIsGoing ==
    ASSUME CommandInv, GraphThread
    PROVE  worker = "busy" /\ worker' = worker /\ node \notin Terminal
<1>1. node \notin Terminal
  <2>1. CASE GraphRuns
    BY <2>1 DEF GraphRuns, GraphStep, LoadContext, Generate, GenerateRaises, Validate, CheckMore,
       FinalVerify, Diagnose, Repair, RepairRefused, HumanReview, Finalize, PublishResult,
       KubeInspect, Inspect, KubeApply, Apply, KubeRestore, Restore, KubeApplyFails,
       KubeRestoreFails, EnvironmentRaises, Goto, Terminal
  <2>2. CASE ReferenceGather \/ ReferenceCallFails
    BY <2>2 DEF ReferenceGather, Gather, ReferenceCallFails, KubeCallFails, Goto, Terminal
  <2>3. CASE ReferenceVerify \/ ReferenceVerifyDisturbed
    <3>1. \E r : Verify(r)
      BY <2>3 DEF ReferenceVerify, ReferenceVerifyDisturbed, Reads
    <3> QED
      BY <3>1 DEF Verify, Goto, Terminal
  <2> QED
    BY <2>1, <2>2, <2>3 DEF GraphThread, ReferenceGraphNext
<1>2. worker' = worker
  BY DEF GraphThread, ReferenceGraphNext, GraphRuns, KubeInspect, KubeApply, KubeRestore,
     KubeApplyFails, KubeRestoreFails, ReferenceGather, ReferenceVerify, ReferenceVerifyDisturbed,
     ReferenceCallFails, KubeCallFails, runVars
<1> QED
  BY <1>1, <1>2 DEF CommandInv, Left

\* So does one that a handler begins again.
LEMMA SystemIsGoing ==
    ASSUME CommandInv, SystemStep
    PROVE  /\ Sandbox /\ BindingInv /\ Served /\ Going
           /\ worker = "busy" /\ worker' = worker
           /\ cmd \in Active /\ cmd' = cmd /\ untested' = untested
<1>1. worker = "busy" /\ worker' = worker
  BY GraphIsGoing DEF SystemStep, WorkerHandler, ReferenceWorkerNext, WorkerRetries, HandlerForgets,
     HandlerRetries
<1>2. cmd \in Active /\ cmd' = cmd /\ untested' = untested /\ cmd # "ended"
  BY DEF SystemStep, GraphThread, WorkerHandler, HandlerForgets, Active, Optimizing, commandVars,
     taskVars
<1> QED
  BY <1>1, <1>2 DEF CommandInv, Going, Alive

\* The graph and the worker keep to the operations of the adapter.
LEMMA SystemKeepsBindings ==
    ASSUME CommandInv, SystemStep
    PROVE  BindingInv'
<1>1. Sandbox /\ BindingInv
  BY SystemIsGoing
<1>2. CASE GraphRuns \/ HandlerRetries
  <2>1. GraphRuns => KubernetesNext
    BY DEF GraphRuns, KubernetesNext
  <2> QED
    BY <1>1, <1>2, <2>1, BindingsArePreserved, WorkerKeepsBindings
<1>3. CASE ReferenceGather
  BY <1>1, <1>3, ReferenceGatherIsGather, EarlyStepsKeepBindings
<1>4. CASE ReferenceVerify \/ ReferenceVerifyDisturbed
  BY <1>1, <1>4, VerificationIsHonest, VerifyingKeepsBindings
<1>5. CASE ReferenceCallFails
  BY <1>1, <1>5, FailingKeepsBindings DEF ReferenceCallFails
<1> QED
  BY <1>2, <1>3, <1>4, <1>5 DEF SystemStep, GraphThread, ReferenceGraphNext, WorkerHandler,
     ReferenceWorkerNext, WorkerRetries, HandlerForgets

\* Calls that fail are calls of the declared tests, too.
LEMMA FailingMakesCalls ==
    ASSUME Sandbox, ReferenceCallFails
    PROVE  \E calls \in Seq(required) : MakesCalls(Live, calls)
<1>1. PICK n \in 0 .. IF node = "verify" THEN Len(SmokeCalls(Live)) ELSE 0 :
          MakesCalls(Live, SubSeq(SmokeCalls(Live), 1, n))
  BY DEF ReferenceCallFails
<1>2. SmokeCalls(Live) \in Seq(required)
  BY SmokeCallsAreDeclared DEF Sandbox
<1>3. n \in 0 .. Len(SmokeCalls(Live))
  <2>1. Len(SmokeCalls(Live)) \in Nat
    BY <1>2
  <2> HIDE DEF MakesCalls
  <2> QED
    BY <2>1
<1>4. SubSeq(SmokeCalls(Live), 1, n) \in Seq(required)
  BY <1>3, SmokeCallsAreDeclared DEF Sandbox
<1> QED
  BY <1>1, <1>4

\* What no step of the graph or the worker changes.
LEMMA SystemFrame ==
    ASSUME CommandInv, SystemStep
    PROVE  /\ UNCHANGED <<service, manifest, required, dryRun>>
           /\ log' \in Seq(required)
           /\ attempt' \in Nat
           /\ node' = "load_service_context" => attempt' # 0
<1>1. Sandbox /\ BindingInv
  BY SystemIsGoing
<1>2. ASSUME NEW calls \in Seq(required), MakesCalls(Live, calls)
      PROVE  log' \in Seq(required)
  BY <1>1, <1>2, LogGrows DEF Sandbox
<1>3. CASE GraphRuns /\ UNCHANGED referenceVars
  <2>1. UNCHANGED <<manifest, required, dryRun, attempt, service, log>>
    BY <1>3 DEF GraphRuns, KubeInspect, KubeApply, KubeRestore, KubeApplyFails, KubeRestoreFails,
       runVars, fixedVars, referenceVars
  <2>2. node' # "load_service_context"
    BY <1>3 DEF GraphRuns, GraphStep, LoadContext, Generate, GenerateRaises, Validate, CheckMore,
       FinalVerify, Diagnose, Repair, RepairRefused, HumanReview, Finalize, PublishResult,
       KubeInspect, Inspect, KubeApply, Apply, KubeRestore, Restore, KubeApplyFails,
       KubeRestoreFails, EnvironmentRaises, Goto
  <2> QED
    BY <1>1, <2>1, <2>2 DEF Sandbox
<1>4. CASE ReferenceGather
  BY <1>1, <1>4 DEF Sandbox, ReferenceGather, Gather, Goto, runVars, fixedVars, referenceVars
<1>5. CASE ReferenceVerify \/ ReferenceVerifyDisturbed
  <2>1. \E calls \in Seq(required) : MakesCalls(Live, calls)
    BY <1>1, <1>5, VerificationIsHonest
  <2>2. UNCHANGED <<service, manifest, required, dryRun, attempt>>
    BY <1>1, <1>5, VerificationIsHonest DEF runVars, fixedVars
  <2>3. node' # "load_service_context"
    BY <1>1, <1>5, VerificationIsHonest DEF Verify, Goto, RouteVerification
  <2> QED
    BY <1>1, <1>2, <2>1, <2>2, <2>3 DEF Sandbox
<1>6. CASE ReferenceCallFails
  <2>1. \E calls \in Seq(required) : MakesCalls(Live, calls)
    BY <1>1, <1>6, FailingMakesCalls
  <2>2. UNCHANGED <<service, manifest, required, dryRun, attempt>> /\ node' = "raised"
    BY <1>6 DEF ReferenceCallFails, KubeCallFails, EnvironmentRaises, Goto, runVars, fixedVars
  <2> QED
    BY <1>1, <1>2, <2>1, <2>2 DEF Sandbox
<1>7. CASE HandlerRetries /\ UNCHANGED referenceVars
  <2>1. UNCHANGED <<manifest, required, dryRun, service, log>> /\ attempt' = attempt + 1
    BY <1>7 DEF HandlerRetries, fixedVars, referenceVars
  <2>2. attempt \in Nat
    BY <1>1 DEF Sandbox
  <2>3. attempt' \in Nat /\ attempt' # 0
    BY <2>1, <2>2
  <2> QED
    BY <1>1, <2>1, <2>3 DEF Sandbox
<1> QED
  BY <1>3, <1>4, <1>5, <1>6, <1>7 DEF SystemStep, GraphThread, ReferenceGraphNext, WorkerHandler,
     ReferenceWorkerNext, WorkerRetries, HandlerForgets

\* A policy gets accepted under which the smoke command passed, and stays
\* bound.
LEMMA SystemKeepsServed ==
    ASSUME CommandInv, SystemStep
    PROVE  Served'
<1>1. Sandbox /\ BindingInv /\ Served /\ Going
  BY SystemIsGoing
<1>2. accepted => node \in Closing
  BY <1>1 DEF BindingInv, Loaded
<1> USE DEF Goto, policyVars, verificationVars, counterVars, clusterVars, runVars, fixedVars
<1>3. ASSUME SmokePasses(Live), UNCHANGED bound
      PROVE  SmokePasses(Live)'
  BY <1>1, <1>3, SystemFrame, SmokeStaysPassed DEF Sandbox
<1>4. CASE GraphStep /\ UNCHANGED <<clusterVars, runVars, fixedVars>>
  BY <1>1, <1>2, <1>3, <1>4 DEF Served, Closing, GraphStep, LoadContext, Generate,
     GenerateRaises, Validate, CheckMore, FinalVerify, Diagnose, Repair, RepairRefused,
     HumanReview, Finalize, PublishResult
<1>5. CASE KubeInspect \/ KubeApply \/ KubeRestore \/ KubeApplyFails \/ KubeRestoreFails
  BY <1>2, <1>5 DEF Served, Closing, KubeInspect, Inspect, KubeApply, Apply,
     KubeRestore, Restore, KubeApplyFails, KubeRestoreFails, EnvironmentRaises, EnvironmentNodes
<1>6. CASE ReferenceGather
  BY <1>2, <1>6 DEF Served, Closing, ReferenceGather, Gather
<1>7. CASE ReferenceVerify \/ ReferenceVerifyDisturbed
  <2>1. PICK r \in Results : Verify(r) /\ (r.passed => SmokePasses(Live))
    BY <1>1, <1>7, VerificationIsHonest
  <2>2. bound' = bound
    BY <1>1, <1>7, VerificationIsHonest
  <2>3. /\ node = "verify" /\ accepted' = accepted
        /\ node' # "final_verify"
        /\ node' = "check_more_reductions" => r.passed
    BY <2>1 DEF Verify, RouteVerification
  <2> QED
    BY <1>2, <1>3, <2>1, <2>2, <2>3 DEF Served, Closing
<1>8. CASE ReferenceCallFails
  BY <1>2, <1>8 DEF Served, Closing, ReferenceCallFails, KubeCallFails, EnvironmentRaises
<1>9. CASE HandlerRetries
  BY <1>9 DEF Served, HandlerRetries, GraphResume
<1> QED
  BY <1>4, <1>5, <1>6, <1>7, <1>8, <1>9 DEF SystemStep, GraphThread, ReferenceGraphNext, GraphRuns,
     WorkerHandler, ReferenceWorkerNext, WorkerRetries, HandlerForgets

\* The optimization keeps the invariant of the command.
LEMMA SystemKeepsCommandInv ==
    ASSUME CommandInv, SystemStep
    PROVE  CommandInv'
<1>1. BindingInv' /\ Served'
  BY SystemKeepsBindings, SystemKeepsServed
<1>2. /\ cmd \in Active /\ cmd' = cmd /\ worker' = "busy" /\ untested' = untested
      /\ cmd \notin Preparing /\ cmd # "ended"
  BY SystemIsGoing DEF Active, Optimizing, Preparing, Waits
<1>3. Sandbox'
  BY <1>1, <1>2, SystemFrame DEF CommandInv, Sandbox, BindingInv, Covered
<1>4. Prepared' /\ Left'
  BY <1>2, SystemFrame DEF CommandInv, Prepared, Left
<1> QED
  BY <1>1, <1>3, <1>4 DEF CommandInv

\* So does a handler that gives the workload up.
LEMMA LeavingKeepsCommandInv ==
    ASSUME CommandInv, HandlerLeaves, cmd \in Optimizing, node \in Terminal, attempt' \in Nat,
           UNCHANGED <<referenceVars, commandVars, untested>>
    PROVE  CommandInv'
<1>1. Going /\ BindingInv /\ Sandbox
  BY DEF CommandInv, Going, Alive, HandlerLeaves, Optimizing
<1>2. /\ worker' # "busy" /\ node' \in Terminal
      /\ UNCHANGED <<service, manifest, required, dryRun, log, cmd>>
  BY DEF HandlerLeaves, graphVars, fixedVars, referenceVars, commandVars
<1>3. Within(bound, manifest)' /\ (worker' # "unrestored" => (manifest \subseteq Live)')
  <2>1. worker' \in {"restored", "unrestored"}
    BY DEF HandlerLeaves
  <2> QED
    BY <1>1, <2>1, HandlerKeepsWithin, HandlerGivesBack
<1>4. cmd \notin Preparing /\ cmd # "ended" /\ "load_service_context" \notin Terminal
  BY DEF Optimizing, Preparing, Waits, Terminal
<1>5. Sandbox'
  BY <1>1, <1>2, <1>3 DEF Sandbox
<1>6. Prepared' /\ Left'
  BY <1>2, <1>3, <1>4 DEF CommandInv, Prepared, Left
<1> QED
  BY <1>2, <1>5, <1>6 DEF CommandInv, Going, Served

\* The steps that leave the graph, the worker and the bindings alone.
LEMMA AsideKeepsCommandInv ==
    ASSUME CommandInv, UNCHANGED <<graphVars, bound, documents, runVars, fixedVars, service>>,
           unread \in SUBSET Events => unread' \in SUBSET Events,
           log' \in Seq(required), untested' \in 0 .. Len(Tests(service)),
           cmd' \in Preparing \cup Active \cup {"ended"},
           cmd' # "ended" => cmd # "ended",
           cmd' \in Preparing => cmd \in Preparing,
           cmd' = "ended" => cmd \in Preparing \/ dryRun \/ UNCHANGED <<cmd, outcome>>
    PROVE  CommandInv'
<1>1. /\ UNCHANGED <<node, accepted, bound, manifest, required, dryRun, attempt, worker>>
      /\ Live' = Live
  BY DEF graphVars, runVars, fixedVars, Live
<1>2. Going' => Going
  BY <1>1 DEF Going, Alive
<1>3. (Going => BindingInv)'
  <2>1. Going' => unread' \in SUBSET Events
    BY <1>2 DEF CommandInv, BindingInv, Loaded
  <2> QED
    BY <1>2, <2>1, BindingsStutter DEF CommandInv
<1>4. Sandbox'
  BY <1>1 DEF CommandInv, Sandbox, Within
<1>5. Prepared' /\ Left'
  <2>1. "ended" \notin Preparing
    BY DEF Preparing, Waits
  <2> QED
    BY <1>1, <2>1 DEF CommandInv, Prepared, Left
<1>6. SmokePasses(Live) => SmokePasses(Live)'
  BY <1>1, SmokeStaysPassed
<1>7. Served'
  BY <1>1, <1>2, <1>6 DEF CommandInv, Served
<1> QED
  BY <1>3, <1>4, <1>5, <1>7 DEF CommandInv

\* A test makes calls that are required.
LEMMA RouteMakesCalls ==
    ASSUME Sandbox, NEW route \in Routes(service)
    PROVE  Made(Live, route) \in Seq(required)
<1>1. route \in Seq(required) /\ Len(route) \in 1 .. 3
  BY RoutesAreShort DEF Sandbox
<1> QED
  BY <1>1, MadeIsPrefix

\* So does each test of the end-to-end test.
LEMMA SystemTestMakesCalls ==
    ASSUME Sandbox, SystemTest
    PROVE  /\ \E calls \in Seq(required) :
                  /\ MakesCalls(Live, calls)
                  /\ unread' = unread \cup {e \in Range(calls) : ~IsAuthorized(Live, e)}
           /\ untested' \in 0 .. Len(Tests(service))
<1> DEFINE route == Tests(service)[Len(Tests(service)) - untested + 1]
<1>1. Len(Tests(service)) \in 1 .. 2
  BY TestsAreRoutes
<1>2. untested \in 1 .. Len(Tests(service))
  BY <1>1 DEF Sandbox, SystemTest
<1>3. route \in Routes(service)
  <2>1. Len(Tests(service)) - untested + 1 \in 1 .. Len(Tests(service))
    BY <1>1, <1>2
  <2> QED
    BY <2>1, TestsAreRoutes
<1>4. /\ MakesCalls(Live, Made(Live, route))
      /\ unread' = unread \cup {e \in Range(Made(Live, route)) : ~IsAuthorized(Live, e)}
      /\ untested' = untested - 1
  BY DEF SystemTest
<1> HIDE DEF route
<1>5. untested' \in 0 .. Len(Tests(service))
  BY <1>1, <1>2, <1>4
<1> QED
  BY <1>3, <1>4, <1>5, RouteMakesCalls

\* The preparation, the port-forwards, the worker's result and the
\* coordinator.
LEMMA CommandStepsKeepCommandInv ==
    ASSUME CommandInv,
           \/ GuardRefuses \/ PreparationStep \/ WorkerPublishes
           \/ CoordinatorReports \/ SystemTest \/ SystemTestEnds \/ CoordinatorRaises
           \/ /\ cmd \in Waits \cup {"reading"}
              /\ \E p \in Ports : ForwardBinds(p) \/ ForwardDies(p) \/ StrayDies(p)
           \/ UNCHANGED commandAllVars
    PROVE  CommandInv'
<1>1. Sandbox
  BY DEF CommandInv
<1>2. ASSUME NEW calls \in Seq(required), MakesCalls(Live, calls)
      PROVE  log' \in Seq(required)
  BY <1>1, <1>2, LogGrows DEF Sandbox
<1>3. ASSUME UNCHANGED allVars
      PROVE  /\ UNCHANGED <<graphVars, bound, documents, runVars, fixedVars, service, unread>>
             /\ log' \in Seq(required)
  BY <1>1, <1>3 DEF Sandbox, allVars, vars, clusterVars, referenceVars
<1>4. Len(Tests(service)) \in 1 .. 2
  BY TestsAreRoutes
<1>5. CASE Warmup
  <2>1. log' \in Seq(required)
    <3>1. Made(Live, Profile(service)) \in Seq(required)
      BY <1>1, RouteMakesCalls DEF Routes
    <3> QED
      BY <1>2, <1>5, <3>1 DEF Warmup
  <2>2. /\ UNCHANGED <<graphVars, bound, documents, unread, runVars, fixedVars, service, untested>>
        /\ cmd = "warmup" /\ cmd' \in {"enter", "ended"}
    BY <1>5 DEF Warmup, Ends, vars, clusterVars, taskVars
  <2> QED
    BY <1>1, <2>1, <2>2, AsideKeepsCommandInv DEF Preparing, Sandbox
<1>6. CASE SystemTest
  <2>1. PICK calls \in Seq(required) :
            /\ MakesCalls(Live, calls)
            /\ unread' = unread \cup {e \in Range(calls) : ~IsAuthorized(Live, e)}
    BY <1>1, <1>6, SystemTestMakesCalls
  <2>2. log' \in Seq(required)
    BY <1>2, <2>1
  <2>3. unread \in SUBSET Events => unread' \in SUBSET Events
    BY <1>1, <2>1 DEF Range, Sandbox
  <2>4. untested' \in 0 .. Len(Tests(service))
    BY <1>1, <1>6, SystemTestMakesCalls
  <2>5. /\ UNCHANGED <<graphVars, bound, documents, runVars, fixedVars, service, cmd>>
        /\ cmd = "testing"
    BY <1>6 DEF SystemTest
  <2> QED
    BY <2>2, <2>3, <2>4, <2>5, AsideKeepsCommandInv DEF Active, Optimizing, Preparing, Waits
<1>7. CASE CoordinatorReports \/ SystemTestEnds \/ CoordinatorRaises
  <2>1. UNCHANGED allVars /\ cmd \in Optimizing /\ cmd' \in {"testing", "closing"}
    BY <1>7 DEF CoordinatorReports, SystemTestEnds, CoordinatorRaises, Optimizing
  <2>2. untested' \in {untested, Len(Tests(service))}
    BY <1>7 DEF CoordinatorReports, SystemTestEnds, CoordinatorRaises, taskVars
  <2>3. untested' \in 0 .. Len(Tests(service))
    BY <1>1, <1>4, <2>2 DEF Sandbox
  <2> QED
    BY <1>3, <2>1, <2>3, AsideKeepsCommandInv DEF Active, Optimizing, Preparing, Waits
<1>8. CASE GuardRefuses \/ WarmupFails \/ EnterForwards \/ WaitSucceeds \/ WaitFindsDead
           \/ ReadEnds \/ WaitTimesOut
  <2>1. UNCHANGED allVars /\ untested' = untested
    BY <1>8 DEF GuardRefuses, WarmupFails, EnterForwards, WaitSucceeds, WaitFindsDead, ReadEnds,
       WaitTimesOut, taskVars
  <2>2. /\ cmd' \in Preparing \cup Active \cup {"ended"}
        /\ cmd' # "ended" => cmd # "ended"
        /\ cmd' \in Preparing => cmd \in Preparing
        /\ cmd \in Preparing \/ dryRun
    BY <1>8 DEF GuardRefuses, WarmupFails, EnterForwards, WaitSucceeds, WaitFindsDead, ReadEnds,
       WaitTimesOut, Ends, Preparing, Waits, Active, Optimizing
  <2> QED
    BY <1>1, <1>3, <2>1, <2>2, AsideKeepsCommandInv DEF Sandbox
<1>9. CASE \/ WorkerPublishes
            \/ /\ cmd \in Waits \cup {"reading"}
               /\ \E p \in Ports : ForwardBinds(p) \/ ForwardDies(p) \/ StrayDies(p)
            \/ UNCHANGED commandAllVars
  <2>1. UNCHANGED <<allVars, cmd, outcome, untested>>
    BY <1>9 DEF WorkerPublishes, StoreReply, PublishReply, AcknowledgeRequest, ForwardBinds,
       ForwardDies, StrayDies, commandAllVars, commandVars, taskVars
  <2> QED
    BY <1>1, <1>3, <2>1, AsideKeepsCommandInv DEF Sandbox
<1> QED
  BY <1>5, <1>6, <1>7, <1>8, <1>9 DEF PreparationStep

\* reset.sh, wherever the last command left the service.
LEMMA ResetKeepsCommandInv ==
    ASSUME CommandInv, ResetSucceeds \/ ResetFails
    PROVE  CommandInv'
<1>1. Sandbox
  BY DEF CommandInv
<1>2. untested' = 0 /\ 0 \in 0 .. Len(Tests(service)) /\ service' = service /\ worker' = "busy"
  BY TestsAreRoutes DEF ResetSucceeds, Rerun, ResetFails, NoReply
<1>3. CASE ResetSucceeds
  <2>1. BindingInv'
    BY <1>1, <1>3, RerunKeepsBindings DEF Sandbox, ResetSucceeds
  <2>2. (manifest \subseteq Live)'
    BY <1>1, <1>3, ManifestIsBound DEF Sandbox, ResetSucceeds, Rerun, fixedVars, Live
  <2>3. /\ node' = "load_service_context" /\ attempt' = 0 /\ ~accepted' /\ ~dryRun'
        /\ cmd' = "warmup" /\ log' = <<>>
        /\ UNCHANGED <<manifest, required>>
    BY <1>3 DEF ResetSucceeds, Rerun, GraphRestart, fixedVars
  <2>4. log' \in Seq(required)
    BY <2>3, NoneOf
  <2>5. Within(bound, manifest)'
    BY <2>1 DEF BindingInv, Covered
  <2>6. Sandbox'
    BY <1>1, <1>2, <2>3, <2>4, <2>5 DEF Sandbox, Preparing
  <2> QED
    BY <1>2, <2>1, <2>2, <2>3, <2>6 DEF CommandInv, Prepared, Left, Served
<1>4. CASE ResetFails
  <2>1. /\ node' = "load_service_context" /\ attempt' = 0 /\ ~dryRun' /\ cmd' = "ended"
        /\ outcome' = "reset_failed"
        /\ UNCHANGED <<manifest, required>>
    BY <1>4 DEF ResetFails, GraphRestart, Ends, fixedVars
  <2>2. log' \in Seq(required)
    <3>1. log' \in {<<>>, log}
      BY <1>4 DEF ResetFails
    <3> QED
      BY <1>1, <3>1, NoneOf DEF Sandbox
  <2>3. Within(bound', manifest)
    <3>1. PICK done \in 0 .. 4 :
              bound' = CASE done = 0     -> bound
                         [] done \in 1..3 -> Without(bound, {[base |-> "kuber", scope |-> Namespace]})
                         [] done = 4     -> WithDocuments(
                                               Without(bound, {[base |-> "kuber", scope |-> Namespace]}),
                                               "overprivileged", manifest)
      BY <1>4 DEF ResetFails
    <3>2. \/ bound' = bound
          \/ bound' = Without(bound, {[base |-> "kuber", scope |-> Namespace]})
          \/ bound' = WithDocuments(Without(bound, {[base |-> "kuber", scope |-> Namespace]}),
                                    "overprivileged", manifest)
      BY <3>1
    <3> QED
      BY <1>1, <3>2, ResetStaysWithin DEF Sandbox
  <2>4. Within(bound, manifest)'
    BY <2>1, <2>3 DEF Within
  <2>5. Sandbox'
    BY <1>1, <1>2, <2>1, <2>2, <2>4 DEF Sandbox
  <2> QED
    BY <1>2, <2>1, <2>5 DEF CommandInv, Prepared, Left, Preparing, Waits, Served, Going, Alive
<1> QED
  BY <1>3, <1>4

\* A command that is killed, and one that closes.
LEMMA EndingKeepsCommandInv ==
    ASSUME CommandInv, Killed \/ CommandCloses
    PROVE  CommandInv'
<1>1. Sandbox /\ Left /\ ~dryRun /\ cmd # "ended" /\ 0 \in 0 .. Len(Tests(service))
  BY TestsAreRoutes DEF CommandInv, Prepared, Killed, CommandCloses
<1>2. CASE Killed
  <2>1. /\ node' = "load_service_context" /\ attempt' = 0 /\ cmd' = "ended" /\ outcome' = "killed"
        /\ worker' = "busy" /\ untested' = 0
        /\ UNCHANGED <<service, manifest, required, dryRun, log, bound>>
    BY <1>2 DEF Killed, GraphRestart, Ends, NoReply, fixedVars
  <2>2. Sandbox'
    BY <1>1, <2>1 DEF Sandbox, Within
  <2> QED
    BY <1>1, <2>1, <2>2 DEF CommandInv, Prepared, Left, Preparing, Waits, Served, Going, Alive
<1>3. CASE CommandCloses
  <2>1. /\ cmd = "closing" /\ cmd' = "ended" /\ outcome' = outcome
        /\ UNCHANGED <<service, manifest, required, dryRun, log, bound, documents, unread, attempt,
                       worker, untested>>
        /\ UNCHANGED <<runVars, fixedVars>>
    BY <1>3 DEF CommandCloses, Ends, clusterVars, runVars, fixedVars, referenceVars, taskVars
  <2>2. Sandbox' /\ Live' = Live
    BY <1>1, <2>1 DEF Sandbox, Within, Live
  <2>3. "ended" \notin Preparing
    BY DEF Preparing, Waits
  <2>4. CASE UNCHANGED graphVars /\ node \in Terminal \cup {"load_service_context"}
    <3>1. /\ UNCHANGED <<node, accepted>> /\ (Going' => Going)
      BY <2>1, <2>4 DEF graphVars, Going, Alive
    <3>2. (Going => BindingInv)'
      <4>1. Going' => unread' \in SUBSET Events
        BY <2>1, <3>1 DEF CommandInv, BindingInv, Loaded
      <4> QED
        BY <2>1, <2>4, <3>1, <4>1, BindingsStutter DEF CommandInv
    <3>3. SmokePasses(Live) => SmokePasses(Live)'
      BY <2>1, SmokeStaysPassed
    <3>4. Served'
      BY <3>1, <3>3 DEF CommandInv, Served
    <3>5. Prepared' /\ Left'
      BY <1>1, <2>1, <2>2, <2>3, <2>4, <3>1 DEF CommandInv, Prepared, Left
    <3> QED
      BY <2>2, <3>2, <3>4, <3>5 DEF CommandInv
  <2>5. CASE node \notin Terminal /\ node' = "raised"
    BY <1>1, <2>1, <2>2, <2>3, <2>5 DEF CommandInv, Prepared, Left, Served, Going, Alive, Terminal
  <2> QED
    BY <1>3, <2>4, <2>5 DEF CommandCloses, Goto
<1> QED
  BY <1>2, <1>3

\* The handler of the last delivery, and one that leaves a result to the next.
LEMMA HandlersKeepCommandInv ==
    ASSUME CommandInv, WorkerHandler \/ HandlerAfterEnd, ~SystemStep
    PROVE  CommandInv'
<1>1. \/ WorkerHandler /\ WorkerGivesUp /\ UNCHANGED <<referenceVars, commandVars, taskVars>>
      \/ HandlerKeepsReply
  BY DEF SystemStep, WorkerHandler, ReferenceWorkerNext, HandlerAfterEnd
<1>2. /\ HandlerLeaves /\ cmd \in Optimizing /\ node \in Terminal
      /\ attempt' \in {attempt, attempt + 1}
      /\ UNCHANGED <<referenceVars, commandVars, untested>>
  BY <1>1 DEF WorkerHandler, WorkerGivesUp, HandlerKeepsReply, Terminal, taskVars
<1>3. attempt' \in Nat
  BY <1>2 DEF CommandInv, Sandbox
<1> QED
  BY <1>2, <1>3, LeavingKeepsCommandInv

\* The invariant of command after command.
LEMMA CommandInvIsPreserved == CommandInv /\ [CommandNext]_commandAllVars => CommandInv'
BY CommandStepsKeepCommandInv, ResetKeepsCommandInv, EndingKeepsCommandInv,
   SystemKeepsCommandInv, HandlersKeepCommandInv DEF CommandNext, SystemStep

\* In any sequence of commands, refused, failed, cut short or killed.
THEOREM CommandInvHolds == CommandSpec => []CommandInv
BY CommandInitially, CommandInvIsPreserved, PTL DEF CommandSpec

-----------------------------------------------------------------------------
(* What a command leaves behind.                                           *)

\* The coordinator looks at each result that it has counted, and a result is
\* counted only once the graph is at its end, where it stays.
Reported ==
    /\ reply # "none" => node = "END"
    /\ counted => reply \in {"published", "answered"}
    /\ (/\ counted
        /\ cmd = "testing" \/ (cmd \in {"closing", "ended"} /\ outcome = "passed")) => accepted

\* No step takes a counted result, or what it says, back.
LEMMA ReportedIsPreserved ==
    ASSUME CommandInv, Reported, [CommandNext]_commandAllVars
    PROVE  Reported'
<1>1. CASE SystemStep
  <2>1. reply = "none" /\ UNCHANGED <<reply, counted>>
    BY <1>1, GraphIsGoing DEF Reported, SystemStep, GraphThread, WorkerHandler, WorkerRetries,
       HandlerForgets, taskVars, Terminal
  <2> QED
    BY <2>1 DEF Reported
<1>2. CASE \/ GuardRefuses \/ PreparationStep
           \/ /\ cmd \in Waits \cup {"reading"}
              /\ \E p \in Ports : ForwardBinds(p) \/ ForwardDies(p) \/ StrayDies(p)
  <2>1. /\ UNCHANGED <<node, accepted, reply, counted>>
        /\ cmd' # "ended" \/ outcome' # "passed"
        /\ cmd' \notin {"testing", "closing"}
    BY <1>2 DEF GuardRefuses, PreparationStep, Warmup, WarmupFails, EnterForwards, WaitSucceeds,
       WaitFindsDead, ReadEnds, WaitTimesOut, ForwardBinds, ForwardDies, StrayDies, Ends, Waits,
       allVars, vars, graphVars, taskVars
  <2> QED
    BY <2>1 DEF Reported
<1>3. CASE ResetSucceeds \/ ResetFails \/ Killed
  BY <1>3 DEF Reported, ResetSucceeds, ResetFails, Killed, NoReply
<1>4. CASE WorkerPublishes \/ UNCHANGED commandAllVars
  BY <1>4 DEF Reported, WorkerPublishes, StoreReply, PublishReply, AcknowledgeRequest, allVars,
     vars, graphVars, commandAllVars, commandVars, taskVars
<1>5. CASE WorkerHandler /\ WorkerGivesUp
  BY <1>5 DEF Reported, WorkerHandler, WorkerGivesUp, HandlerLeaves, graphVars, commandVars, taskVars
<1>6. CASE HandlerKeepsReply
  BY <1>6 DEF Reported, HandlerKeepsReply, HandlerLeaves, graphVars, commandVars
<1>7. CASE CoordinatorReports
  BY <1>7 DEF Reported, CoordinatorReports, WorkloadsPass, allVars, vars, graphVars
<1>8. CASE SystemTest \/ SystemTestEnds \/ CoordinatorRaises
  BY <1>8 DEF Reported, SystemTest, SystemTestEnds, CoordinatorRaises, allVars, vars, graphVars,
     taskVars
<1>9. CASE CommandCloses
  BY <1>9 DEF Reported, CommandCloses, Goto, Ends, graphVars, taskVars, Terminal
<1> QED
  BY <1>1, <1>2, <1>3, <1>4, <1>5, <1>6, <1>7, <1>8, <1>9
     DEF CommandNext, SystemStep, WorkerHandler, ReferenceWorkerNext, HandlerAfterEnd

LEMMA ReportedHolds == CommandSpec => []Reported
<1>1. CommandInit => Reported
  BY DEF CommandInit, Reported
<1>2. CommandInv /\ Reported /\ [CommandNext]_commandAllVars => Reported'
  BY ReportedIsPreserved
<1> QED
  BY CommandInvHolds, <1>1, <1>2, PTL DEF CommandSpec

\* The manifest passes the tests of the service.
LEMMA ManifestPasses ==
    ASSUME Sandbox, manifest \subseteq Live
    PROVE  SmokePasses(Live)
BY TestsAreGranted, SmokeIsAuthorization DEF Sandbox

\* A service that passes its tests can serve its profile.
LEMMA PassingIsServing ==
    ASSUME SmokePasses(Live)
    PROVE  Ending(Live, Profile(service)) = {}
BY TestsAreRoutes DEF SmokePasses, Routes

\* However its run went, a command that was not killed leaves the service
\* able to serve its profile: reset.sh failing half way, a restore that
\* failed and an end before the worker's handler are the only exceptions.
THEOREM ServicesSurviveCommands == CommandSpec => []ServiceSurvivesCommand
<1>1. CommandInv => ServiceSurvivesCommand
  <2> SUFFICES ASSUME CommandInv, cmd = "ended", outcome \notin {"killed", "reset_failed"},
                      worker # "unrestored",
                      ~(worker = "busy" /\ node = "raised"),
                      ~(worker = "busy" /\ node = "load_service_context" /\ attempt > 0)
               PROVE  SmokePasses(Live)
    BY PassingIsServing DEF ServiceSurvivesCommand
  <2>1. CASE worker # "busy"
    BY <2>1, ManifestPasses DEF CommandInv, Left
  <2>2. CASE worker = "busy" /\ node = "END"
    <3>1. Going /\ BindingInv
      BY <2>2 DEF CommandInv, Going, Alive
    <3>2. CASE accepted
      BY <3>1, <3>2 DEF CommandInv, Served
    <3>3. CASE ~accepted
      BY <2>2, <3>1, <3>3, ManifestPasses DEF CommandInv, BindingInv, GivenBack, Closing
    <3> QED
      BY <3>2, <3>3
  <2>3. CASE worker = "busy" /\ node = "load_service_context"
    <3>1. attempt = 0
      BY <2>3 DEF CommandInv, Sandbox
    <3> QED
      BY <2>3, <3>1, ManifestPasses DEF CommandInv, Prepared
  <2>4. node \in Terminal \cup {"load_service_context"}
    BY DEF CommandInv, Prepared
  <2> QED
    BY <2>1, <2>2, <2>3, <2>4 DEF Terminal
<1> QED
  BY CommandInvHolds, <1>1, PTL

\* A command that exits with code 0 leaves a service whose result it has
\* counted with a policy that serves all of its tests, also those the tests
\* have changed the sandbox for, and that is the reported policy unless other
\* bindings were left.
THEOREM PassedServicesAreServed == CommandSpec => []PassedServiceIsServed
<1>1. CommandInv /\ Reported => PassedServiceIsServed
  <2> SUFFICES ASSUME CommandInv, Reported, cmd = "ended", outcome = "passed", counted
               PROVE  /\ accepted
                      /\ worker # "unrestored" => SmokePasses(Live)
                      /\ (worker = "busy" /\ Leftover = {}) => Live = FinalPolicy
    BY DEF PassedServiceIsServed
  <2>1. accepted /\ node = "END"
    BY DEF Reported
  <2>2. CASE worker = "busy"
    <3>1. Going /\ BindingInv
      BY <2>1, <2>2 DEF CommandInv, Going, Alive
    <3>2. SmokePasses(Live)
      BY <2>1, <3>1 DEF CommandInv, Served
    <3>3. Leftover = {} => Live = FinalPolicy
      BY <2>1, <3>1, AcceptedIsInForce
    <3> QED
      BY <2>1, <3>2, <3>3
  <2>3. CASE worker # "busy"
    BY <2>1, <2>3, ManifestPasses DEF CommandInv, Left
  <2> QED
    BY <2>2, <2>3
<1> QED
  BY CommandInvHolds, ReportedHolds, <1>1, PTL

\* An accepted policy passes the tests again, with what else is bound and,
\* where nothing was left, by itself, until the worker takes it back.
THEOREM AcceptedPoliciesKeepServing == CommandSpec => []AcceptedPolicyKeepsServing
<1>1. CommandInv => AcceptedPolicyKeepsServing
  <2> SUFFICES ASSUME CommandInv, node = "END", accepted, worker = "busy"
               PROVE  /\ SmokePasses(Live)
                      /\ Leftover = {} => SmokePasses(FinalPolicy)
    BY DEF AcceptedPolicyKeepsServing
  <2>1. Going /\ BindingInv
    BY DEF CommandInv, Going, Alive
  <2>2. SmokePasses(Live)
    BY <2>1 DEF CommandInv, Served
  <2>3. Leftover = {} => Live = FinalPolicy
    BY <2>1, AcceptedIsInForce
  <2> QED
    BY <2>2, <2>3
<1> QED
  BY CommandInvHolds, <1>1, PTL

-----------------------------------------------------------------------------
(* Rejections.  Every repair adds a permission that the tests ask for, so  *)
(* a candidate that lacks one has not used up a repair for each of them.   *)

Needed == {EventPermission(e) : e \in required}

\* The calls and permissions the graph works on are those of the tests.
Local ==
    Alive => /\ observed \subseteq required
             /\ failure.missing \subseteq required
             /\ unread \subseteq required

Counted ==
    Alive => /\ candidate \subseteq Needed
             /\ retryCount \in Nat
             /\ retryCount =< Cardinality(candidate)
             /\ node \in PreGenerate => retryCount = 0

\* What a rejection is excused by, while the run is on its way to one.
Excused == disturbed \/ unread # {}

Justified ==
    (Alive /\ ~Excused) =>
        /\ node \notin {"restore_last_known_good", "human_review"}
        /\ node \in Closing => accepted
        /\ node \in {"diagnose_failure", "repair_policy"} =>
              failure.denial /\ \E e \in failure.missing : EventPermission(e) \notin candidate

RejectInv == Local /\ Counted /\ Justified

\* A service makes no more different calls than repairs are allowed: five by
\* default, and at most four calls are made by the tests of service-smoke.sh.
RepairsSuffice == \A s \in Services : Cardinality(DeclaredCalls(s)) =< MaxRepairs

\* All tests make calls the reducer supports in the sandbox namespace.
Proper(e) == e.namespace = Namespace /\ IsSupportedEvent(e)

LEMMA CallsOfTests ==
    ASSUME NEW s
    PROVE  \A e \in Asks(s) : Proper(e)
<1>1. /\ \A verb \in SupportedVerbs : Proper(JobCall(verb))
      /\ \A name : Proper(ReadSecret(name))
      /\ Proper(ReadConfig) /\ Proper(ListPods)
  <2> DEFINE R(g) == CASE g = ""      -> {"pods", "configmaps", "secrets", "services"}
                       [] g = "batch" -> {"jobs"}
  <2>1. /\ {"", "batch"} \subseteq SupportedGroups
        /\ \A g \in {"", "batch"} : SupportedResources[g] = R(g) /\ GroupsOf(g) = {g}
    BY DEF SupportedGroups, SupportedResources, GroupsOf, Wild
  <2>2. /\ IsSupportedResource("", "configmaps") /\ IsSupportedResource("", "secrets")
        /\ IsSupportedResource("", "pods") /\ IsSupportedResource("batch", "jobs")
    BY <2>1 DEF IsSupportedResource
  <2> QED
    BY <2>2 DEF Proper, IsSupportedEvent, SupportedVerbs, Key, JobCall, ReadSecret, ReadConfig,
       ListPods
<1>2. \A e \in Range(Profile(s)) : Proper(e)
  <2>1. CASE s = "auth-service"
    <3>1. Profile(s) = <<ReadConfig, ReadSecret("auth-secret")>>
      BY <2>1 DEF Profile
    <3>2. Range(Profile(s)) = {ReadConfig, ReadSecret("auth-secret")}
      BY <3>1, TwoOf
    <3> QED
      BY <1>1, <3>2
  <2>2. CASE s = "payment-service"
    <3>1. Profile(s) = <<ReadConfig, ReadSecret("payment-secret"), ListPods>>
      BY <2>2 DEF Profile
    <3>2. Range(Profile(s)) = {ReadConfig, ReadSecret("payment-secret"), ListPods}
      BY <3>1, ThreeOf
    <3> QED
      BY <1>1, <3>2
  <2>3. CASE s \notin {"auth-service", "payment-service"}
    <3>1. Profile(s) = <<ReadConfig>>
      BY <2>3 DEF Profile
    <3>2. Range(Profile(s)) = {ReadConfig}
      BY <3>1, OneOf
    <3> QED
      BY <1>1, <3>2
  <2> QED
    BY <2>1, <2>2, <2>3
<1>3. \A e \in Range(Reconcile) : Proper(e)
  <2>1. Range(Reconcile) = {JobCall("create"), JobCall("get"), JobCall("delete")}
    BY ThreeOf DEF Reconcile
  <2> QED
    BY <1>1, <2>1 DEF SupportedVerbs
<1> QED
  BY <1>2, <1>3 DEF Asks, Routes

\* There are no more permissions than calls to make them for.
LEMMA NeededIsFinite ==
    ASSUME required \in SUBSET Events
    PROVE  /\ IsFiniteSet(required) /\ IsFiniteSet(Needed)
           /\ Cardinality(required) \in Nat /\ Cardinality(Needed) \in Nat
           /\ Cardinality(Needed) =< Cardinality(required)
<1> DEFINE f == [e \in required |-> EventPermission(e)]
<1>1. IsFiniteSet(required)
  BY EventsAssumption, FS_Subset
<1>2. f \in Surjection(required, Needed)
  BY DEF Surjection, Needed
<1>3. IsFiniteSet(Needed) /\ Cardinality(Needed) =< Cardinality(required)
  BY <1>1, <1>2, FS_Surjection
<1> QED
  BY <1>1, <1>3, FS_CardinalityType

\* A policy with more of the needed permissions is counted higher.
LEMMA MoreIsCounted ==
    ASSUME required \in SUBSET Events, NEW more, NEW less,
           more \subseteq Needed, less \subseteq more
    PROVE  /\ Cardinality(less) \in Nat /\ Cardinality(more) \in Nat
           /\ less # more => Cardinality(less) < Cardinality(more)
<1>1. IsFiniteSet(Needed)
  BY NeededIsFinite
<1>2. IsFiniteSet(more) /\ IsFiniteSet(less)
  BY <1>1, FS_Subset
<1>3. /\ Cardinality(less) =< Cardinality(more)
      /\ Cardinality(more) = Cardinality(less) => more = less
  BY <1>2, FS_Subset
<1>4. Cardinality(less) \in Nat /\ Cardinality(more) \in Nat
  BY <1>2, FS_CardinalityType
<1> QED
  BY <1>3, <1>4

\* A new command has repaired and rejected nothing.
LEMMA RejectInitially == CommandInit => RejectInv
<1> SUFFICES ASSUME CommandInit PROVE RejectInv
  OBVIOUS
<1>1. /\ candidate = {} /\ retryCount = 0 /\ node = "load_service_context"
      /\ observed = {} /\ failure = NoFailure /\ unread = {}
  BY DEF CommandInit, ReferenceInit, KubernetesInit, GraphInit
<1>2. Cardinality(candidate) = 0
  BY <1>1, FS_EmptySet
<1> QED
  BY <1>1, <1>2 DEF RejectInv, Local, Counted, Justified, Closing, NoFailure

\* The graph works on the calls that were observed or refused.
LEMMA SystemKeepsLocal ==
    ASSUME CommandInv, Local, SystemStep
    PROVE  Local'
<1>1. Sandbox /\ BindingInv /\ Alive
  BY SystemIsGoing DEF Going
<1>2. observed \subseteq required /\ failure.missing \subseteq required /\ unread \subseteq required
  BY <1>1 DEF Local
<1>3. required' = required
  BY SystemFrame
<1> USE DEF Goto, policyVars, verificationVars, counterVars, clusterVars, runVars, fixedVars
<1>4. CASE GraphStep /\ UNCHANGED <<clusterVars, runVars, fixedVars>>
  BY <1>2, <1>3, <1>4 DEF Local, GraphStep, LoadContext, Generate, GenerateRaises, Validate,
     CheckMore, FinalVerify, Diagnose, Repair, RepairRefused, HumanReview, Finalize, PublishResult
<1>5. CASE KubeInspect \/ KubeApply \/ KubeRestore \/ KubeApplyFails \/ KubeRestoreFails
           \/ ReferenceCallFails
  BY <1>2, <1>3, <1>5 DEF Local, KubeInspect, Inspect, KubeApply, Apply, KubeRestore, Restore,
     KubeApplyFails, KubeRestoreFails, ReferenceCallFails, KubeCallFails, EnvironmentRaises
<1>6. CASE ReferenceGather
  <2>1. PICK n \in 0 .. Len(log) : Gather(Range(SubSeq(log, 1, n)))
    BY <1>6 DEF ReferenceGather
  <2>2. Range(SubSeq(log, 1, n)) \subseteq required
    BY <1>1, RangeOfPrefix DEF Sandbox
  <2> QED
    BY <1>2, <1>3, <1>6, <2>1, <2>2 DEF Local, ReferenceGather, Gather
<1>7. CASE ReferenceVerify \/ ReferenceVerifyDisturbed
  <2>1. PICK r \in Results : Verify(r) /\ r.denied \subseteq unread \cup required
    BY <1>1, <1>7, VerificationIsHonest
  <2>2. unread' \subseteq required
    BY <1>1, <1>2, <1>7, VerificationIsHonest
  <2>3. UNCHANGED observed /\ failure'.missing \subseteq required
    BY <1>2, <2>1 DEF Verify, DescribeFailure, NoFailure
  <2> QED
    BY <1>2, <1>3, <2>2, <2>3 DEF Local
<1>8. CASE HandlerRetries
  BY <1>2, <1>3, <1>8 DEF Local, HandlerRetries, GraphResume
<1> QED
  BY <1>4, <1>5, <1>6, <1>7, <1>8 DEF SystemStep, GraphThread, ReferenceGraphNext, GraphRuns,
     WorkerHandler, WorkerRetries, HandlerForgets

\* A repair adds at least one permission that the tests ask for.
LEMMA SystemKeepsCounted ==
    ASSUME CommandInv, Local, Counted, SystemStep
    PROVE  Counted'
<1>1. Sandbox /\ Alive
  BY SystemIsGoing DEF Going
<1>2. /\ candidate \subseteq Needed /\ retryCount \in Nat /\ retryCount =< Cardinality(candidate)
      /\ node \in PreGenerate => retryCount = 0
      /\ observed \subseteq required /\ failure.missing \subseteq required
      /\ required \in SUBSET Events
  BY <1>1 DEF Counted, Local, Sandbox
<1>3. Needed' = Needed
  BY SystemFrame DEF Needed
<1> USE DEF Goto, policyVars, verificationVars, counterVars
<1>4. ASSUME UNCHANGED <<candidate, retryCount>>, node' \in PreGenerate => node \in PreGenerate
      PROVE  Counted'
  BY <1>2, <1>3, <1>4 DEF Counted
<1>5. CASE Generate
  <2>1. /\ candidate' = ObservedOnlyPolicy(observed) /\ retryCount' = 0
        /\ node' = "validate_candidate"
    BY <1>2, <1>5 DEF Generate, PreGenerate
  <2>2. candidate' \subseteq Needed
    BY <1>2, <2>1 DEF ObservedOnlyPolicy, Needed
  <2>3. Cardinality(candidate') \in Nat
    BY <1>2, <2>2, MoreIsCounted
  <2> QED
    BY <1>3, <2>1, <2>2, <2>3 DEF Counted, PreGenerate
<1>6. CASE Repair
  <2>1. /\ candidate' = RepairPolicy(candidate, failure.missing) /\ candidate' # candidate
        /\ retryCount' = retryCount + 1 /\ node' = "validate_candidate"
    BY <1>6 DEF Repair, Repairable
  <2>2. candidate' \subseteq Needed /\ candidate \subseteq candidate'
    BY <1>2, <2>1 DEF RepairPolicy, Needed
  <2>3. /\ Cardinality(candidate) \in Nat /\ Cardinality(candidate') \in Nat
        /\ Cardinality(candidate) < Cardinality(candidate')
    BY <1>2, <2>1, <2>2, MoreIsCounted
  <2>4. retryCount' \in Nat /\ retryCount' =< Cardinality(candidate')
    BY <1>2, <2>1, <2>3
  <2> QED
    BY <1>3, <2>1, <2>2, <2>4 DEF Counted, PreGenerate
<1>7. CASE LoadContext \/ GenerateRaises \/ Validate \/ CheckMore \/ FinalVerify
           \/ Diagnose \/ RepairRefused \/ HumanReview \/ Finalize \/ PublishResult
  BY <1>4, <1>7 DEF PreGenerate, LoadContext, GenerateRaises, Validate, CheckMore, FinalVerify,
     Diagnose, RepairRefused, HumanReview, Finalize, PublishResult
<1>8. CASE KubeInspect \/ KubeApply \/ KubeRestore \/ KubeApplyFails \/ KubeRestoreFails
           \/ ReferenceCallFails \/ ReferenceGather
  BY <1>4, <1>8 DEF PreGenerate, KubeInspect, Inspect, KubeApply, Apply, KubeRestore, Restore,
     KubeApplyFails, KubeRestoreFails, ReferenceCallFails, KubeCallFails, EnvironmentRaises,
     ReferenceGather, Gather
<1>9. CASE ReferenceVerify \/ ReferenceVerifyDisturbed
  <2>1. PICK r : Verify(r)
    BY <1>9 DEF ReferenceVerify, ReferenceVerifyDisturbed, Reads
  <2> QED
    BY <1>4, <2>1 DEF Verify, RouteVerification, PreGenerate
<1>10. CASE HandlerRetries
  <2>1. candidate' = candidate /\ retryCount' = 0
    BY <1>10 DEF HandlerRetries, GraphResume
  <2>2. Cardinality(candidate) \in Nat
    BY <1>2, MoreIsCounted
  <2> QED
    BY <1>2, <1>3, <2>1, <2>2 DEF Counted
<1> QED
  BY <1>5, <1>6, <1>7, <1>8, <1>9, <1>10
     DEF SystemStep, GraphThread, ReferenceGraphNext, GraphRuns, GraphStep, WorkerHandler,
     WorkerRetries, HandlerForgets

\* A candidate under which the smoke command is refused a call has not been
\* repaired as often as it may be, and lacks that call's permission.
LEMMA RefusalIsRepairable ==
    ASSUME CommandInv, Counted, RepairsSuffice, Going, node = "verify",
           NEW e \in required, ~IsAuthorized(Live, e)
    PROVE  retryCount < MaxRepairs /\ EventPermission(e) \notin candidate
<1>1. Sandbox /\ BindingInv /\ Alive
  BY DEF CommandInv, Going
<1>2. candidate \subseteq Live
  BY <1>1, TriedIsInForce
<1>3. EventPermission(e) \notin candidate
  BY <1>2, EventPermissionMatches DEF IsAuthorized
<1>4. /\ candidate \subseteq Needed /\ required \in SUBSET Events
      /\ retryCount \in Nat /\ retryCount =< Cardinality(candidate)
  BY <1>1 DEF Counted, Sandbox
<1>5. candidate # Needed
  BY <1>3 DEF Needed
<1>6. /\ Cardinality(candidate) \in Nat /\ Cardinality(Needed) \in Nat
      /\ Cardinality(candidate) < Cardinality(Needed)
  BY <1>4, <1>5, MoreIsCounted
<1>7. Cardinality(required) =< MaxRepairs
  BY <1>1, DeclaredCallsAreAsked DEF RepairsSuffice, Sandbox
<1>8. Cardinality(required) \in Nat /\ Cardinality(Needed) =< Cardinality(required)
  BY <1>4, NeededIsFinite
<1> QED
  BY <1>3, <1>4, <1>6, <1>7, <1>8, MaxRepairsAssumption

\* A smoke command that nothing disturbs, with all its denials readable,
\* passes or leads to a repair.
LEMMA VerificationIsJustified ==
    ASSUME CommandInv, Counted, RepairsSuffice, Going, ReferenceVerify, unread' = {}
    PROVE  \/ node' = "check_more_reductions" /\ accepted' = accepted
           \/ /\ node' = "diagnose_failure"
              /\ failure'.denial /\ \E e \in failure'.missing : EventPermission(e) \notin candidate'
<1>1. Sandbox
  BY DEF CommandInv
<1> DEFINE r == [passed |-> SmokePasses(Live) /\ ~disturbed', denied |-> unread \cup Refusals(Live)]
<1>2. Verify(r) /\ ~disturbed'
  <2>1. PICK late \in SUBSET (unread \cup Refusals(Live)) :
            /\ Verify([passed |-> SmokePasses(Live) /\ ~disturbed',
                       denied |-> (unread \cup Refusals(Live)) \ late])
            /\ unread' = late
    BY DEF ReferenceVerify, Reads
  <2>2. late = {} /\ (unread \cup Refusals(Live)) \ late = unread \cup Refusals(Live)
    BY <2>1
  <2> QED
    BY <2>1, <2>2 DEF ReferenceVerify
<1>3. /\ r.passed <=> SmokePasses(Live)
      /\ r.denied = unread \cup Refusals(Live)
  BY <1>2
<1> HIDE DEF r
<1>4. node = "verify" /\ candidate' = candidate /\ accepted' = accepted
  BY <1>2 DEF Verify, Goto, policyVars
<1>5. CASE SmokePasses(Live)
  <2>1. node' = "check_more_reductions"
    BY <1>2, <1>3, <1>5 DEF Verify, Goto, RouteVerification
  <2> QED
    BY <1>4, <2>1
<1>6. CASE ~SmokePasses(Live)
  <2>1. PICK e \in Refusals(Live) : ~IsAuthorized(Live, e)
    BY <1>6, FailureIsRefusal
  <2>2. e \in required
    BY <1>1, SmokeCallsAreDeclared DEF Sandbox
  <2>3. retryCount < MaxRepairs /\ EventPermission(e) \notin candidate
    BY <1>4, <2>1, <2>2, RefusalIsRepairable
  <2>4. e \in r.denied /\ ~r.passed
    BY <1>3, <1>6
  <2>5. failure' = [denial |-> TRUE, missing |-> r.denied] /\ node' = "diagnose_failure"
    BY <1>2, <2>3, <2>4 DEF Verify, Goto, DescribeFailure, RouteVerification
  <2> QED
    BY <1>4, <2>3, <2>4, <2>5
<1> QED
  BY <1>5, <1>6

\* So a run is on its way to a rejection only with an excuse.
LEMMA SystemKeepsJustified ==
    ASSUME CommandInv, Local, Counted, Justified, RepairsSuffice, SystemStep
    PROVE  Justified'
<1>1. Sandbox /\ BindingInv /\ Going /\ Alive
  BY SystemIsGoing DEF Going
<1> USE DEF Goto, policyVars, verificationVars, counterVars, clusterVars, runVars, fixedVars
<1>3. CASE GraphStep /\ UNCHANGED <<clusterVars, runVars, fixedVars>> /\ UNCHANGED referenceVars
  <2>1. Excused' <=> Excused
    BY <1>3 DEF Excused, referenceVars
  <2>2. CASE RepairRefused
    <3> SUFFICES ASSUME ~Excused PROVE FALSE
      BY <2>1, <2>2 DEF Justified
    <3>1. failure.denial /\ \E e \in failure.missing : EventPermission(e) \notin candidate
      BY <1>1, <2>2 DEF RepairRefused, Justified
    <3>2. failure.missing # {} /\ RepairPolicy(candidate, failure.missing) # candidate
      BY <3>1 DEF RepairPolicy
    <3>3. original = manifest
      BY <1>1, <2>2 DEF BindingInv, Loaded, RepairRefused
    <3>4. failure.missing \subseteq Asks(service)
      BY <1>1 DEF Local, Sandbox
    <3>5. \A e \in Asks(service) : IsAuthorized(manifest, e)
      BY <1>1, TestsAreGranted DEF Sandbox
    <3>6. CanRepair(original, failure.missing)
      BY <3>3, <3>4, <3>5, CallsOfTests DEF CanRepair, Proper
    <3> QED
      BY <2>2, <3>1, <3>2, <3>6 DEF RepairRefused, Repairable
  <2>3. CASE HumanReview \/ Finalize \/ PublishResult
    BY <1>1, <2>1, <2>3 DEF Justified, Closing, HumanReview, Finalize, PublishResult
  <2>4. CASE FinalVerify
    BY <2>4 DEF Justified, Closing, FinalVerify
  <2>5. CASE Diagnose
    BY <1>1, <2>1, <2>5 DEF Justified, Closing, Diagnose
  <2>6. CASE LoadContext \/ Generate \/ GenerateRaises \/ Validate \/ CheckMore \/ Repair
    BY <2>6 DEF Justified, Closing, LoadContext, Generate, GenerateRaises, Validate,
       CheckMore, Repair
  <2> QED
    BY <1>3, <2>2, <2>3, <2>4, <2>5, <2>6 DEF GraphStep
<1>4. CASE KubeRestore /\ UNCHANGED referenceVars
  <2>1. Excused' <=> Excused
    BY <1>4 DEF Excused, referenceVars, KubeRestore
  <2>2. Excused
    BY <1>1, <1>4 DEF Justified, KubeRestore, Restore
  <2> QED
    BY <2>1, <2>2 DEF Justified
<1>5. CASE KubeInspect \/ KubeApply \/ KubeApplyFails \/ KubeRestoreFails \/ ReferenceCallFails
           \/ ReferenceGather
  BY <1>5 DEF Justified, Closing, KubeInspect, Inspect, KubeApply, Apply, KubeApplyFails,
     KubeRestoreFails, ReferenceCallFails, KubeCallFails, EnvironmentRaises, ReferenceGather,
     Gather
<1>6. CASE ReferenceVerify
  <2> SUFFICES ASSUME unread' = {} PROVE Justified'
    BY DEF Justified, Excused
  <2>1. \/ node' = "check_more_reductions" /\ accepted' = accepted
        \/ /\ node' = "diagnose_failure"
           /\ failure'.denial /\ \E e \in failure'.missing : EventPermission(e) \notin candidate'
    BY <1>1, <1>6, VerificationIsJustified
  <2> QED
    BY <2>1 DEF Justified, Closing
<1>7. CASE ReferenceVerifyDisturbed
  BY <1>7 DEF Justified, Excused, ReferenceVerifyDisturbed
<1>8. CASE HandlerRetries
  BY <1>8 DEF Justified, Closing, HandlerRetries, GraphResume
<1> QED
  BY <1>3, <1>4, <1>5, <1>6, <1>7, <1>8
     DEF SystemStep, GraphThread, ReferenceGraphNext, GraphRuns, WorkerHandler, WorkerRetries,
     HandlerForgets

\* The steps that leave the graph alone, and at most print refusals.
LEMMA AsideKeepsRejectInv ==
    ASSUME RejectInv, UNCHANGED <<graphVars, fixedVars, disturbed>>, unread \subseteq unread',
           unread \subseteq required => unread' \subseteq required,
           cmd' # "ended" => cmd # "ended"
    PROVE  RejectInv'
<1>1. UNCHANGED <<node, observed, candidate, retryCount, accepted, failure, required>>
  BY DEF graphVars, policyVars, verificationVars, counterVars, fixedVars
<1>2. Alive' => Alive
  BY <1>1 DEF Alive
<1>3. Local' /\ Counted'
  BY <1>1, <1>2 DEF RejectInv, Local, Counted, Needed
<1>4. Excused => Excused'
  BY DEF Excused
<1>5. Justified'
  BY <1>1, <1>2, <1>4 DEF RejectInv, Justified
<1> QED
  BY <1>3, <1>5 DEF RejectInv

\* What a command does besides running the graph.
LEMMA CommandStepsKeepRejectInv ==
    ASSUME CommandInv, RejectInv, [CommandNext]_commandAllVars, ~SystemStep
    PROVE  RejectInv'
<1>1. CASE ResetSucceeds
  <2>1. /\ node' = "load_service_context" /\ candidate' = {} /\ retryCount' = 0
        /\ observed' = {} /\ failure' = NoFailure /\ unread' = {}
    BY <1>1 DEF ResetSucceeds, Rerun, GraphRestart
  <2>2. Cardinality(candidate') = 0
    BY <2>1, FS_EmptySet
  <2> QED
    BY <2>1, <2>2 DEF RejectInv, Local, Counted, Justified, Closing, NoFailure
<1>2. CASE ResetFails \/ Killed
  BY <1>2 DEF RejectInv, Local, Counted, Justified, Alive, ResetFails, Killed, GraphRestart, Ends
<1>3. CASE CommandCloses
  <2>1. cmd # "ended" /\ cmd' = "ended" /\ UNCHANGED <<unread, fixedVars, disturbed>>
    BY <1>3 DEF CommandCloses, Ends, clusterVars, referenceVars
  <2>2. CASE UNCHANGED graphVars
    BY <2>1, <2>2, AsideKeepsRejectInv
  <2>3. CASE node' = "raised"
    BY <2>1, <2>3 DEF RejectInv, Local, Counted, Justified, Alive
  <2> QED
    BY <1>3, <2>2, <2>3 DEF CommandCloses, Goto
<1>4. CASE SystemTest
  <2>1. /\ UNCHANGED <<graphVars, fixedVars, disturbed, cmd>>
        /\ \E calls \in Seq(required) : unread' = unread \cup {e \in Range(calls) : ~IsAuthorized(Live, e)}
    BY <1>4, SystemTestMakesCalls DEF SystemTest, CommandInv
  <2>2. unread \subseteq unread' /\ (unread \subseteq required => unread' \subseteq required)
    BY <2>1 DEF Range
  <2> QED
    BY <2>1, <2>2, AsideKeepsRejectInv
<1>5. CASE WorkerHandler \/ HandlerAfterEnd
  BY <1>5, AsideKeepsRejectInv DEF SystemStep, WorkerHandler, ReferenceWorkerNext, WorkerGivesUp,
     HandlerAfterEnd, HandlerKeepsReply, HandlerLeaves, referenceVars, commandVars
<1>6. CASE \/ GuardRefuses \/ PreparationStep \/ WorkerPublishes
           \/ CoordinatorReports \/ SystemTestEnds \/ CoordinatorRaises
           \/ \E p \in Ports : ForwardBinds(p) \/ ForwardDies(p) \/ StrayDies(p)
           \/ UNCHANGED commandAllVars
  <2>1. UNCHANGED <<graphVars, fixedVars, unread, disturbed>>
    BY <1>6 DEF GuardRefuses, PreparationStep, Warmup, WarmupFails, EnterForwards, WaitSucceeds,
       WaitFindsDead, ReadEnds, WaitTimesOut, WorkerPublishes, StoreReply, PublishReply,
       AcknowledgeRequest, CoordinatorReports, SystemTestEnds, CoordinatorRaises, ForwardBinds,
       ForwardDies, StrayDies, commandAllVars, allVars, vars, clusterVars, referenceVars
  <2>2. cmd' # "ended" => cmd # "ended"
    BY <1>6 DEF GuardRefuses, PreparationStep, Warmup, WarmupFails, EnterForwards, WaitSucceeds,
       WaitFindsDead, ReadEnds, WaitTimesOut, WorkerPublishes, StoreReply, PublishReply,
       AcknowledgeRequest, CoordinatorReports, SystemTestEnds, CoordinatorRaises, ForwardBinds,
       ForwardDies, StrayDies, commandAllVars, commandVars, Optimizing, Waits, Ends
  <2> QED
    BY <2>1, <2>2, AsideKeepsRejectInv
<1> QED
  BY <1>1, <1>2, <1>3, <1>4, <1>5, <1>6 DEF CommandNext, SystemStep

\* Where as many repairs are allowed as a service makes different calls, a
\* workload is rejected only if its last smoke command was disturbed, or
\* records were late.
THEOREM RejectionsAreJustified ==
    ASSUME RepairsSuffice PROVE CommandSpec => []RejectionIsJustified
<1>1. CommandInv /\ RejectInv /\ [CommandNext]_commandAllVars => RejectInv'
  BY SystemKeepsLocal, SystemKeepsCounted, SystemKeepsJustified, CommandStepsKeepRejectInv
     DEF RejectInv
<1>2. RejectInv => RejectionIsJustified
  BY DEF RejectInv, Justified, Alive, Closing, Excused, RejectionIsJustified
<1> QED
  BY CommandInvHolds, RejectInitially, <1>1, <1>2, PTL DEF CommandSpec

-----------------------------------------------------------------------------
(* Types.                                                                  *)

GraphTypes == TypeOK /\ Room

AllPermissions == (UNION Policies) \cup CandidatePermissions

Bindings == [BindingNames -> SUBSET AllPermissions]

ClusterTypes ==
    /\ bound \in Bindings
    /\ documents \in SUBSET [base : {"kuber"}, scope : {Namespace, None}]
    /\ unread \in SUBSET Events
    /\ attempt \in 0 .. MaxAttempts - 1
    /\ runs \in 1 .. MaxRuns
    /\ worker \in {"busy", "restored", "unrestored"}

FlagTypes ==
    /\ job \in BOOLEAN /\ disturbed \in BOOLEAN
    /\ reply \in {"none", "stored", "published", "answered"}

Forwarding == Waits \cup {"reading", "closing"} \cup Optimizing

Outcomes == {"none", "refused", "reset_failed", "warmup_failed", "no_forwards",
             "passed", "failed", "killed"}

ForwardTypes ==
    /\ own \in [Ports -> {"none", "dead"} \cup Running]
    /\ cmd \in Forwarding => \A p \in Ports : own[p] # "none"
    /\ cmd \notin Forwarding => own = NoForwards
    /\ stray \subseteq Ports
    /\ outcome \in Outcomes

CommandTypes == GraphTypes /\ ClusterTypes /\ FlagTypes /\ ForwardTypes

\* A graph keeps its types also where it resumes a thread, starts another or
\* is cut short.
LEMMA GraphKeepsTypes ==
    ASSUME GraphTypes,
           \/ [GraphNext]_graphVars \/ GraphResume \/ GraphRestart
           \/ /\ node' = "raised" /\ steps' = steps + 1
              /\ UNCHANGED <<policyVars, observed, verificationVars, counterVars, accepted>>
    PROVE  GraphTypes'
<1>1. CASE [GraphNext]_graphVars
  BY <1>1, TypeIsPreserved, RoomIsPreserved DEF GraphTypes
<1> USE DEF GraphTypes, TypeOK, Room, Nodes, Terminal, Rejecting, policyVars, verificationVars,
            counterVars
<1> DEFINE none == [attempted |-> 0, accepted |-> 0, rejected |-> 0]
<1>0. none \in [attempted : 0 .. 1, accepted : 0 .. 1, rejected : 0 .. 1] /\ 0 \in 0 .. MaxRepairs
  BY MaxRepairsAssumption
<1>2. CASE GraphResume
  <2>1. UNCHANGED <<original, current, lastGood, candidate, observed, result, failure, failureType>>
    BY <1>2 DEF GraphResume
  <2>2. /\ node' = "load_service_context" /\ retryCount' = 0 /\ incorrectRemovals' = 0
        /\ reductions' = none /\ accepted' = FALSE /\ steps' = 0
    BY <1>2 DEF GraphResume
  <2>3. Room'
    BY <2>2
  <2> QED
    BY <1>0, <2>1, <2>2, <2>3
<1>3. CASE GraphRestart
  <2>1. result' \in Results /\ failure' \in Failures /\ failureType' \in FailureTypes
    BY <1>3 DEF GraphRestart, Results, NoFailure, Failures, FailureTypes
  <2>2. /\ node' = "load_service_context" /\ retryCount' = 0 /\ incorrectRemovals' = 0
        /\ reductions' = none /\ accepted' = FALSE /\ steps' = 0
        /\ original' = {} /\ current' = {} /\ lastGood' = {} /\ candidate' = {} /\ observed' = {}
    BY <1>3 DEF GraphRestart
  <2>3. Room'
    BY <2>2
  <2> QED
    BY <1>0, <2>1, <2>2, <2>3
<1>4. CASE /\ node' = "raised" /\ steps' = steps + 1
           /\ UNCHANGED <<policyVars, observed, verificationVars, counterVars, accepted>>
  BY <1>4 DEF PreGenerate
<1> QED
  BY <1>1, <1>2, <1>3, <1>4

\* kubectl binds permissions of manifests and candidates.
LEMMA BindingsKeepTypes ==
    ASSUME NEW b \in Bindings
    PROVE  /\ \A names : Without(b, names) \in Bindings
           /\ \A base, policy : policy \subseteq AllPermissions => WithDocuments(b, base, policy) \in Bindings
BY DEF Bindings, Without, WithDocuments, InScope

\* So does restore_policy, however far it gets.
LEMMA RestoredKeepsTypes ==
    ASSUME bound \in Bindings, manifest \in Policies, NEW kept, NEW scopes
    PROVE  Restored(kept, scopes) \in Bindings
<1>1. {p \in manifest : p.namespace \in scopes} \subseteq AllPermissions
  BY DEF AllPermissions
<1>2. Without(bound, documents \ kept) \in Bindings
  BY BindingsKeepTypes
<1> QED
  BY <1>1, <1>2, BindingsKeepTypes DEF Restored

\* The sandbox is set up before the first command.
LEMMA TypesInitially == CommandInit => CommandTypes
<1> SUFFICES ASSUME CommandInit PROVE CommandTypes
  OBVIOUS
<1> USE DEF CommandInit, ReferenceInit, KubernetesInit
<1>1. GraphTypes
  <2>1. GraphInv
    BY InitEstablishesInv
  <2> QED
    BY <2>1 DEF GraphInv, Phase, Room, GraphTypes
<1>2. ClusterTypes
  <2>1. [n \in BindingNames |-> {}] \in Bindings
    BY DEF Bindings
  <2>2. manifest \subseteq AllPermissions
    BY DEF AllPermissions
  <2>3. bound \in Bindings
    BY <2>1, <2>2, BindingsKeepTypes
  <2> QED
    BY <2>3, RunsAssumption DEF ClusterTypes
<1>3. FlagTypes /\ ForwardTypes
  BY DEF FlagTypes, ForwardTypes, NoForwards, Forwarding, Waits, Outcomes, Optimizing
<1> QED
  BY <1>1, <1>2, <1>3 DEF CommandTypes

\* What the graph's thread and a worker that begins it again do to the graph.
LEMMA SystemKeepsGraphTypes ==
    ASSUME CommandInv, GraphTypes, SystemStep
    PROVE  GraphTypes'
<1>1. Sandbox /\ BindingInv
  BY SystemIsGoing
<1>2. CASE GraphRuns
  <2>1. GraphNext
    BY <1>1, <1>2 DEF GraphRuns, KubeInspect, KubeApply, KubeRestore, KubeApplyFails,
       KubeRestoreFails, GraphNext, Sandbox
  <2> QED
    BY <2>1, GraphKeepsTypes
<1>3. CASE ReferenceGather
  <2>1. GraphNext
    BY <1>1, <1>3, ReferenceGatherIsGather DEF KubeGather, GraphNext
  <2> QED
    BY <2>1, GraphKeepsTypes
<1>4. CASE ReferenceVerify \/ ReferenceVerifyDisturbed
  <2>1. GraphNext
    BY <1>1, <1>4, VerificationIsHonest DEF GraphNext
  <2> QED
    BY <2>1, GraphKeepsTypes
<1>5. CASE ReferenceCallFails
  BY <1>5, GraphKeepsTypes DEF ReferenceCallFails, KubeCallFails, GraphNext
<1>6. CASE HandlerRetries
  BY <1>6, GraphKeepsTypes DEF HandlerRetries
<1> QED
  BY <1>2, <1>3, <1>4, <1>5, <1>6 DEF SystemStep, GraphThread, ReferenceGraphNext, WorkerHandler,
     WorkerRetries, HandlerForgets

\* What they do to the cluster.
LEMMA SystemKeepsClusterTypes ==
    ASSUME CommandInv, ClusterTypes, SystemStep
    PROVE  ClusterTypes'
<1>1. Sandbox /\ BindingInv
  BY SystemIsGoing
<1>2. /\ candidate \in SUBSET CandidatePermissions /\ manifest \in Policies
      /\ candidate \subseteq AllPermissions
  <2>1. candidate \in SUBSET CandidatePermissions /\ manifest \in Policies
    BY <1>1 DEF BindingInv, Loaded
  <2>2. CandidatePermissions \subseteq AllPermissions
    BY DEF AllPermissions
  <2> QED
    BY <2>1, <2>2
<1>3. DocumentNames("kuber", candidate) \subseteq [base : {"kuber"}, scope : {Namespace, None}]
  BY <1>2, ScopesAreKnown DEF DocumentNames, Scopes
<1> USE DEF ClusterTypes, clusterVars, runVars, fixedVars
<1>4. CASE GraphStep /\ UNCHANGED <<clusterVars, runVars, fixedVars>>
  BY <1>4
<1>5. CASE KubeInspect \/ ReferenceCallFails
  BY <1>5 DEF KubeInspect, ReferenceCallFails, KubeCallFails
<1>6. CASE KubeApply
  <2>1. bound' \in Bindings
    BY <1>2, <1>6, BindingsKeepTypes DEF KubeApply
  <2> QED
    BY <1>3, <1>6, <2>1 DEF KubeApply
<1>7. CASE KubeApplyFails
  <2>1. CASE dryRun
    BY <1>7, <2>1 DEF KubeApplyFails
  <2>2. CASE ~dryRun
    <3>1. PICK done, deleted :
              bound' = Without(WithDocuments(bound, "kuber", {p \in candidate : p.namespace \in done}),
                               [base : {"overprivileged"}, scope : deleted])
      BY <1>7, <2>2 DEF KubeApplyFails
    <3>2. bound' \in Bindings
      BY <1>2, <3>1, BindingsKeepTypes
    <3> QED
      BY <1>3, <1>7, <2>2, <3>2 DEF KubeApplyFails
  <2> QED
    BY <2>1, <2>2
<1>8. ASSUME RestoreSucceeds \/ RestoreFails
      PROVE  /\ bound' \in Bindings
             /\ documents' \in SUBSET [base : {"kuber"}, scope : {Namespace, None}]
  BY <1>2, <1>8, RestoredKeepsTypes DEF RestoreSucceeds, RestoreFails
<1>9. CASE KubeRestore \/ KubeRestoreFails
  BY <1>8, <1>9 DEF KubeRestore, KubeRestoreFails
<1>10. CASE ReferenceGather
  <2>1. unread' \in SUBSET Events
    BY <1>10 DEF ReferenceGather
  <2> QED
    BY <1>10, <2>1 DEF ReferenceGather
<1>11. CASE ReferenceVerify \/ ReferenceVerifyDisturbed
  BY <1>1, <1>11, VerificationIsHonest
<1>12. CASE HandlerRetries
  <2>1. attempt' \in 0 .. MaxAttempts - 1
    BY <1>12, RunsAssumption DEF HandlerRetries
  <2> QED
    BY <1>8, <1>12, <2>1 DEF HandlerRetries
<1> QED
  BY <1>4, <1>5, <1>6, <1>7, <1>9, <1>10, <1>11, <1>12
     DEF SystemStep, GraphThread, ReferenceGraphNext, GraphRuns, WorkerHandler, WorkerRetries,
         HandlerForgets

\* The calls of a service leave the Job or not.
LEMMA CallsKeepFlags ==
    ASSUME FlagTypes, NEW calls, MakesCalls(Live, calls)
    PROVE  job' \in BOOLEAN
BY DEF FlagTypes, MakesCalls

\* What they do to the rest.
LEMMA SystemKeepsFlags ==
    ASSUME CommandInv, FlagTypes, SystemStep
    PROVE  FlagTypes'
<1>1. Sandbox /\ BindingInv
  BY SystemIsGoing
<1>2. reply' = reply
  BY DEF SystemStep, GraphThread, WorkerHandler, HandlerForgets, taskVars
<1>3. CASE UNCHANGED referenceVars
  BY <1>2, <1>3 DEF FlagTypes, referenceVars
<1>4. CASE ReferenceVerify \/ ReferenceVerifyDisturbed
  <2>1. \E calls : MakesCalls(Live, calls)
    BY <1>1, <1>4, VerificationIsHonest
  <2>2. disturbed' \in BOOLEAN
    BY <1>4 DEF ReferenceVerify, ReferenceVerifyDisturbed
  <2> QED
    BY <1>2, <2>1, <2>2, CallsKeepFlags DEF FlagTypes
<1>5. CASE ReferenceCallFails
  <2>1. disturbed' = disturbed /\ \E calls : MakesCalls(Live, calls)
    BY <1>1, <1>5, FailingMakesCalls DEF ReferenceCallFails
  <2> QED
    BY <1>2, <2>1, CallsKeepFlags DEF FlagTypes
<1> QED
  BY <1>3, <1>4, <1>5 DEF SystemStep, GraphThread, ReferenceGraphNext, ReferenceGather,
     WorkerHandler, ReferenceWorkerNext, HandlerForgets

\* The handlers after which no graph runs.
LEMMA LeavingKeepsTypes ==
    ASSUME CommandInv, GraphTypes, ClusterTypes, FlagTypes,
           WorkerHandler \/ HandlerAfterEnd, ~SystemStep
    PROVE  GraphTypes' /\ ClusterTypes' /\ FlagTypes'
<1>1. \/ WorkerGivesUp /\ UNCHANGED <<referenceVars, taskVars>>
      \/ HandlerKeepsReply
  BY DEF SystemStep, WorkerHandler, ReferenceWorkerNext, HandlerAfterEnd
<1>2. HandlerLeaves /\ UNCHANGED <<graphVars, unread, runs, referenceVars>>
  BY <1>1 DEF WorkerGivesUp, HandlerKeepsReply, HandlerLeaves
<1>3. manifest \in Policies
  BY DEF CommandInv, Sandbox
<1>4. /\ bound' \in Bindings
      /\ documents' \in SUBSET [base : {"kuber"}, scope : {Namespace, None}]
  BY <1>2, <1>3, RestoredKeepsTypes DEF HandlerLeaves, RestoreSucceeds, RestoreFails, ClusterTypes
<1>5. attempt' \in 0 .. MaxAttempts - 1
  BY <1>1, RunsAssumption DEF WorkerGivesUp, HandlerKeepsReply, ClusterTypes
<1>6. worker' \in {"restored", "unrestored"}
  BY <1>2 DEF HandlerLeaves
<1>7. ClusterTypes'
  BY <1>2, <1>4, <1>5, <1>6 DEF ClusterTypes
<1>8. reply' \in {reply, "none"}
  BY <1>1 DEF HandlerKeepsReply, taskVars
<1>9. FlagTypes'
  BY <1>2, <1>8 DEF FlagTypes, referenceVars
<1> QED
  BY <1>2, <1>7, <1>9, GraphKeepsTypes

\* The port-forwards are there exactly while the command waits for them or
\* runs the system: every way out of it ends or forgets them.
LEMMA ForwardsKeepTypes ==
    ASSUME ForwardTypes, [CommandNext]_commandAllVars
    PROVE  ForwardTypes'
<1> USE DEF ForwardTypes, Forwarding, Waits, Outcomes, Running, Optimizing
<1>1. NoForwards \in [Ports -> {"none", "dead"} \cup Running]
  BY DEF NoForwards
<1>2. ASSUME NEW why \in Outcomes, Ends(why), stray' \subseteq Ports
      PROVE  ForwardTypes'
  BY <1>1, <1>2 DEF Ends
<1>3. Leaked \subseteq Ports
  BY DEF Leaked
<1>4. CASE GuardRefuses \/ WarmupFails \/ ReadEnds \/ WaitTimesOut \/ CommandCloses
           \/ Killed \/ ResetFails
  <2>1. stray' \in {stray, Leaked}
    BY <1>4 DEF GuardRefuses, WarmupFails, ReadEnds, WaitTimesOut, CommandCloses, Killed,
       ResetFails
  <2>2. \E why \in Outcomes : Ends(why)
    BY <1>4 DEF GuardRefuses, WarmupFails, ReadEnds, WaitTimesOut, CommandCloses, Killed,
       ResetFails
  <2> QED
    BY <1>2, <1>3, <2>1, <2>2
<1>5. CASE Warmup
  BY <1>2, <1>5 DEF Warmup
<1>6. CASE ResetSucceeds
  BY <1>6 DEF ResetSucceeds
<1>7. CASE EnterForwards
  BY <1>7 DEF EnterForwards
<1>8. CASE WaitSucceeds
  <2>1. CASE cmd = "wait_kafka"
    BY <1>8, <2>1 DEF WaitSucceeds
  <2>2. CASE cmd = "wait_redis"
    <3>1. /\ cmd' = "system" /\ UNCHANGED <<stray, outcome>>
          /\ own' = [p \in Ports |-> IF p \in stray THEN "dead" ELSE "up"]
      BY <1>8, <2>2 DEF WaitSucceeds
    <3> QED
      BY <3>1
  <2> QED
    BY <1>8, <2>1, <2>2 DEF WaitSucceeds
<1>9. CASE WaitFindsDead
  BY <1>9 DEF WaitFindsDead
<1>10. CASE GraphThread \/ WorkerHandler \/ WorkerPublishes \/ HandlerAfterEnd
  BY <1>10 DEF GraphThread, WorkerHandler, WorkerPublishes, StoreReply, PublishReply,
     AcknowledgeRequest, HandlerAfterEnd, HandlerForgets, HandlerKeepsReply, commandVars
<1>11. CASE /\ cmd \in Waits \cup {"reading"}
            /\ \E p \in Ports : ForwardBinds(p) \/ ForwardDies(p) \/ StrayDies(p)
  BY <1>11 DEF ForwardBinds, ForwardDies, StrayDies
<1>12. CASE UNCHANGED commandAllVars
  BY <1>12 DEF commandAllVars, commandVars
<1>13. CASE CoordinatorReports \/ SystemTest \/ SystemTestEnds \/ CoordinatorRaises
  <2>1. cmd \in Optimizing /\ cmd' \in Optimizing \cup {"closing"} /\ UNCHANGED <<own, stray>>
    BY <1>13 DEF CoordinatorReports, SystemTest, SystemTestEnds, CoordinatorRaises, Optimizing
  <2>2. outcome' \in {outcome, "failed", "passed"}
    BY <1>13 DEF CoordinatorReports, SystemTest, SystemTestEnds, CoordinatorRaises
  <2> QED
    BY <2>1, <2>2
<1> QED
  BY <1>4, <1>5, <1>6, <1>7, <1>8, <1>9, <1>10, <1>11, <1>12, <1>13
     DEF CommandNext, PreparationStep

\* reset.sh, wherever it stops.
LEMMA ResetKeepsTypes ==
    ASSUME Sandbox, GraphTypes, ClusterTypes, FlagTypes, ResetSucceeds \/ ResetFails
    PROVE  GraphTypes' /\ ClusterTypes' /\ FlagTypes'
<1> DEFINE cleared == Without(bound, {[base |-> "kuber", scope |-> Namespace]})
<1>1. /\ bound \in Bindings /\ cleared \in Bindings
      /\ WithDocuments(cleared, "overprivileged", manifest) \in Bindings
  <2>1. bound \in Bindings /\ manifest \subseteq AllPermissions
    BY DEF ClusterTypes, Sandbox, AllPermissions
  <2>2. cleared \in Bindings
    BY <2>1, BindingsKeepTypes
  <2> QED
    BY <2>1, <2>2, BindingsKeepTypes
<1> HIDE DEF cleared
<1>2. /\ GraphRestart /\ documents' = {} /\ attempt' = 0 /\ runs < MaxRuns /\ runs' = runs + 1
      /\ worker' = "busy" /\ reply' = "none"
  BY DEF ResetSucceeds, ResetFails, Rerun, NoReply
<1>3. GraphTypes'
  BY <1>2, GraphKeepsTypes
<1>4. bound' \in Bindings
  <2>1. CASE ResetSucceeds
    BY <1>1, <2>1 DEF ResetSucceeds, Rerun, cleared
  <2>2. CASE ResetFails
    <3>1. PICK done \in 0 .. 4 :
              bound' = CASE done = 0     -> bound
                         [] done \in 1..3 -> Without(bound, {[base |-> "kuber", scope |-> Namespace]})
                         [] done = 4     -> WithDocuments(
                                               Without(bound, {[base |-> "kuber", scope |-> Namespace]}),
                                               "overprivileged", manifest)
      BY <2>2 DEF ResetFails
    <3>2. bound' \in {bound, cleared, WithDocuments(cleared, "overprivileged", manifest)}
      BY <3>1 DEF cleared
    <3> QED
      BY <1>1, <3>2
  <2> QED
    BY <2>1, <2>2
<1>5. unread' \in SUBSET Events
  BY DEF ResetSucceeds, ResetFails, Rerun, ClusterTypes
<1>6. ClusterTypes'
  <2>1. attempt' \in 0 .. MaxAttempts - 1 /\ runs' \in 1 .. MaxRuns
    BY <1>2, RunsAssumption DEF ClusterTypes
  <2> QED
    BY <1>2, <1>4, <1>5, <2>1 DEF ClusterTypes
<1>7. FlagTypes'
  <2>1. job' \in BOOLEAN /\ disturbed' \in BOOLEAN
    BY DEF ResetSucceeds, ResetFails, FlagTypes
  <2> QED
    BY <1>2, <2>1 DEF FlagTypes
<1> QED
  BY <1>3, <1>6, <1>7

\* Every step of the command.
LEMMA TypesArePreserved ==
    CommandInv /\ CommandTypes /\ [CommandNext]_commandAllVars => CommandTypes'
<1> SUFFICES ASSUME CommandInv, GraphTypes, ClusterTypes, FlagTypes, ForwardTypes,
                    [CommandNext]_commandAllVars
             PROVE  GraphTypes' /\ ClusterTypes' /\ FlagTypes'
  BY ForwardsKeepTypes DEF CommandTypes
<1>1. CASE SystemStep
  BY <1>1, SystemKeepsGraphTypes, SystemKeepsClusterTypes, SystemKeepsFlags
<1>2. CASE (WorkerHandler \/ HandlerAfterEnd) /\ ~SystemStep
  BY <1>2, LeavingKeepsTypes
<1>3. CASE ResetSucceeds \/ ResetFails
  BY <1>3, ResetKeepsTypes DEF CommandInv
<1>4. ASSUME UNCHANGED graphVars PROVE GraphTypes'
  BY <1>4, GraphKeepsTypes
<1>5. ASSUME UNCHANGED <<bound, documents, runVars>>, unread' \in SUBSET Events
      PROVE  ClusterTypes'
  BY <1>5 DEF ClusterTypes, runVars
<1>6. ASSUME UNCHANGED allVars PROVE GraphTypes' /\ ClusterTypes'
  BY <1>4, <1>5, <1>6 DEF allVars, vars, clusterVars, ClusterTypes
<1>7. CASE Killed
  <2>1. GraphTypes'
    BY <1>7, GraphKeepsTypes DEF Killed
  <2>2. ClusterTypes'
    BY <1>7, RunsAssumption DEF ClusterTypes, Killed
  <2>3. FlagTypes'
    BY <1>7 DEF FlagTypes, Killed, NoReply
  <2> QED
    BY <2>1, <2>2, <2>3
<1>8. CASE CommandCloses
  <2>1. GraphTypes'
    BY <1>4, <1>8, GraphKeepsTypes DEF CommandCloses, Goto
  <2>2. UNCHANGED <<bound, documents, unread, runVars, job, disturbed, reply>>
    BY <1>8 DEF CommandCloses, clusterVars, referenceVars, taskVars
  <2> QED
    BY <1>5, <2>1, <2>2 DEF ClusterTypes, FlagTypes
<1>9. CASE Warmup
  <2>1. UNCHANGED <<graphVars, bound, documents, unread, runVars, disturbed, reply>>
    BY <1>9 DEF Warmup, vars, clusterVars, taskVars
  <2>2. job' \in BOOLEAN
    BY <1>9, CallsKeepFlags DEF Warmup
  <2> QED
    BY <1>4, <1>5, <2>1, <2>2 DEF ClusterTypes, FlagTypes
<1>10. CASE SystemTest
  <2>1. Sandbox
    BY DEF CommandInv
  <2>2. PICK calls \in Seq(required) :
            /\ MakesCalls(Live, calls)
            /\ unread' = unread \cup {e \in Range(calls) : ~IsAuthorized(Live, e)}
    BY <1>10, <2>1, SystemTestMakesCalls
  <2>3. job' \in BOOLEAN
    BY <2>2, CallsKeepFlags
  <2>4. unread' \in SUBSET Events
    BY <2>1, <2>2 DEF Sandbox, ClusterTypes, Range
  <2>5. UNCHANGED <<graphVars, bound, documents, runVars, disturbed, reply>>
    BY <1>10 DEF SystemTest
  <2> QED
    BY <1>4, <1>5, <2>3, <2>4, <2>5 DEF FlagTypes
<1>11. CASE \/ CoordinatorReports \/ SystemTestEnds \/ CoordinatorRaises
            \/ GuardRefuses \/ WarmupFails \/ EnterForwards \/ WaitSucceeds \/ WaitFindsDead
            \/ ReadEnds \/ WaitTimesOut
            \/ \E p \in Ports : ForwardBinds(p) \/ ForwardDies(p) \/ StrayDies(p)
            \/ UNCHANGED commandAllVars
  <2>1. UNCHANGED <<allVars, reply>>
    BY <1>11 DEF CoordinatorReports, SystemTestEnds, CoordinatorRaises, GuardRefuses, WarmupFails,
       EnterForwards, WaitSucceeds, WaitFindsDead, ReadEnds, WaitTimesOut, ForwardBinds,
       ForwardDies, StrayDies, commandAllVars, taskVars
  <2> QED
    BY <1>6, <2>1 DEF FlagTypes, allVars, referenceVars
<1>12. CASE WorkerPublishes
  BY <1>6, <1>12 DEF WorkerPublishes, StoreReply, PublishReply, AcknowledgeRequest, FlagTypes,
     allVars, referenceVars
<1> QED
  BY <1>1, <1>2, <1>3, <1>7, <1>8, <1>9, <1>10, <1>11, <1>12
     DEF CommandNext, PreparationStep, SystemStep

\* The state of the command keeps its types; its port-forwards are running
\* or dead exactly while it waits for them or runs the system, and a result is
\* stored, published and counted only in this order.
THEOREM CommandTypeCorrect == CommandSpec => []CommandTypeOK
<1>1. CommandInv /\ Reported /\ CommandTypes => CommandTypeOK
  <2> SUFFICES ASSUME CommandInv, Reported, CommandTypes PROVE CommandTypeOK
    OBVIOUS
  <2>1. KubernetesTypeOK
    BY DEF CommandTypes, GraphTypes, ClusterTypes, KubernetesTypeOK, Bindings, AllPermissions
  <2>2. Range(log) \subseteq DeclaredCalls(service) /\ service \in Services
    <3>1. required = DeclaredCalls(service) /\ log \in Seq(required) /\ service \in Services
      BY DeclaredCallsAreAsked DEF CommandInv, Sandbox
    <3>2. Range(log) \subseteq required
      BY <3>1 DEF Range
    <3> QED
      BY <3>1, <3>2
  <2>3. ReferenceTypeOK
    BY <2>1, <2>2 DEF CommandTypes, FlagTypes, ReferenceTypeOK
  <2>4. cmd \in {"ended", "warmup", "enter", "reading", "closing"} \cup Optimizing \cup Waits
    BY DEF CommandInv, Sandbox, Preparing, Active
  <2>5. own # NoForwards <=> cmd \in {"reading", "closing"} \cup Optimizing \cup Waits
    <3>1. NoForwards["kafka"] = "none" /\ "kafka" \in Ports
      BY DEF NoForwards, Ports
    <3> QED
      BY <3>1 DEF CommandTypes, ForwardTypes, Forwarding
  <2>6. untested \in 0 .. Len(Tests(service))
    BY DEF CommandInv, Sandbox
  <2> QED
    BY <2>3, <2>4, <2>5, <2>6
       DEF CommandTypes, FlagTypes, ForwardTypes, Outcomes, Reported, CommandTypeOK
<1> QED
  BY TypesInitially, TypesArePreserved, CommandInvHolds, ReportedHolds, <1>1, PTL DEF CommandSpec
=============================================================================
