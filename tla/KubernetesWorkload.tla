------------------------- MODULE KubernetesWorkload -------------------------
(***************************************************************************)
(* The workload graph driving the live adapter                             *)
(* (kubernetes_runtime/adapter/kubernetes_environment.py), over the        *)
(* deliveries a worker gives it and over successive `kuber optimize` runs. *)
(*                                                                         *)
(* What a workload may do is the union of the bindings of its service      *)
(* account.  They come from three sources with names of their own: the     *)
(* reference manifest ("overprivileged"), the candidates ("kuber") and     *)
(* restore_policy ("effective", the name resolve_effective_policy gives    *)
(* the original policy).  kubectl may fail in the middle of any operation, *)
(* the process may be killed at any node, and a denial that the workload   *)
(* logs may become readable late.                                          *)
(***************************************************************************)
EXTENDS WorkloadGraph

CONSTANTS
    Namespace,      \* the sandbox namespace
    MaxAttempts,    \* max_delivery_attempts of the worker
    MaxRuns         \* bound: `kuber optimize` runs

ASSUME RunsAssumption == MaxAttempts \in Nat \ {0} /\ MaxRuns \in Nat \ {0}

\* Services call the API in the sandbox or cluster-wide, and manifests bind
\* there: the only namespaces whose bindings the adapter creates and deletes.
ASSUME ScopesAssumption ==
    \A x \in Events \cup UNION Policies : x.namespace \in {Namespace, None}

VARIABLES
    manifest,    \* the policy of the reference manifest (_original_policy)
    required,    \* the calls of the smoke command
    dryRun,
    bound,       \* the permissions each binding name grants; {} when absent
    documents,   \* the binding names of _candidate_documents
    unread,      \* denials logged by the workload beyond _log_line_cursor
    attempt,     \* deliveries of the task before this one
    runs,        \* `kuber optimize` runs started
    worker       \* "busy", or how the worker left the workload

clusterVars == <<bound, documents, unread>>
runVars == <<attempt, runs, worker>>
fixedVars == <<manifest, required, dryRun>>
vars == <<graphVars, clusterVars, runVars, fixedVars>>

BindingNames == [base : {"overprivileged", "kuber", "effective"}, scope : {Namespace, None}]

\* The names of the bindings that policy_to_documents makes for a policy.
DocumentNames(base, policy) == {[base |-> base, scope |-> ns] : ns \in Scopes(policy)}

\* Mutant: every document is given the rules of all scopes.
WithDocumentsUnscoped(b, base, policy) ==
    [n \in BindingNames |-> IF n \in DocumentNames(base, policy)
                            THEN {[p EXCEPT !.namespace = n.scope] : p \in policy} ELSE b[n]]

\* kubectl apply of the documents of a policy.
WithDocuments(b, base, policy) ==
    [n \in BindingNames |-> IF n \in DocumentNames(base, policy)
                            THEN InScope(policy, n.scope) ELSE b[n]]

\* kubectl delete of bindings.
Without(b, names) == [n \in BindingNames |-> IF n \in names THEN {} ELSE b[n]]

\* What the cluster authorizes the service account to do.
Live == UNION {bound[n] : n \in BindingNames}

Denied(policy) == {e \in required : ~IsAuthorized(policy, e)}

-----------------------------------------------------------------------------

KubernetesInit ==
    /\ GraphInit
    /\ manifest \in Policies
    /\ required \in SUBSET Events
    /\ dryRun \in BOOLEAN
    /\ bound = WithDocuments([n \in BindingNames |-> {}], "overprivileged", manifest)
    /\ documents = {}
    /\ unread = {}
    /\ attempt = 0
    /\ runs = 1
    /\ worker = "busy"

\* prepare_sandbox, which a caller may run before the graph: candidates are
\* removed by name and the manifest is applied again.
PrepareSandbox ==
    /\ node = "load_service_context" /\ worker = "busy" /\ ~dryRun
    /\ bound' = WithDocuments(
                    Without(bound, documents \cup [base : {"kuber"}, scope : {Namespace, None}]),
                    "overprivileged", manifest)
    /\ documents' = {}
    /\ unread' = {}
    /\ UNCHANGED <<graphVars, runVars, fixedVars>>

KubeInspect == Inspect(manifest) /\ UNCHANGED <<clusterVars, runVars, fixedVars>>

\* The calls found in the workload's logs.  Reading moves the cursor past
\* the denials of an earlier delivery that have become readable.
KubeGather ==
    /\ \E events \in SUBSET Events : Gather(events)
    /\ unread' \in SUBSET unread
    /\ UNCHANGED <<bound, documents, runVars, fixedVars>>

\* apply_policy: the candidate's documents, then the deletion of the known
\* overprivileged bindings.  Nothing is applied for an empty candidate.
KubeApply ==
    /\ ~dryRun
    /\ Apply
    /\ documents' = DocumentNames("kuber", candidate)
    /\ bound' = Without(WithDocuments(bound, "kuber", candidate),
                        [base : {"overprivileged"}, scope : {Namespace, None}])
    /\ UNCHANGED <<unread, runVars, fixedVars>>

\* Mutant: a dry run stops only after the documents have been applied.
KubeApplyFailsLate ==
    /\ node = "apply_candidate"
    /\ EnvironmentRaises
    /\ documents' = DocumentNames("kuber", candidate)
    /\ bound' = WithDocuments(bound, "kuber", candidate)
    /\ UNCHANGED <<unread, runVars, fixedVars>>

\* apply_policy raises: always in a dry run, before it touches the cluster;
\* otherwise where kubectl failed, with the documents of some scopes applied
\* and, once all are, perhaps the namespaced original binding deleted.
KubeApplyFails ==
    /\ node = "apply_candidate"
    /\ EnvironmentRaises
    /\ IF dryRun
       THEN UNCHANGED <<bound, documents>>
       ELSE /\ documents' = DocumentNames("kuber", candidate)
            /\ \E done \in SUBSET Scopes(candidate), deleted \in SUBSET {Namespace} :
                  /\ deleted # {} => done = Scopes(candidate)
                  /\ bound' = Without(
                         WithDocuments(bound, "kuber", {p \in candidate : p.namespace \in done}),
                         [base : {"overprivileged"}, scope : deleted])
    /\ UNCHANGED <<unread, runVars, fixedVars>>

\* verify_workload: the smoke command succeeds only if every required call
\* is allowed, and may fail for other reasons.  Its calls stop at a denied
\* one, so some denials are logged; some of the logged ones are readable in
\* time, with those that were late for an earlier verification.
KubeVerify ==
    \E passed \in BOOLEAN, logged \in SUBSET Denied(Live) :
    \E readable \in SUBSET (unread \cup logged) :
        /\ passed => Denied(Live) = {}
        /\ Denied(Live) # {} => logged # {}
        /\ Verify([passed |-> passed, denied |-> readable])
        /\ unread' = (unread \cup logged) \ readable
        /\ UNCHANGED <<bound, documents, runVars, fixedVars>>

\* The cluster after restore_policy has deleted the candidates, except those
\* whose deletion failed silently (check=False), and has applied the original
\* policy for some scopes.
Restored(kept, scopes) ==
    WithDocuments(Without(bound, documents \ kept), "effective",
                  {p \in manifest : p.namespace \in scopes})

\* Mutant: the original policy is not applied again.
RestoreDeletesOnly ==
    IF dryRun
    THEN UNCHANGED <<bound, documents>>
    ELSE /\ documents' = {}
         /\ \E kept \in SUBSET documents : bound' = Restored(kept, {})

\* restore_policy returns.
RestoreSucceeds ==
    IF dryRun
    THEN UNCHANGED <<bound, documents>>
    ELSE /\ documents' = {}
         /\ \E kept \in SUBSET documents : bound' = Restored(kept, Scopes(manifest))

\* restore_policy raises: a deletion timed out, or the original policy was
\* not applied for every scope.
RestoreFails ==
    /\ ~dryRun
    /\ \/ /\ \E kept \in SUBSET documents : bound' = Restored(kept, {})
          /\ UNCHANGED documents
       \/ /\ \E kept \in SUBSET documents, scopes \in SUBSET Scopes(manifest) \ {Scopes(manifest)} :
                bound' = Restored(kept, scopes)
          /\ documents' = {}

KubeRestore ==
    /\ Restore
    /\ RestoreSucceeds
    /\ UNCHANGED <<unread, runVars, fixedVars>>

KubeRestoreFails ==
    /\ node = "restore_last_known_good"
    /\ EnvironmentRaises
    /\ RestoreFails
    /\ UNCHANGED <<unread, runVars, fixedVars>>

\* Reading logs and running the smoke command may time out.
KubeCallFails ==
    /\ node \in {"gather_evidence", "verify"}
    /\ EnvironmentRaises
    /\ UNCHANGED <<clusterVars, runVars, fixedVars>>

\* The worker's handler, once its body has raised: restore_policy with its
\* errors suppressed, then a retry, which gets a new adapter and a new graph
\* run, or the end of the worker's part.
HandlerRetries ==
    /\ worker = "busy" /\ attempt + 1 < MaxAttempts
    /\ RestoreSucceeds \/ RestoreFails
    /\ documents' = {}
    /\ GraphResume
    /\ attempt' = attempt + 1
    /\ UNCHANGED <<unread, runs, worker, fixedVars>>

HandlerLeaves ==
    /\ worker = "busy"
    /\ \/ RestoreSucceeds /\ worker' = "restored"
       \/ RestoreFails    /\ worker' = "unrestored"
    /\ UNCHANGED <<graphVars, unread, runs, fixedVars>>

WorkerRetries == node = "raised" /\ HandlerRetries

\* The dead letter.
WorkerGivesUp ==
    /\ node = "raised" /\ attempt + 1 >= MaxAttempts
    /\ HandlerLeaves
    /\ UNCHANGED attempt

\* reset.sh at the start of another `kuber optimize`, after the last one has
\* ended or was killed at any point: the namespaced candidate is deleted, the
\* pods are restarted and the manifest is applied.
Rerun ==
    /\ runs < MaxRuns /\ ~dryRun
    /\ bound' = WithDocuments(Without(bound, {[base |-> "kuber", scope |-> Namespace]}),
                              "overprivileged", manifest)
    /\ documents' = {}
    /\ unread' = {}
    /\ GraphRestart
    /\ attempt' = 0
    /\ runs' = runs + 1
    /\ worker' = "busy"
    /\ UNCHANGED fixedVars

KubernetesNext ==
    \/ GraphStep /\ UNCHANGED <<clusterVars, runVars, fixedVars>>
    \/ PrepareSandbox
    \/ KubeInspect \/ KubeGather \/ KubeApply \/ KubeVerify \/ KubeRestore
    \/ KubeApplyFails \/ KubeRestoreFails \/ KubeCallFails
    \/ WorkerRetries \/ WorkerGivesUp \/ Rerun

KubernetesSpec == KubernetesInit /\ [][KubernetesNext]_vars

-----------------------------------------------------------------------------

KubernetesTypeOK ==
    /\ TypeOK
    /\ bound \in [BindingNames -> SUBSET ((UNION Policies) \cup CandidatePermissions)]
    /\ documents \in SUBSET [base : {"kuber"}, scope : {Namespace, None}]
    /\ unread \in SUBSET Events
    /\ attempt \in 0 .. MaxAttempts - 1
    /\ runs \in 1 .. MaxRuns
    /\ worker \in {"busy", "restored", "unrestored"}

\* Whatever fails half way, is left over from an earlier run or is restored,
\* the workload is never granted a call that its manifest does not grant.
ClusterWithinOriginal ==
    \A e \in Events : IsAuthorized(Live, e) => IsAuthorized(manifest, e)

\* The bindings this run did not make and did not remove.
Leftover == {n \in BindingNames \ documents : bound[n] # {}}

\* When no binding of an earlier restore or run is left, an accepted run
\* leaves the workload with exactly the policy it reports, and that policy
\* lets every call of the smoke command through.
AcceptedPolicyIsEnforced ==
    (node = "END" /\ accepted /\ Leftover = {}) =>
        Live = FinalPolicy /\ Denied(FinalPolicy) = {}

\* A rejected run, and a worker that gave up after a successful restore,
\* leave the workload with all the access its manifest grants.
OriginalAccessIsBack ==
    ((node = "END" /\ ~accepted) \/ worker = "restored") =>
        \A e \in Events : IsAuthorized(manifest, e) => IsAuthorized(Live, e)

\* A dry run never changes the cluster, whatever fails and is retried.
DryRunChangesNothing == [][dryRun => UNCHANGED bound]_vars

\* docs/EVALUATION.md: "without accepting a policy that fails the declared
\* workload tests".  A policy that is accepted allows the calls of the
\* declared tests.
AcceptedPolicyPassesDeclaredTests == (node = "END" /\ accepted) => Denied(FinalPolicy) = {}
=============================================================================
