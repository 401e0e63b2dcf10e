-------------------------- MODULE ReferenceWorkload --------------------------
(***************************************************************************)
(* The live adapter driving a reference service                            *)
(* (examples/reference_workload).  Where KubernetesWorkload lets the logs  *)
(* and the smoke command answer anything, here they are what the service   *)
(* prints and answers: a test is a route of calls that ends at the first   *)
(* one the API server refuses, calls leave a Job behind, and every call,   *)
(* denied ones included, stays in the log that a later delivery takes its  *)
(* evidence from.                                                          *)
(***************************************************************************)
EXTENDS KubernetesWorkload, SequencesExt

CONSTANTS
    Services,   \* the services considered
    MaxLag      \* bound: a service's printed calls, or denials, that are not
                \* readable yet

ASSUME ServicesAssumption ==
    Services \subseteq {"api-gateway", "auth-service", "order-service", "payment-service",
                        "worker-service"}

VARIABLES
    service,
    job,          \* whether the Job of the tests exists
    log,          \* the different calls printed since the pods were restarted, in order
    disturbed     \* the latest smoke command failed for another reason than RBAC

referenceVars == <<service, job, log, disturbed>>
allVars == <<vars, referenceVars>>

-----------------------------------------------------------------------------
(* The calls of a service.                                                 *)

ReadConfig == Key("", "configmaps", "get", Namespace, "app-config")
ReadSecret(name) == Key("", "secrets", "get", Namespace, name)
ListPods == Key("", "pods", "list", Namespace, None)
JobCall(verb) == Key("batch", "jobs", verb, Namespace, "kuber-worker-smoke")

\* reference-rbac.yaml: every verb of the resources of a service.
Granted(group, resources) == {Key(group, r, v, Namespace, None) : r \in resources, v \in SupportedVerbs}

ReferencePolicy(s) ==
    CASE s = "api-gateway"     -> Granted("", {"configmaps", "services"})
      [] s = "auth-service"    -> Granted("", {"secrets", "configmaps"})
      [] s = "order-service"   -> Granted("", {"configmaps"})
      [] s = "payment-service" -> Granted("", {"secrets", "configmaps", "pods"})
      [] s = "worker-service"  -> Granted("", {"configmaps"}) \cup Granted("batch", {"jobs"})

\* GET /profile.
Profile(s) ==
    CASE s = "auth-service"    -> <<ReadConfig, ReadSecret("auth-secret")>>
      [] s = "payment-service" -> <<ReadConfig, ReadSecret("payment-secret"), ListPods>>
      [] OTHER                 -> <<ReadConfig>>

\* POST /rare-workflow.
Reconcile == <<JobCall("create"), JobCall("get"), JobCall("delete")>>

\* service-smoke.sh: the tests run one after the other, whatever fails.
Tests(s) == <<Profile(s)>> \o (IF s = "worker-service" THEN <<Reconcile>> ELSE <<>>)

\* The API server's answer: authorization comes before everything else.
Answer(policy, call) ==
    CASE ~IsAuthorized(policy, call)                                  -> 403
      [] IsAuthorized(policy, call) /\ call = JobCall("create") /\ job -> 409
      [] OTHER                                                        -> 200

\* Mutant: a Job left behind is an error.
ToleratedNoConflict(call) == {200}

\* The answers after which a route goes on: create_job swallows a conflict.
Tolerated(call) == IF call = JobCall("create") THEN {200, 409} ELSE {200}

\* The indices of the calls of a route that end it.
Ending(policy, route) == {i \in 1 .. Len(route) : Answer(policy, route[i]) \notin Tolerated(route[i])}

\* The calls a route makes, the one that ends it included.
Made(policy, route) ==
    IF Ending(policy, route) = {} THEN route ELSE SubSeq(route, 1, Min(Ending(policy, route)))

SmokeCalls(policy) ==
    LET routes == Tests(service)
    IN  FlattenSeq([t \in 1 .. Len(routes) |-> Made(policy, routes[t])])

SmokePasses(policy) ==
    \A route \in Range(Tests(service)) : Ending(policy, route) = {}

\* The structured 403 records that the smoke command makes the service print.
Refusals(policy) == {e \in Range(SmokeCalls(policy)) : ~IsAuthorized(policy, e)}

\* The one enumeration of a set of indices from the least to the greatest.
InOrder(indices) ==
    {at \in [1 .. Cardinality(indices) -> indices] : \A j, k \in DOMAIN at : j < k => at[j] < at[k]}

\* The service makes some calls: they are printed, and take effect where
\* they are allowed.
MakesCalls(policy, calls) ==
    LET effective == {e \in Range(calls) : IsAuthorized(policy, e)}
        new == {i \in 1 .. Len(calls) : calls[i] \notin Range(log)}
    IN  /\ \E at \in InOrder(new) : log' = log \o [k \in DOMAIN at |-> calls[at[k]]]
        /\ job' = IF JobCall("delete") \in effective THEN FALSE
                  ELSE job \/ JobCall("create") \in effective

-----------------------------------------------------------------------------

\* The calls of all tests.
DeclaredCalls(s) == Range(FlattenSeq(Tests(s)))

ReferenceInit ==
    /\ KubernetesInit
    /\ service \in Services
    /\ job = FALSE
    /\ log = <<>>
    /\ disturbed = FALSE
    /\ required = DeclaredCalls(service)
    /\ manifest = ReferencePolicy(service)

\* get_observed_usage: the newest lines of the log may not be readable yet.
\* The cursor moves past the ones that are.
ReferenceGather ==
    /\ \E n \in 0 .. Len(log) :
          /\ Len(log) <= n + MaxLag[service]
          /\ Gather(Range(SubSeq(log, 1, n)))
          /\ n = Len(log) => unread' = {}
    /\ unread' \in {unread, {}}
    /\ UNCHANGED <<bound, documents, runVars, fixedVars, referenceVars>>

\* Mutant: the smoke command is judged by the denials that could be read.
ReadsDenialsOnly(refused) ==
    \E late \in {l \in SUBSET (unread \cup refused) : Cardinality(l) <= MaxLag[service]} :
        /\ Verify([passed |-> (unread \cup refused) \ late = {} /\ ~disturbed',
                   denied |-> (unread \cup refused) \ late])
        /\ unread' = late

\* verify_workload judges by the exit code, and reads the denials beyond the
\* cursor that are readable in time.
Reads(refused) ==
    \E late \in {l \in SUBSET (unread \cup refused) : Cardinality(l) <= MaxLag[service]} :
        /\ Verify([passed |-> SmokePasses(Live) /\ ~disturbed',
                   denied |-> (unread \cup refused) \ late])
        /\ unread' = late

\* The smoke command runs to its end.
ReferenceVerify ==
    /\ disturbed' = FALSE
    /\ Reads(Refusals(Live))
    /\ MakesCalls(Live, SmokeCalls(Live))
    /\ UNCHANGED <<service, bound, documents, runVars, fixedVars>>

\* The smoke command fails although nothing was refused, or before it made
\* the calls that are: the port-forward was not ready, or the service or the
\* API server failed.
ReferenceVerifyDisturbed ==
    /\ disturbed' = TRUE
    /\ \E n \in 0 .. Len(SmokeCalls(Live)) :
          LET calls == SubSeq(SmokeCalls(Live), 1, n)
          IN  /\ Reads(Range(calls) \cap Refusals(Live))
              /\ MakesCalls(Live, calls)
    /\ UNCHANGED <<service, bound, documents, runVars, fixedVars>>

\* verify_workload or get_observed_usage times out.  The smoke command may
\* have made some of its calls.
ReferenceCallFails ==
    /\ KubeCallFails
    /\ \E n \in 0 .. IF node = "verify" THEN Len(SmokeCalls(Live)) ELSE 0 :
          MakesCalls(Live, SubSeq(SmokeCalls(Live), 1, n))
    /\ UNCHANGED <<service, disturbed>>

\* The steps of the graph and of kubectl that do not involve the service.
GraphRuns ==
    \/ GraphStep /\ UNCHANGED <<clusterVars, runVars, fixedVars>>
    \/ KubeInspect \/ KubeApply \/ KubeRestore
    \/ KubeApplyFails \/ KubeRestoreFails

ReferenceGraphNext ==
    \/ GraphRuns /\ UNCHANGED referenceVars
    \/ ReferenceGather \/ ReferenceVerify \/ ReferenceVerifyDisturbed \/ ReferenceCallFails

\* The worker's part, once the graph has raised.
ReferenceWorkerNext == (WorkerRetries \/ WorkerGivesUp) /\ UNCHANGED referenceVars

-----------------------------------------------------------------------------

ReferenceTypeOK ==
    /\ KubernetesTypeOK
    /\ service \in Services
    /\ Range(log) \subseteq DeclaredCalls(service)
    /\ {job, disturbed} \subseteq BOOLEAN

\* An accepted policy lets the tests pass again, with the Job that the
\* verification or an earlier command left in the namespace: with what else
\* is bound, and by itself where nothing else was left.  Only the worker
\* takes it back, when it cannot report it.
AcceptedPolicyKeepsServing ==
    (node = "END" /\ accepted /\ worker = "busy") =>
        /\ SmokePasses(Live)
        /\ Leftover = {} => SmokePasses(FinalPolicy)

\* Whatever an earlier verification left behind, and however many denials
\* had to be repaired, a workload is rejected only if the last smoke command
\* failed for another reason than RBAC, or records of denials were not
\* readable in time: its manifest grants what its tests need.
RejectionIsJustified ==
    (node = "END" /\ ~accepted) => disturbed \/ unread # {}
=============================================================================
