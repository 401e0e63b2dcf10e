---------------------------- MODULE SandboxCommand ----------------------------
(***************************************************************************)
(* `kuber optimize` (kuber_cli/cli.py), command after command on one       *)
(* sandbox, seen from one of its services: the guard, reset.sh and         *)
(* warmup-system.sh, the port-forwards that SandboxPortForwards            *)
(* (kubernetes_runtime/runtime.py) owns, the coordinator with its result   *)
(* timeout, the end-to-end test, and what is left when the command ends,   *)
(* is cancelled or is killed.  The service's graph is that of              *)
(* ReferenceWorkload; its worker stores, publishes and acknowledges the    *)
(* result, and its handler runs where one of these fails.  The coordinator *)
(* counts results of any task, so it may end the command at any of these   *)
(* steps.  The other services and the broker show only in its waiting and  *)
(* in the choice `others`.                                                 *)
(***************************************************************************)
EXTENDS ReferenceWorkload

VARIABLES
    cmd,       \* where the command is
    own,       \* the port-forward process it has started for each port
    stray,     \* ports on which a process of an earlier command still listens
    outcome,   \* why the latest command ended, or is about to: "passed" is exit
               \* code 0, "failed" that the run, which did begin, ends with 1
    reply,     \* where the result of the task is, once the graph has ended
    counted,   \* whether the coordinator has counted it
    untested   \* the service's tests that the end-to-end test has yet to make

commandVars == <<cmd, own, stray, outcome>>
taskVars == <<reply, counted, untested>>
commandAllVars == <<allVars, commandVars, taskVars>>

Ports == {"kafka", "redis"}
Waits == {"wait_kafka", "wait_redis"}
PortOf(wait) == IF wait = "wait_kafka" THEN "kafka" ELSE "redis"
Running == {"starting", "up"}

NoForwards == [p \in Ports |-> "none"]

\* A process that the command does not terminate outlives it.
Leaked == stray \cup {p \in Ports : own[p] \in Running}

\* Mutant: a command ends without the __exit__ of its port-forwards.
EndsWithoutExit(why) ==
    /\ cmd' = "ended"
    /\ outcome' = why
    /\ UNCHANGED own

Ends(why) ==
    /\ cmd' = "ended"
    /\ outcome' = why
    /\ own' = NoForwards

\* A run that has no result yet.
NoReply == reply' = "none" /\ counted' = FALSE /\ untested' = 0

-----------------------------------------------------------------------------
(* Preparation.                                                            *)

\* The sandbox is set up; no command has run.
CommandInit ==
    /\ ReferenceInit
    /\ cmd = "ended"
    /\ own = NoForwards
    /\ stray = {}
    /\ outcome = "none"
    /\ reply = "none" /\ counted = FALSE /\ untested = 0

\* The guard: a dry-run environment refuses the command.
GuardRefuses ==
    /\ cmd = "ended" /\ dryRun
    /\ Ends("refused")
    /\ UNCHANGED <<allVars, stray, taskVars>>

\* reset.sh, on a service that an earlier command may have left anywhere.
ResetSucceeds ==
    /\ cmd = "ended"
    /\ Rerun
    /\ cmd' = "warmup"
    /\ outcome' = "none"
    /\ log' = <<>>
    /\ job' = FALSE
    /\ disturbed' = FALSE
    /\ NoReply
    /\ UNCHANGED <<service, own, stray>>

\* reset.sh stops at the first command that fails: before or after it has
\* deleted the candidate, restarted the pods, deleted the Job and applied
\* the manifest.
ResetFails ==
    /\ cmd = "ended"
    /\ runs < MaxRuns /\ ~dryRun
    /\ \E done \in 0 .. 4 :
          /\ bound' = CASE done = 0     -> bound
                        [] done \in 1..3 -> Without(bound, {[base |-> "kuber", scope |-> Namespace]})
                        [] done = 4     -> WithDocuments(
                                              Without(bound, {[base |-> "kuber", scope |-> Namespace]}),
                                              "overprivileged", manifest)
          /\ log' = IF done >= 2 THEN <<>> ELSE log
          /\ unread' = IF done >= 2 THEN {} ELSE unread
          /\ job' = (job /\ done < 3)
    /\ documents' = {}
    /\ GraphRestart
    /\ attempt' = 0
    /\ runs' = runs + 1
    /\ worker' = "busy"
    /\ Ends("reset_failed")
    /\ NoReply
    /\ UNCHANGED <<fixedVars, service, disturbed, stray>>

\* warmup-system.sh exercises the profile of the service.
Warmup ==
    /\ cmd = "warmup"
    /\ MakesCalls(Live, Made(Live, Profile(service)))
    /\ IF Ending(Live, Profile(service)) = {}
       THEN cmd' = "enter" /\ UNCHANGED <<own, outcome>>
       ELSE Ends("warmup_failed")
    /\ UNCHANGED <<vars, service, disturbed, stray, taskVars>>

\* A port-forward of the script does not become ready, or the service fails.
WarmupFails ==
    /\ cmd = "warmup"
    /\ Ends("warmup_failed")
    /\ UNCHANGED <<allVars, stray, taskVars>>

-----------------------------------------------------------------------------
(* SandboxPortForwards.                                                    *)

EnterForwards ==
    /\ cmd = "enter"
    /\ own' = [p \in Ports |-> "starting"]
    /\ cmd' = "wait_kafka"
    /\ UNCHANGED <<allVars, stray, outcome, taskVars>>

\* kubectl binds the local port, unless an earlier process has it.
ForwardBinds(p) ==
    /\ own[p] = "starting" /\ p \notin stray
    /\ own' = [own EXCEPT ![p] = "up"]
    /\ UNCHANGED <<allVars, cmd, stray, outcome, taskVars>>

ForwardDies(p) ==
    /\ own[p] \in Running
    /\ own' = [own EXCEPT ![p] = "dead"]
    /\ UNCHANGED <<allVars, cmd, stray, outcome, taskVars>>

StrayDies(p) ==
    /\ p \in stray
    /\ stray' = stray \ {p}
    /\ UNCHANGED <<allVars, cmd, own, outcome, taskVars>>

\* A connection is accepted by whichever process listens.  Once the waiting
\* is over, the processes are not followed any further: one that ends then
\* shows only in CoordinatorRaises, or in StrayDies of a later command.
Listening(p) == own[p] = "up" \/ p \in stray

SomeDead == \E p \in Ports : own[p] = "dead"

WaitSucceeds ==
    /\ cmd \in Waits /\ Listening(PortOf(cmd))
    /\ \/ cmd = "wait_kafka" /\ cmd' = "wait_redis" /\ UNCHANGED own
       \/ cmd = "wait_redis" /\ cmd' = "system"
          /\ own' = [p \in Ports |-> IF p \in stray THEN "dead" ELSE "up"]
    /\ UNCHANGED <<allVars, stray, outcome, taskVars>>

\* When any process has stopped, the error output of all of them is read,
\* which returns only once the last of them has ended.
WaitFindsDead ==
    /\ cmd \in Waits /\ ~Listening(PortOf(cmd)) /\ SomeDead
    /\ cmd' = "reading"
    /\ UNCHANGED <<allVars, own, stray, outcome, taskVars>>

ReadEnds ==
    /\ cmd = "reading"
    /\ \A p \in Ports : own[p] \notin Running
    /\ Ends("no_forwards")
    /\ UNCHANGED <<allVars, stray, taskVars>>

\* Mutant: the connection is tried for ever.
WaitNeverTimesOut == FALSE /\ UNCHANGED commandAllVars

\* The deadline.  __exit__ is not called when __enter__ raises.
WaitTimesOut ==
    /\ cmd \in Waits /\ ~Listening(PortOf(cmd)) /\ ~SomeDead
    /\ stray' = Leaked
    /\ Ends("no_forwards")
    /\ UNCHANGED <<allVars, taskVars>>

-----------------------------------------------------------------------------
(* The service's worker.  A graph's thread goes on without it.             *)

Optimizing == {"system", "testing"}

GraphThread ==
    /\ cmd \in Optimizing \cup {"closing"}
    /\ ReferenceGraphNext
    /\ UNCHANGED <<commandVars, taskVars>>

\* The handler, when the graph has raised.
WorkerHandler ==
    /\ cmd \in Optimizing
    /\ ReferenceWorkerNext
    /\ UNCHANGED <<commandVars, taskVars>>

\* The result goes to the store first.
StoreReply ==
    /\ cmd \in Optimizing /\ node = "END" /\ worker = "busy" /\ reply = "none"
    /\ reply' = "stored"
    /\ UNCHANGED <<allVars, commandVars, counted, untested>>

\* It is published by the delivery that stored it or, if a handler has run in
\* between, by the next one, which answers from the store and runs no graph.
PublishReply ==
    /\ cmd \in Optimizing /\ reply = "stored"
    /\ reply' = "published"
    /\ UNCHANGED <<allVars, commandVars, counted, untested>>

\* The request is acknowledged and the lock released.
AcknowledgeRequest ==
    /\ cmd \in Optimizing /\ worker = "busy" /\ reply = "published"
    /\ reply' = "answered"
    /\ UNCHANGED <<allVars, commandVars, counted, untested>>

\* The handler, when the result was not stored: the next delivery runs the
\* graph again.
HandlerForgets ==
    /\ cmd \in Optimizing /\ node = "END" /\ reply = "none"
    /\ HandlerRetries
    /\ UNCHANGED <<referenceVars, commandVars, taskVars>>

\* The handler, when the result was stored, but its store call, the
\* publication, the acknowledgement or the release raised: the policy is
\* restored, and the next delivery answers with the result there is.  After
\* the last delivery a result that is not published never will be.
HandlerKeepsReply ==
    /\ cmd \in Optimizing /\ node = "END" /\ reply # "answered"
    /\ HandlerLeaves
    /\ \/ /\ attempt + 1 < MaxAttempts /\ reply # "none"
          /\ attempt' = attempt + 1
          /\ UNCHANGED reply
       \/ /\ attempt + 1 >= MaxAttempts
          /\ reply' = IF reply = "stored" THEN "none" ELSE reply
          /\ UNCHANGED attempt
    /\ UNCHANGED <<referenceVars, commandVars, counted, untested>>

WorkerPublishes == StoreReply \/ PublishReply \/ AcknowledgeRequest

HandlerAfterEnd == HandlerForgets \/ HandlerKeepsReply

-----------------------------------------------------------------------------
(* The coordinator.                                                        *)

\* Mutant: the results are counted and not looked at.
WorkloadsPassIfPresent(counts, others) == others

\* workload_passed, where the service's own result is among those counted
\* (counts) or another task's second result stands in its place.
WorkloadsPass(counts, others) == others /\ (counts => accepted)

\* As many results as there are tasks have arrived, of whatever tasks: the
\* service's own need not be there, and its graph may be at any node.
\* system-smoke.sh is run only if all of them are accepted.
CoordinatorReports ==
    /\ cmd = "system"
    /\ \E counts, others \in BOOLEAN :
          /\ counts => reply \in {"published", "answered"}
          /\ counted' = counts
          /\ IF WorkloadsPass(counts, others)
             THEN /\ cmd' = "testing" /\ untested' = Len(Tests(service))
                  /\ UNCHANGED outcome
             ELSE cmd' = "closing" /\ outcome' = "failed" /\ UNCHANGED untested
    /\ UNCHANGED <<allVars, own, stray, reply>>

\* A test of the service in system-smoke.sh: one request, while the graph
\* and the worker go on.  The script reports a test that failed at the end.
SystemTest ==
    /\ cmd = "testing" /\ untested > 0
    /\ LET route == Tests(service)[Len(Tests(service)) - untested + 1]
       IN  /\ MakesCalls(Live, Made(Live, route))
           /\ unread' = unread \cup {e \in Range(Made(Live, route)) : ~IsAuthorized(Live, e)}
           /\ outcome' = IF Ending(Live, route) = {} THEN outcome ELSE "failed"
    /\ untested' = untested - 1
    /\ UNCHANGED <<graphVars, bound, documents, runVars, fixedVars, service, disturbed,
                   cmd, own, stray, reply, counted>>

\* It passes if no test failed; another service's test, or another reason,
\* may end it before all were made.
SystemTestEnds ==
    /\ cmd = "testing"
    /\ cmd' = "closing"
    /\ outcome' \in {"failed"} \cup
                    (IF untested = 0 /\ outcome = "none" THEN {"passed"} ELSE {})
    /\ UNCHANGED <<allVars, own, stray, taskVars>>

\* The result timeout, the timeout of the end-to-end test, or an error of
\* the bus.
CoordinatorRaises ==
    /\ cmd \in Optimizing
    /\ cmd' = "closing"
    /\ outcome' = "failed"
    /\ UNCHANGED <<allVars, own, stray, taskVars>>

\* Workers are cancelled, but not the thread of a graph, which is joined
\* before the command ends: it has run to its end, or has raised where a
\* checkpoint could not be written to the closed database, and its worker's
\* handler is gone.  __exit__ then ends the port-forwards.
CommandCloses ==
    /\ cmd = "closing"
    /\ \/ node \in Terminal \cup {"load_service_context"} /\ UNCHANGED graphVars
       \/ /\ node \notin Terminal
          /\ Goto(node, "raised")
          /\ UNCHANGED <<policyVars, observed, verificationVars, counterVars, accepted>>
    /\ Ends(outcome)
    /\ UNCHANGED <<clusterVars, runVars, fixedVars, referenceVars, stray, taskVars>>

\* The process is killed with all it knows; kubectl is not.
Killed ==
    /\ cmd # "ended"
    /\ stray' = Leaked
    /\ Ends("killed")
    /\ GraphRestart
    /\ documents' = {}
    /\ attempt' = 0
    /\ worker' = "busy"
    /\ unread' = {}
    /\ disturbed' = FALSE
    /\ NoReply
    /\ UNCHANGED <<bound, runs, fixedVars, service, job, log>>

\* What the command does by itself before the optimization starts.
PreparationStep ==
    \/ Warmup \/ WarmupFails \/ EnterForwards
    \/ WaitSucceeds \/ WaitFindsDead \/ ReadEnds \/ WaitTimesOut

CommandNext ==
    \/ GuardRefuses \/ ResetSucceeds \/ ResetFails
    \/ PreparationStep
    \/ GraphThread \/ WorkerHandler \/ WorkerPublishes \/ HandlerAfterEnd
    \/ CoordinatorReports \/ SystemTest \/ SystemTestEnds \/ CoordinatorRaises
    \/ CommandCloses \/ Killed
    \/ /\ cmd \in Waits \cup {"reading"}
       /\ \E p \in Ports : ForwardBinds(p) \/ ForwardDies(p) \/ StrayDies(p)

\* Every step of the preparation is bounded by a timeout, except the reading
\* of the error output, which is enabled only when the processes have ended.
CommandSpec ==
    CommandInit /\ [][CommandNext]_commandAllVars /\ WF_commandAllVars(PreparationStep)

-----------------------------------------------------------------------------

CommandTypeOK ==
    /\ ReferenceTypeOK
    /\ cmd \in {"ended", "warmup", "enter", "reading", "closing"} \cup Optimizing \cup Waits
    /\ own \in [Ports -> {"none", "dead"} \cup Running]
    /\ own # NoForwards <=> cmd \in {"reading", "closing"} \cup Optimizing \cup Waits
    /\ stray \subseteq Ports
    /\ outcome \in {"none", "refused", "reset_failed", "warmup_failed", "no_forwards",
                    "passed", "failed", "killed"}
    /\ reply \in {"none", "stored", "published", "answered"}
    /\ reply # "none" => node = "END"
    /\ counted => reply \in {"published", "answered"}
    /\ untested \in 0 .. Len(Tests(service))

\* However its run went, a command that was not killed leaves the service
\* with a policy under which it can serve its profile, unless reset.sh failed
\* half way, the worker could not restore the policy, or the command ended
\* before the worker could: when the graph had raised, or between the
\* deliveries of a task whose policy may not have been restored.
ServiceSurvivesCommand ==
    (cmd = "ended" /\ outcome # "killed") =>
        \/ Ending(Live, Profile(service)) = {}
        \/ outcome = "reset_failed"
        \/ worker = "unrestored"
        \/ worker = "busy" /\ node = "raised"
        \/ worker = "busy" /\ node = "load_service_context" /\ attempt > 0

\* A command that exits with code 0, and has counted the service's own
\* result, has accepted its policy, and leaves the service serving all of its
\* tests: under exactly the policy it reports, unless other bindings were left
\* in the sandbox, or under the manifest, when the worker has restored it.
\* Only a restore that failed leaves less.
PassedServiceIsServed ==
    (cmd = "ended" /\ outcome = "passed" /\ counted) =>
        /\ accepted
        /\ worker # "unrestored" => SmokePasses(Live)
        /\ (worker = "busy" /\ Leftover = {}) => Live = FinalPolicy

\* Whenever port-forwards bind, die or find their port taken, a command that
\* prepares the sandbox gets to the optimization or ends, unless it reads the
\* error output of a port-forward that goes on running.
PreparationEnds ==
    cmd \in {"warmup", "enter", "reading"} \cup Waits ~>
        \/ cmd \in {"system", "ended"}
        \/ cmd = "reading" /\ \E p \in Ports : own[p] \in Running
=============================================================================
