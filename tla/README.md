# A TLA+ verification of Kuber

Kuber replaces the RBAC policy of a Kubernetes workload by the smallest one under
which the workload's tests still pass. It observes the API calls a workload makes,
proposes a policy with exactly those permissions, applies it, runs the tests, repairs
the proposal from the denials it sees, and accepts it or restores what was there.
A namespace is optimized by a coordinator that hands one task per workload, over
Kafka, to workers that share a Redis lock and a store of finished results.

This directory models that program, checks the models with TLC on small instances
and proves the central facts with TLAPS for every instance.

## The system and its parts

| Part | State | Operations | What makes it correct |
|---|---|---|---|
| RBAC kernel (`rules_engine`) | none | authorize, reduce to the observed calls, repair, expand wildcards, generate and resolve documents | the reduction is the least policy for the observed calls; documents mean what the policy means; counts count what is granted |
| Workload graph (`agent_layer/graphs/workload.py`) | policies, evidence, verification result, counters, next node | fifteen LangGraph nodes | no escalation; only a verified candidate is accepted; a run ends; its counters are exact |
| Adapters: simulator (`judge_layer/simulator`) and Kubernetes (`kubernetes_runtime`) | the policy the cluster enforces; for Kubernetes the bindings by name, the documents applied, a cursor in the log | inspect, observe, apply, verify, restore, describe failure | what is accepted is what is enforced; what is rejected is undone; a dry run changes nothing |
| Event bus (`event_layer/kafka.py`, `bus.py`) | partitions with offsets, or a log and a queue per group; the result and the dead-letter topic | publish, consume, acknowledge, retry, dead-letter | no task is lost; each group has each event once |
| Worker (`event_layer/worker.py`) with `locks.py`, `deduplication.py` | its place in `process`, the Redis lease, stored results | claim, look up, lock, run the graph, store, publish, acknowledge, restore, requeue | each task settles; one worker at a time changes a workload; retries do not change the answer |
| System graph (`agent_layer/graphs/system.py`) | dispatched tasks, results received, verdict | discover, index, dispatch, wait, aggregate, verify, report | the report says what happened |
| Context layer (`context_layer`) | indexed contexts per service | discover, index, store | a task finds the context of its own workload, and it is current |
| Command line (`kuber_cli/cli.py`, `kubernetes_runtime/runtime.py`, the sandbox scripts) | port-forward processes, what earlier commands left in the cluster | guard, reset, warm-up, forward ports, run the system, cancel it, report | a command ends; a service survives it; after exit code 0 a service whose result was counted passes its tests |
| Reference services (`examples/reference_workload`) | the Job of their tests, the log of their calls | a route of calls that ends at the first refusal | they go on being served by what was accepted |
| Risk and evaluation (`rules_engine/risk`, `minimizer/candidates.py`, `judge_layer`) | none | score, enumerate reductions, compare with the baseline | reducing never raises the risk; the metrics of a case agree with each other |
| LLM explanation, trajectories, experiments | — | explain, log, average | not part of the control |

The CLI starts the workers and the coordinator in one event loop. The coordinator
publishes requests and reads results; a worker builds an adapter per task, runs the
workload graph in a thread and publishes its outcome. The graph knows its
environment only through `EnvironmentAdapter`. Workers meet in the lock, the store,
the log and, when these do not keep them apart, in the cluster.

Hard behaviour, in the order of its importance: an exception or a crash between any
two of dispatch, apply, verify, store, publish, acknowledge and release; a coordinator
that ends while a workload is on trial; redelivery and rebalancing of the consumer group;
the lease that ends before its holder; kubectl that fails half way; log lines that arrive
late; checkpointed graph state that survives into a retry; loops that must end.
`PROJECT.json` lists each hazard with the line where it bites and the properties that
watch it.

## Modules

* `Rbac` — the kernel as pure operators. A permission and a call are records of the
  same five fields; a policy is a set, as `Policy` removes duplicates by key.
  `MCRbac` builds its inputs; `RbacProofs` proves what the rest relies on.
* `RbacManifest` — what `parse_rbac` accepts, which grants `resolve_effective_policy`
  finds for an account, and the documents that are generated. A manifest is the
  sequence of its documents; a malformed document is one of an unsupported kind.
* `Risk` — the points of a permission, the capped score, the droppable permissions.
  The provenance of a policy is a parameter, because a cluster binding scores.
* `PolicyLifecycle` — the abstract specification of an optimization: original policy,
  trials that stay within it and only widen, then kept or given back.
* `WorkloadGraph` — one action per graph node in an arbitrary environment: any declared
  policy, any observed calls, any verification result, an exception from every call
  that leaves the process. What holds here holds for every adapter. `node` is the node
  to run next, `steps` the supersteps LangGraph has counted; the other variables are
  the keys of `WorkloadGraphState`. `GraphResume` is a second run with the same thread
  id: the keys that the initial state does not set keep their checkpointed values.
* `SimulatorWorkload` — the graph with the benchmark simulator. `live` is
  `_current_policy`; a case is its policy, its observed calls and the union of the
  calls of its tests (a verification passes if none is denied, so only the union
  matters).
  `Lifecycle` instantiates `PolicyLifecycle` with the policy the simulator enforces
  and the stage of the node.
* `Evaluation` — the metrics that the judge reports for a case, for the observed-only
  baseline and for the run of the graph.
* `KubernetesWorkload` — the graph with the live adapter, over the deliveries of a
  worker and over successive `kuber optimize` runs. `bound` maps binding names to what
  they grant: the manifest's binding, the candidate's and the one that
  `restore_policy` makes under the resolved policy's name, each per scope. The cluster
  authorizes their union. kubectl stops after some of the documents; a deletion fails
  silently (`check=False`); denials in the log become readable late.
* `KafkaBus` — a log per partition, committed offset and position, the owner in the
  consumer group, the result topic and the dead letters.
* `OptimizationWorkers` — `process()`, one action per stretch between two awaits, with
  the lock, the store and the effect of a graph run on the workload's policy.
  `Unguarded` names the places outside the `try`, where an exception ends the worker.
* `OptimizationSystem` — coordinator, bus and workers composed. `MCOptimizationSystem`
  gives two layouts of the keys.
* `TaskLedger` — the abstract specification of what the event layer owes the
  coordinator: a task is handed out once, all its answers are the same, and nothing is
  answered before it is handed out or after the run has ended. A run is completed when all
  tasks are handed out, or breaks: the coordinator raises where it publishes a request,
  waits for results or publishes a verdict (`CoordinatorRaises`). `OptimizationSystem`
  instantiates it with the results on the topic and the dead letters.
* `ReferenceWorkload` — the Kubernetes adapter with a service of the sandbox in the
  place of arbitrary answers. A test is a route of calls that ends at the first one
  refused; `job` is what routes leave in the namespace, `log` the calls printed since the
  pods were restarted. `MaxLag` bounds, per service, how many lines are not readable yet.
* `SandboxCommand` — `kuber optimize`, command after command, seen from one service.
  `own` are the port-forwards of the command, `stray` those that outlived an earlier one.
  The graph is that of `ReferenceWorkload`. Once it has ended, `reply` says how far the
  worker is with the result: stored, published, answered; its handler may run before and
  after each of these (`HandlerForgets`, `HandlerKeepsReply`), and the next delivery
  answers with what is stored. The coordinator counts results of any task, so it may
  report at any of these steps and at any node of the graph; `counted` says whether the
  service's own result is among those counted, and the other results are a free choice.
  The end-to-end test makes the calls of the service, test by test, while the graph and
  the worker go on (`SystemTest`). `cmd = "closing"` is the `finally` of `_run_system`:
  workers are cancelled, the thread of a graph is joined, having run to its end or raised
  where a checkpoint could not be written to the closed database. Exit code 1 covers
  coordinators that reported failure and coordinators that raised. A delivery that another
  worker takes over counts as the next attempt here; overlapping deliveries, dying workers
  and rebalances are in `OptimizationSystem`. A second restoration after one that
  succeeded is left out.
* `InMemoryBus` — the bus of tests and judge mode: `log`, a queue per group, the
  acknowledged keys, the message each consumer holds. The bodies under the bus's lock
  await nothing, so each operation is one step, `dead_letter` included. `dropped`
  remembers what a consumer held when it was cancelled.
* `ContextLayer` — the first nodes of the system graph (discover, registry, index,
  dispatch) and what a worker does with a reference, for runs that share the SQLite
  stores and the store of results. `putAt` is the context table (when each reference was
  put last), `during` a history of what each file has held since a run began. The files of
  a service are read one after another (`ReadFile`), while they are edited; `read` is what
  the hash will be made of. A hash stands for the contents it is a hash of, and the order
  of puts for `created_at, rowid`.

`SimulatorWorkload` and `KubernetesWorkload` extend `WorkloadGraph`, which extends
`Rbac`; `Evaluation` extends `SimulatorWorkload` and `Risk`; `SandboxCommand` extends
`ReferenceWorkload`, which extends `KubernetesWorkload`; `OptimizationSystem` extends
`OptimizationWorkers`, which extends `KafkaBus`. In the last three a graph run is only
what it does to the cluster (apply, then accept, reject and restore, or raise); the
graph's own modules look inside. `InMemoryBus` and `ContextLayer` stand alone.

## Runs

| Run | Expected | What it shows |
|---|---|---|
| `rbac` | pass | 254,000 combinations: policies of at most two grants with calls, at most three together, or manifests of at most three documents. Grants have wildcards in each field, both scopes, named and unnamed. Two grants suffice for the interactions there are: a shared rule, two names in one resource, two scopes. Three documents are a role, a binding and another role or binding beside them. |
| `graph` | pass | Three policies, four calls (one name that is not observed, one verb the program does not support), two repairs, so that a second repair and its refusal happen. |
| `simulator` | pass | Every case over five calls, one of them unsupported, and three policies; the metrics of each case; the refinement of `PolicyLifecycle`. |
| `kubernetes` | pass | One repair, two deliveries, two runs, a cluster-wide manifest and one with both scopes. Two deliveries are needed for a restored binding to meet a new candidate, two runs for leftovers of the first. |
| `stable` | pass | Two tasks on two partitions, two workers, two attempts, two faults, no rebalancing of live consumers. The refinement of `TaskLedger`. |
| `rebalance` | pass | A valid and an invalid task in one log; a worker may lose the partition while it works; two faults of any kind. Safety and liveness. |
| `inmemory` | pass | Two consumers that share a group and a third in its own; two events, of one key or of keys whose partitions number them alike; two attempts; one consumer cancelled. Safety and liveness. |
| `contexts` | pass | Two overlapping runs over three deployments, two of which share a service id; one of these has two files, with two contents, and two edits: the least for a file that is edited and edited back, and for a reading of two files with an edit of each between. Symmetry of runs and contents. |
| `reference` | pass | Two services: one with several calls in a route, of which one line may be late in the log, and the one with the rare workflow. Two commands after the set-up, so that the second meets what the first left; two deliveries; five repairs, the program's default. Safety and liveness. |
| `masked` | violation | see Findings |
| `retained` | violation | see Findings |
| `passed` | violation | see Findings |

Bounds are constants (`MaxRepairs`, `MaxAttempts`, `MaxFaults`, `MaxRuns`,
`MaxGrants`, `MaxInputs`, `MaxDocuments`, `MaxLag`, `MaxPublished`, `MaxStops`,
`MaxEdits`). `MaxRepairs` and `MaxAttempts` are parameters of the
program; the others limit the environment. Two faults are the least that reach a fault
in the recovery from a fault.

`CHECK_DEADLOCK FALSE`: every system here ends by itself.

Fairness. A graph run is one thread in which every call that leaves the process has a
timeout (`_run`), so the next node is run: weak fairness of `GraphNext`. The simulator
is plain computation. Workers and coordinator share an event loop that runs what is
ready, and each of their awaits is bounded or served by a broker: weak fairness per
worker and per action of the coordinator. Faults, the coordinator's timeout and a
rebalance are never forced. The consumers of the in-memory bus are tasks of one event
loop too: weak fairness per consumer; cancellation, publication and close are not
forced. The preparation of a command is code of its own in which every wait has a
deadline (`_wait_for_port`) or is a command of the scripts with its own: weak fairness
of `PreparationStep`. The reading of a port-forward's error output has no deadline; it
is enabled only when the processes have ended, and `PreparationEnds` makes the exception.
A task may stay unsettled only when the coordinator has
ended (the CLI then cancels the workers) or no worker is left.

Each property of a passing run has a mutant in `PROJECT.json`: a plausible slip in the
modelled code, defined next to the operator it replaces, under which TLC finds the
property violated.

## Findings

* `masked`. `restore_policy` binds the original policy under a name that
  `apply_policy` does not delete. Once a delivery has failed and was restored, the
  original stays bound next to every later candidate: the next verification passes
  vacuously, and a candidate that denies required calls is accepted.
  `AcceptedPolicyIsEnforced` shows that this is the only way: with no such binding
  left, what is accepted is what is enforced and allows every required call.
* `retained`. The result is stored before it is published and acknowledged. If either
  fails, the handler restores the original policy, and the retry publishes the stored
  acceptance.
* `passed`. The coordinator counts results without looking at their tasks; two results
  of one task complete a run of two.

Limits that the passing runs make exact. The lock does not keep workers apart by
itself: the handler restores the policy after the lock was released or without having
had it (`worker.py:160`), and the lock is a lease. `OneWorkerChangesWorkload` holds in
`stable` because a partition has one consumer, and it holds only while nobody is
rebalanced. After a rebalance a task that was looked up before its result was stored also
runs a second graph. `ServiceSurvivesCommand` names the ways in which a command leaves a
service without a policy that serves its profile: a reset that failed half way, a
restoration that failed, a command that ended before the worker's handler had run (the
graph had raised, or the task was between two deliveries), and a kill. These ends are
possible because the coordinator does not wait for every workload: it may raise, and it
counts results whatever their task, which is the `passed` finding. For the same reason
exit code 0 says nothing of a service whose own result was not counted. Where it was,
`PassedServiceIsServed` says that its policy was accepted and that it passes its tests:
under the reported policy, or under the manifest, if the handler has restored it after the
result was stored, which is the `retained` finding. Only where that restoration failed too
it may pass nothing.
`PreparationEnds` names the one way in which a command hangs: it reads the error output
of a port-forward that goes on running. `ContextsAreCurrent` is about each file: `index`
reads one file after another, so with edits meanwhile the context may be of a combination
that the source never was in. `ResolvesWhatIsGranted` is about manifests without two roles
of one name, which the parser lets through and of which the resolver takes the first.
`ReducingNeverAddsRisk` is, for narrowing, about one permission: many narrow permissions
may score more than the wildcard they replace. The service id is the
`app.kubernetes.io/name` label, which releases of one application often share, and the
task id is made of it: `EveryServiceIsOptimized` holds per service, and of deployments
that share an id exactly one is optimized while the others are answered with its
result. The in-memory bus calls itself at-least-once. It is so for consumers that live:
`EachGroupHasOneCopy` shows that an event is lost to a group only with a consumer that
is cancelled while it holds the event, which the benchmark does when the run is over.

## Proofs

Every invariant and every action or refinement property of the passing runs is a theorem
for all values of the constants. The assumptions on constants are named in the module
that declares them, and TLC evaluates them in the runs; where a theorem needs more, the
hypothesis is part of its statement and named below.

`RbacProofs` (no assumptions): the check of `validate_candidate`, which treats each
permission as a call, is sound for wildcards, scopes and names (`ValidationIsSound`);
the observed-only policy authorizes the observed calls and is the least policy that
does; generating documents and resolving them is the identity (`RoundTrip`), so the
round-trip check of `apply_policy` never refuses; a permission for one call scores at
most what any permission scores that matches the call (`NarrowingNeverAddsRisk`). A
score is a fold over a set, defined by recursion. The library's induction theorems take
an operator and cannot be used; that strict subsets of a finite set are well-founded can
(`SubsetInduction`), and gives that the sums exist, do not depend on the order, and only
fall when summands are dropped.

`MCRbacProofs` (no assumptions): the five properties of the `rbac` run, for any number of
grants, calls and documents. The lemmas behind them are about all permissions and all
manifests: what an expanded permission matches; soundness and completeness of the
resolver against the API server's reading of a manifest (`ResolutionIsSound`,
`ResolutionIsComplete`); the positions of the generated roles and bindings
(`GeneratedIsExact`). The only invariant needed is that inputs are what the run says
they are, and finite.

`WorkloadGraphProofs` (assuming `MaxRepairs` a natural number and finitely many
calls): every safety property of the `graph` run, in every environment, and beyond them
that a finished run has decided on its one reduction (`OutcomeIsDecided`) and that a
candidate only grows (`CandidateOnlyGrows`). None of them is
inductive alone. The invariant `GraphInv` adds where the run is and what its counters
and its decision are there (`Phase`), that what is verified is the candidate and
that the candidate is made of permissions the original covers (`Policy`), what the
removals count (`Accounting`), and the supersteps as a function of node and repairs
(`Budget`). The types need less, only that the counters have room for the repairs still
to come (`Room`); that much also holds of a thread that a later delivery resumes.
Escalation is excluded by `Policy` with `ValidationIsSound`; the counting of removals
needs that a repair only adds and that candidates are finite. `GraphRunsAreFinite` is the
safety half of termination: every step uses up one of the `11 + 5 * MaxRepairs`
supersteps, in every environment. `EventuallyEnds` adds that a node that is due is run.

`SimulatorWorkloadProofs` (same assumptions): the simulated workload implements the
graph (`SimulatorImplementsGraph`), and for every case an accepted policy is enforced,
passes all tests and is within the least policy for the observed and required calls;
a rejected one is undone; and one repair is enough, so a run gives up only if the case
cannot be served. `SimulatorInv` says that the cluster follows `current`, that after a
repair nothing is denied, and that a refused repair means an unservable case. The
refinement of `PolicyLifecycle` (`SimulatorImplementsLifecycle`) needs one fact more
(`Trials`): the policy is the original one until a candidate is applied, and the
repaired candidate that is applied next extends the one in force. Two theorems are
proved of `PolicyLifecycle` and carried over to the run by the refinement: the workload
can never do what its original policy forbids, also while a candidate is on trial
(`WorkloadStaysProtected`), and once a candidate is kept or the original is back the run
leaves the policy alone (`DecisionsAreFinal`). That a run ends, and so leaves the trial
stage, is liveness and checked in `EveryCaseIsDecided`.
`ReportsAgree` compares the rows of the judge (assuming `CasesAssumption`: declared
policies are finite, and calls name their group and resource). It needs `Compared`: the
baseline is the run's first candidate, and a repair or a rejection means that the
baseline fails a test. The permissions made for calls expand to themselves, so that
the counts of the reports differ by exactly the incorrect removals.

`KubernetesWorkloadProofs` (assuming `ScopesAssumption`: calls and bindings are in the
sandbox namespace or cluster-wide): the four properties of the `kubernetes` run, for any
number of repairs, deliveries and commands. `GraphInv` does not hold here, because a
delivery resumes the checkpointed thread of the one before. `ClusterInv` says instead
which policy the run works on (`Loaded`), that no binding grants more than the manifest
(`Covered`), what is enforced while a candidate is tried (`Applied`) and after it passed
(`Tested`), that a rejection gives everything back (`GivenBack`), and that a dry run
gets no further than `apply_candidate` and keeps the manifest in force (`Untouched`).

Its second half is about `kuber optimize` on a reference service (assuming in addition
`ServicesAssumption`: the services are the five of the example; `RunsAssumption`: at
least one delivery and one command; `EventsAssumption`). A service makes its calls along
a route that ends at the first refusal; the proofs use the set of the calls of a route,
which is what authorization sees.

- `ServicesSurviveCommands`, `PassedServicesAreServed` and `AcceptedPoliciesKeepServing`
  rest on `CommandInv`: what no command changes (`Sandbox`), what holds until the first
  delivery tries a candidate (`Prepared`), what a worker leaves that has given the
  workload up (`Left`), the invariant of the adapter while the worker has the workload and
  the command runs or the graph has come to its end (`BindingInv`), and that a policy that
  is accepted, or about to be, passes the tests again with the Job it left (`Served`).
  `BindingInv` cannot hold always: a graph that is cut short leaves its state anywhere,
  and a handler that has run leaves another policy than the graph's. For the result,
  `Reported` adds that it is stored only at the graph's end, counted only when published,
  and that a coordinator that ran the end-to-end test has seen an acceptance in it.
- `RejectionsAreJustified` rests on `Counted` and `Justified`: every repair adds a
  permission for a call of the tests, so repairs cannot run out before the candidate
  serves. The hypothesis `RepairsSuffice` says that a service makes no more different
  calls than `MaxRepairs`; the tests of `service-smoke.sh` make at most four, the default
  is five, and the `reference` run's constants satisfy it.
- `CommandTypeCorrect` is the type invariant of all of this.

`OptimizationSystemProofs` (assuming `TasksAssumption`: finitely many tasks,
`KafkaAssumption`: tasks have a partition and earlier results are results of earlier
runs, at least one attempt, `MaxFaults` a natural number): any number of workloads,
workers, partitions and faults. `SystemTypes` has the types and what the topic holds.
`NoTaskGetsLost` needs `Handled`: what lies before a committed offset, what a consumer
has passed and what a worker is about to acknowledge is settled.
`OneWorkerAtATime` and `SystemImplementsLedger` assume `StableGroup`, as the `stable` run does: no live consumer
loses a partition. They need that a busy worker owns the partition of its message
(`Owned`), and that store, topic and the outcome a worker holds agree (`Deduplicated`);
the refinement of `TaskLedger` maps each step to a step or a stutter. What the ledger
promises then holds of the result topic: results of one task agree (`AnswersAgree`). A
run that ends with a verdict has dispatched all tasks (`Complete`); one that ends because
the coordinator raised may have dispatched some (`Break`).
`CommitsOnlyAdvance`, under the same assumption, says that no commit takes back an earlier
one; `acknowledge()` compares no offsets, so it needs that a busy worker's message is the
last one fetched from its partition (`Current`). When partitions do change hands the
property fails: a slow worker that gets its partition back commits an old offset, and
messages that are done with are delivered again. TLC finds this with two faults in the
instance of the `rebalance` run. `NoTaskIsLost` holds all the same: an offset that goes
back leaves more messages to be delivered, never fewer.
`FaultFreeReportsAreTrue` needs `FaultFree`, which is invariant while `faults` is 0: every
message is delivered once, a worker leaves its workload with the candidate it verified,
and each task is answered once; with `Received`, the coordinator's results are those.

`InMemoryBusProofs` (assuming `BusAssumption`: every consumer has a group, partitions and
bounds are numbers, at least one attempt): the three invariants of the `inmemory` run,
for any consumers, groups and keys. `BusInv` says that the log is numbered, that whatever
is queued, held, acknowledged or dropped comes from it, and that a group has each event
in exactly one of these places; so nothing has to be counted. From it follows
`EventsOnlyMoveForward`, on which `EveryEventIsFinished` rests: no step sets an event of
a group back, so that its attempts, which are bounded, are used up one after the other.

`ContextLayerProofs` (assuming `ContextAssumption`: discovery lists every deployment,
there is some content): the three invariants of the `contexts` run, for any number of
runs, deployments and edits. `ContextInv` says what a run has indexed and dispatched at
each node, which of its files it has read and that each held this content at some time
since the run began, which context a reference names, and what the answers of workers are
made of.

Only model-checked: liveness under fairness (`EventuallyEnds`, `EveryCaseIsDecided`,
`EveryTaskSettles`, `EveryEventIsFinished`, `PreparationEnds`), which TLAPS does not
treat; the measures and the monotone progress on which three of them rest are proved as
action properties, as said above. The three runs that expect a violation are
counterexamples and need TLC as well.

## Not modelled

LLM explanations, trajectories and presentation decide nothing. The aggregation of
metrics over cases (`runner.py`, `system_benchmarks.py`), the experiments and the
reports are arithmetic on finished runs of modelled parts. YAML text and the flattening
of Lists in `parser.py`, the recognition of a sandbox cluster, the contents of indexed
contexts, the HTTP layer of the services, those of their routes that no script calls
(`/leader-election` and the single calls) and the wire format of events are left out.
LangGraph, Kafka, Redis and Kubernetes are external and modelled from how the code uses
them; in particular the supersteps are counted and bounded, but the library's limit on
them, which the code does not set, is not.

## Plan

1. done: `Rbac`, `WorkloadGraph`, the two adapters, the distributed system, the
   in-memory bus, the context layer; proofs of the first three.
2. done: the abstract specifications and their refinements (`PolicyLifecycle`,
   `TaskLedger`), manifests, risk, evaluation, the reference services and the command.
3. done: proofs of the kernel's runs, the evaluation, the Kubernetes adapter, the
   distributed system with its refinement of `TaskLedger`, the in-memory bus and the
   context layer.
4. done: proofs for the sandbox command and the reference services, which rest on the
   invariants of the adapter.
5. done: theorems of the abstract specifications carried over by their refinements, and
   the progress on which liveness rests, as action properties.
6. Left: a measure for the workers of the distributed system, whose redeliveries are
   bounded only by the faults; liveness itself stays with TLC.
