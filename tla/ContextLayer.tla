---------------------------- MODULE ContextLayer ----------------------------
(***************************************************************************)
(* How a system run finds its services, indexes their sources into a store *)
(* that outlives the run, and hands out references that a worker resolves  *)
(* when it gets to the task: discovery, registry, indexer and store        *)
(* (context_layer), the first nodes of the system graph, and what a worker *)
(* does with a reference.  Runs are processes of their own that share the  *)
(* SQLite files and the store of finished tasks, and sources are edited    *)
(* while they run.  Bus, locks and failing workers are in                  *)
(* OptimizationSystem.                                                     *)
(***************************************************************************)
EXTENDS Naturals, FiniteSets, Sequences

CONSTANTS Deployments,     \* the deployments of the namespace
          DeploymentOrder, \* the same, sorted by service_id as discover() does
          ServiceIdOf,     \* the app.kubernetes.io/name label, or the name
          FilesOf,         \* the files at the important paths of each deployment
          Contents,        \* what a file may hold; a file that is not there, too
          Runs,            \* bound: the run ids
          MaxEdits         \* bound: edits of sources

VARIABLES optedIn,   \* deployments with a kuber.dev/source-path annotation
          source,    \* what the files of each deployment hold
          edits,     \* edits made so far
          registry,  \* the services table: the deployment last put for an id
          putAt,     \* the service_contexts table: when each ref was last put
          puts,      \* puts made so far
          node,      \* the next node of each run's system graph
          services,  \* state["services"]
          next,      \* the service a run's current node is at
          read,      \* what index() has read of the service's files so far
          contexts,  \* state["contexts"], as the by_service of dispatch
          tasks,     \* the requests published
          answered,  \* the requests a worker has finished with
          rejected,  \* the requests that _validate refused
          completed, \* the deduplication store: task ids with a result
          optimized, \* <<run, deployment>> for which a graph was run
          during     \* history: what a file has held since a run began

tableVars == <<registry, putAt, puts>>
runVars == <<node, services, next, read, contexts>>
workVars == <<tasks, answered, rejected, completed, optimized>>
contextVars == <<optedIn, source, edits, tableVars, runVars, workVars, during>>

ServiceIds == {ServiceIdOf[d] : d \in Deployments}

Sources(d) == [FilesOf[d] -> Contents]

\* context://<service_id>/<hash>; a SHA-256 stands for what it is a hash of.
Refs == UNION {{ServiceIdOf[d]} \X Sources(d) : d \in Deployments}
ContextRef(d, content) == <<ServiceIdOf[d], content>>

ASSUME ContextAssumption ==
  /\ DeploymentOrder \in Seq(Deployments)
  /\ \A d \in Deployments : \E i \in DOMAIN DeploymentOrder : DeploymentOrder[i] = d
  /\ Contents # {}
  /\ MaxEdits \in Nat

None == "none"
NoContext == <<>>

ContextInit ==
  /\ optedIn \in SUBSET Deployments
  /\ source \in {s \in [Deployments -> UNION {Sources(d) : d \in Deployments}] :
                   \A d \in Deployments : s[d] \in Sources(d)}
  /\ edits = 0
  /\ registry = [s \in ServiceIds |-> None]
  /\ putAt = [f \in Refs |-> 0]
  /\ puts = 0
  /\ node = [r \in Runs |-> "discover"]
  /\ services = [r \in Runs |-> <<>>]
  /\ next = [r \in Runs |-> 1]
  /\ read = [r \in Runs |-> <<>>]
  /\ contexts = [r \in Runs |-> [s \in ServiceIds |-> NoContext]]
  /\ tasks = {}
  /\ answered = {}
  /\ rejected = {}
  /\ completed = {}
  /\ optimized = {}
  /\ during = [r \in Runs |-> [d \in Deployments |-> [f \in FilesOf[d] |-> {}]]]

\* Somebody edits a file of a service.
Edit(d, f) ==
  /\ edits < MaxEdits
  /\ edits' = edits + 1
  /\ \E content \in Contents \ {source[d][f]} :
       /\ source' = [source EXCEPT ![d][f] = content]
       /\ during' = [r \in Runs |->
                       IF node[r] = "discover" THEN during[r]
                       ELSE [during[r] EXCEPT ![d][f] = @ \cup {content}]]
  /\ UNCHANGED <<optedIn, tableVars, runVars, workVars>>

\* An enumeration of deployments that follows DeploymentOrder.
InOrder(found) ==
  \A i, j \in DOMAIN found : i < j =>
    \E k, l \in DOMAIN DeploymentOrder :
      k < l /\ DeploymentOrder[k] = found[i] /\ DeploymentOrder[l] = found[j]

\* discover: the deployments that carry the annotation, in their order.
Discover(r) ==
  /\ node[r] = "discover"
  /\ \E found \in [1 .. Cardinality(optedIn) -> optedIn] :
       InOrder(found) /\ services' = [services EXCEPT ![r] = found]
  /\ node' = [node EXCEPT ![r] = "build_registry"]
  /\ during' = [during EXCEPT ![r] = [d \in Deployments |->
                                       [f \in FilesOf[d] |-> {source[d][f]}]]]
  /\ UNCHANGED <<optedIn, source, edits, tableVars, next, read, contexts, workVars>>

\* build_registry: a record for each service, replaced where the id is known.
BuildRegistry(r) ==
  /\ node[r] = "build_registry"
  /\ registry' = [s \in ServiceIds |->
       LET found == {i \in DOMAIN services[r] : ServiceIdOf[services[r][i]] = s}
       IN IF found = {} THEN registry[s]
          ELSE services[r][CHOOSE i \in found : \A j \in found : j <= i]]
  /\ node' = [node EXCEPT ![r] = "index"]
  /\ UNCHANGED <<optedIn, source, edits, putAt, puts, services, next, read,
                 contexts, workVars, during>>

Current(r) == services[r][next[r]]
HasCurrent(r) == next[r] \in DOMAIN services[r]

\* index(): the files are read and hashed one after another, while they may be
\* edited.  The order is left open: a file that is not there is missed when the
\* paths are resolved, before the others are read in the order of their names.
ReadFile(r, f) ==
  /\ node[r] = "index" /\ HasCurrent(r)
  /\ f \in FilesOf[Current(r)] \ DOMAIN read[r]
  /\ read' = [read EXCEPT ![r] = [g \in DOMAIN @ \cup {f} |->
                                    IF g = f THEN source[Current(r)][f] ELSE @[g]]]
  /\ UNCHANGED <<optedIn, source, edits, tableVars, node, services, next, contexts,
                 workVars, during>>

\* All files of the service have been read.
Hashed(r) ==
  node[r] = "index" /\ HasCurrent(r) /\ DOMAIN read[r] = FilesOf[Current(r)]

\* An exception ends the process of the run, and what it held in memory.
Fails(r) ==
  /\ node' = [node EXCEPT ![r] = "failed"]
  /\ next' = [next EXCEPT ![r] = 1]
  /\ read' = [read EXCEPT ![r] = <<>>]
  /\ contexts' = [contexts EXCEPT ![r] = [s \in ServiceIds |-> NoContext]]

\* index(): the repository or one of its files is gone, or a path leads out of it.
IndexRaises(r) ==
  /\ node[r] = "index" /\ HasCurrent(r)
  /\ Fails(r)
  /\ UNCHANGED <<optedIn, source, edits, tableVars, services, workVars, during>>

\* latest(): the row of the service that was put last.
IsLatest(ref, service) ==
  /\ ref[1] = service
  /\ putAt[ref] > 0
  /\ \A other \in Refs : other[1] = service => putAt[other] <= putAt[ref]

\* Mutant: any earlier context of the service is reused.
AnyEarlier(ref, service, content) == IsLatest(ref, service)

\* A stored context stands for the service if it is the latest and its hash is the
\* one just computed.
Reusable(ref, service, content) == IsLatest(ref, service) /\ ref[2] = content

\* index() returns a context; the next service is taken up.
Indexed(r, ref) ==
  /\ contexts' = [contexts EXCEPT ![r][ServiceIdOf[Current(r)]] = ref]
  /\ next' = [next EXCEPT ![r] = @ + 1]
  /\ read' = [read EXCEPT ![r] = <<>>]
  /\ node' = [node EXCEPT ![r] = "index"]

Reuse(r) ==
  /\ Hashed(r)
  /\ \E ref \in Refs : /\ Reusable(ref, ServiceIdOf[Current(r)], read[r])
                       /\ Indexed(r, ref)
  /\ UNCHANGED <<optedIn, source, edits, tableVars, services, workVars, during>>

MustPut(r) ==
  /\ Hashed(r)
  /\ \A ref \in Refs : ~Reusable(ref, ServiceIdOf[Current(r)], read[r])
  /\ node' = [node EXCEPT ![r] = "put"]
  /\ UNCHANGED <<optedIn, source, edits, tableVars, services, next, read, contexts,
                 workVars, during>>

\* Mutant: the table is keyed by the service.
StoredPerService(ref) ==
  putAt' = [f \in Refs |-> IF f = ref THEN puts + 1
                           ELSE IF f[1] = ref[1] THEN 0 ELSE putAt[f]]

\* INSERT OR REPLACE, keyed by context_ref: the row becomes the newest.
Stored(ref) == putAt' = [putAt EXCEPT ![ref] = puts + 1]

Put(r) ==
  LET ref == ContextRef(Current(r), read[r])
  IN /\ node[r] = "put"
     /\ Stored(ref)
     /\ puts' = puts + 1
     /\ Indexed(r, ref)
     /\ UNCHANGED <<optedIn, source, edits, registry, services, workVars, during>>

IndexDone(r) ==
  /\ node[r] = "index" /\ ~HasCurrent(r)
  /\ node' = [node EXCEPT ![r] = "dispatch"]
  /\ next' = [next EXCEPT ![r] = 1]
  /\ UNCHANGED <<optedIn, source, edits, tableVars, services, read, contexts,
                 workVars, during>>

\* Mutant: task ids do not name the run.
TaskIdOfService(r, d) == <<ServiceIdOf[d]>>

TaskId(r, d) == <<r, ServiceIdOf[d]>>

\* dispatch publishes one request for each service, in order.
Dispatch(r) ==
  /\ node[r] = "dispatch" /\ HasCurrent(r)
  /\ LET d == Current(r)
     IN tasks' = tasks \cup {[run |-> r, id |-> TaskId(r, d), deployment |-> d,
                              workload |-> ServiceIdOf[d],
                              ref |-> contexts[r][ServiceIdOf[d]]]}
  /\ next' = [next EXCEPT ![r] = @ + 1]
  /\ UNCHANGED <<optedIn, source, edits, tableVars, node, services, read, contexts,
                 answered, rejected, completed, optimized, during>>

DispatchDone(r) ==
  /\ node[r] = "dispatch" /\ ~HasCurrent(r)
  /\ node' = [node EXCEPT ![r] = "wait"]
  /\ UNCHANGED <<optedIn, source, edits, tableVars, services, next, read, contexts,
                 workVars, during>>

\* The bus refuses a request, and the run ends with those before it dispatched.
DispatchRaises(r) ==
  /\ node[r] = "dispatch" /\ HasCurrent(r)
  /\ Fails(r)
  /\ UNCHANGED <<optedIn, source, edits, tableVars, services, workVars, during>>

\* _validate: the reference is known and belongs to the workload of the task.
IsValid(t) == putAt[t.ref] > 0 /\ t.ref[1] = t.workload

\* process(): a worker refuses a task that is not valid (it becomes a dead letter),
\* answers one whose id has a result with that result, and otherwise runs the graph
\* for the task's deployment and stores the result under the id.
Process(t) ==
  LET fresh == IsValid(t) /\ t.id \notin completed
  IN /\ t \notin answered
     /\ answered' = answered \cup {t}
     /\ rejected' = rejected \cup {u \in {t} : ~IsValid(u)}
     /\ completed' = IF fresh THEN completed \cup {t.id} ELSE completed
     /\ optimized' = IF fresh THEN optimized \cup {<<t.run, t.deployment>>}
                     ELSE optimized
     /\ UNCHANGED <<optedIn, source, edits, tableVars, runVars, tasks, during>>

ContextNext ==
  \/ \E d \in Deployments : \E f \in FilesOf[d] : Edit(d, f)
  \/ \E r \in Runs : \/ Discover(r) \/ BuildRegistry(r) \/ IndexRaises(r) \/ Reuse(r)
                     \/ MustPut(r) \/ Put(r) \/ IndexDone(r)
                     \/ Dispatch(r) \/ DispatchDone(r) \/ DispatchRaises(r)
                     \/ \E f \in UNION {FilesOf[d] : d \in Deployments} : ReadFile(r, f)
  \/ \E t \in tasks : Process(t)

ContextSpec == ContextInit /\ [][ContextNext]_contextVars

----------------------------------------------------------------------------
(***************************************************************************)
(* Properties                                                              *)
(***************************************************************************)

\* A reference that dispatch() has put into a request is resolved by every worker
\* at any later time, whatever other runs put into the store meanwhile: _validate
\* never refuses a task of the coordinator.
TasksFindTheirContext == rejected = {} /\ \A t \in tasks : IsValid(t)

\* Deployments that discovery gives the same service id.
SameService(d, e) == ServiceIdOf[d] = ServiceIdOf[e]

\* What the context of a request says of each file is what that file held at some
\* time since the run began: a context of an earlier run is reused only if it is
\* still true, also when a file is edited and edited back, and when another run
\* puts its own context between the lookup and the put.  Files that are edited
\* while index() is at the service may be taken from before and from after, in a
\* combination the source has never been in; without an edit the context is the
\* source.  Where deployments share a service id it may be that of another of them.
ContextsAreCurrent ==
  \A t \in tasks : \E d \in Deployments :
    /\ SameService(t.deployment, d)
    /\ t.ref[2] \in Sources(d)
    /\ \A f \in FilesOf[d] : t.ref[2][f] \in during[t.run][d][f]

\* "Turn each service optimization into an independent task": once the requests of
\* a run are answered, a graph has run in it for each service it discovered, once:
\* of deployments that share a service id exactly one is optimized, and the others
\* are answered with its result.
EveryServiceIsOptimized ==
  \A r \in Runs :
    (node[r] = "wait" /\ \A t \in tasks : t.run = r => t \in answered)
      => \A i \in DOMAIN services[r] :
           \E d \in Deployments :
             /\ <<r, d>> \in optimized
             /\ \A e \in Deployments :
                  (SameService(services[r][i], e) /\ <<r, e>> \in optimized) <=> e = d
============================================================================
