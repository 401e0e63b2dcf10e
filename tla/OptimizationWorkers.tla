------------------------ MODULE OptimizationWorkers ------------------------
(***************************************************************************)
(* The workers of the live system (event_layer/worker.py): each consumes   *)
(* tasks, looks for an earlier result, takes the workload's Redis lock,    *)
(* runs the workload graph, stores and publishes the result, acknowledges  *)
(* the task and releases the lock; a failure restores the policy and       *)
(* publishes the task again or dead-letters it.                            *)
(*                                                                         *)
(* Workers are asyncio tasks: one action per stretch between two awaits.   *)
(* A graph run is its effect on the cluster: it applies a candidate, and   *)
(* then accepts it, rejects it and restores the original policy, or        *)
(* raises.  A task stands for its workload: a run has one task per         *)
(* workload.                                                               *)
(***************************************************************************)
EXTENDS KafkaBus

CONSTANTS
    MaxAttempts,    \* max_delivery_attempts
    MaxFaults,      \* bound: failures in a behaviour
    InvalidTasks,   \* tasks whose context is unknown to the store
    StableGroup     \* no live consumer loses its partition

ASSUME AttemptsAssumption == MaxAttempts \in Nat \ {0}
ASSUME FaultsAssumption == MaxFaults \in Nat

VARIABLES
    pc,          \* per worker, where in process() it is
    message,     \* per worker, the message it processes
    created,     \* per worker, whether it has created the environment
    outcome,     \* per worker, the result of its graph run
    lock,        \* per workload, the holder of the Redis lease
    completed,   \* per task, the stored result (deduplication store)
    live,        \* per workload, the policy the cluster enforces
    faults       \* failures so far

storeVars == <<lock, completed, live>>
workerVars == <<pc, message, created, outcome, storeVars, faults>>

NoMessage == [partition |-> 0, offset |-> 0, task |-> "none", attempt |-> 0]

Task(w) == message[w].task

Alive == {w \in Workers : pc[w] # "dead"}

\* The places where a worker changes, or is about to change, the policy.
Changing == {"creating", "applying", "verifying", "storing", "publishing", "acking", "failing"}

WorkersInit ==
    /\ pc = [w \in Workers |-> "idle"]
    /\ message = [w \in Workers |-> NoMessage]
    /\ created = [w \in Workers |-> FALSE]
    /\ outcome = [w \in Workers |-> "none"]
    /\ lock = [t \in Tasks |-> NoWorker]
    /\ completed = [t \in Tasks |-> "none"]
    /\ live = [t \in Tasks |-> "original"]
    /\ faults = 0

Goto(w, here, next) ==
    /\ pc[w] = here
    /\ pc' = [pc EXCEPT ![w] = next]

Fault ==
    /\ faults < MaxFaults
    /\ faults' = faults + 1

-----------------------------------------------------------------------------
(* The consumer group.                                                     *)

AssignPartition(w, p) ==
    /\ w \in Alive
    /\ Assign(p, w)
    /\ UNCHANGED workerVars

\* A worker that has not polled for too long loses a partition.
LosePartition(w, p) ==
    /\ ~StableGroup /\ Fault
    /\ w \in Alive /\ owner[p] = w
    /\ Revoke(p)
    /\ UNCHANGED <<pc, message, created, outcome, storeVars>>

\* run: the next message of the consumer.
Claim(w, p) ==
    /\ Goto(w, "idle", "claimed")
    /\ Fetch(p, w)
    /\ message' = [message EXCEPT ![w] = Fetched(p)]
    /\ created' = [created EXCEPT ![w] = FALSE]
    /\ UNCHANGED <<outcome, storeVars, faults>>

\* An exception outside the handler's try ends the worker's task, and its
\* consumer leaves the group.
Unguarded == {"claimed", "duplicate", "duplicate_ack", "requeue", "requeue_ack"}

WorkerDies(w) ==
    /\ Fault
    /\ pc[w] \in Unguarded
    /\ pc' = [pc EXCEPT ![w] = "dead"]
    /\ Leave(w)
    /\ UNCHANGED <<message, created, outcome, storeVars>>

\* acknowledge: where it is guarded it fails into the handler, elsewhere it
\* ends the worker.
Acknowledge(w, here, next) ==
    /\ Goto(w, here, next)
    /\ CanCommit(w, message[w])
    /\ Commit(message[w])
    /\ UNCHANGED <<message, created, outcome, storeVars, faults>>

UnguardedCommitFails(w) ==
    /\ pc[w] \in {"duplicate_ack", "requeue_ack"}
    /\ ~CanCommit(w, message[w])
    /\ pc' = [pc EXCEPT ![w] = "dead"]
    /\ Leave(w)
    /\ UNCHANGED <<message, created, outcome, storeVars, faults>>

-----------------------------------------------------------------------------
(* process().                                                              *)

\* _validate, and the look-up of an earlier result.
RejectInvalid(w) ==
    /\ Task(w) \in InvalidTasks
    /\ Goto(w, "claimed", "requeue_ack")
    /\ PublishDeadLetter(Task(w))
    /\ UNCHANGED <<message, created, outcome, storeVars, faults>>

\* Mutant: the store of earlier results is not consulted.
CheckNothing(w) ==
    /\ Task(w) \notin InvalidTasks
    /\ Goto(w, "claimed", "locking")
    /\ UNCHANGED <<busVars, message, created, outcome, storeVars, faults>>

CheckDuplicate(w) ==
    /\ Task(w) \notin InvalidTasks
    /\ Goto(w, "claimed", IF completed[Task(w)] = "none" THEN "locking" ELSE "duplicate")
    /\ UNCHANGED <<busVars, message, created, outcome, storeVars, faults>>

PublishDuplicate(w) ==
    /\ Goto(w, "duplicate", "duplicate_ack")
    /\ PublishResult(Task(w), completed[Task(w)] = "accepted")
    /\ UNCHANGED <<message, created, outcome, storeVars, faults>>

AcknowledgeDuplicate(w) == Acknowledge(w, "duplicate_ack", "idle")

AcquireLock(w) ==
    /\ Goto(w, "locking", "creating")
    /\ lock[Task(w)] = NoWorker
    /\ lock' = [lock EXCEPT ![Task(w)] = w]
    /\ UNCHANGED <<busVars, message, created, outcome, completed, live, faults>>

LockTimesOut(w) ==
    /\ Goto(w, "locking", "failing")
    /\ lock[Task(w)] # NoWorker
    /\ UNCHANGED <<busVars, message, created, outcome, storeVars, faults>>

CreateEnvironment(w) ==
    /\ Goto(w, "creating", "applying")
    /\ created' = [created EXCEPT ![w] = TRUE]
    /\ UNCHANGED <<busVars, message, outcome, storeVars, faults>>

\* The graph run, which runs in a thread.
ApplyCandidate(w) ==
    /\ Goto(w, "applying", "verifying")
    /\ live' = [live EXCEPT ![Task(w)] = "candidate"]
    /\ UNCHANGED <<busVars, message, created, outcome, lock, completed, faults>>

RunAccepts(w) ==
    /\ Goto(w, "verifying", "storing")
    /\ outcome' = [outcome EXCEPT ![w] = "accepted"]
    /\ UNCHANGED <<busVars, message, created, storeVars, faults>>

RunRejects(w) ==
    /\ Goto(w, "verifying", "storing")
    /\ outcome' = [outcome EXCEPT ![w] = "rejected"]
    /\ live' = [live EXCEPT ![Task(w)] = "original"]
    /\ UNCHANGED <<busVars, message, created, lock, completed, faults>>

\* The lock is released before the handler of an exception runs; release
\* raises, into the same handler, if the lease has expired.
Released(w) == [lock EXCEPT ![Task(w)] = IF @ = w THEN NoWorker ELSE @]

\* The environment, the graph, the store, a publication or the commit raises.
BodyRaises(w) ==
    /\ Fault
    /\ pc[w] \in {"creating", "applying", "verifying", "storing", "publishing", "acking"}
    /\ pc' = [pc EXCEPT ![w] = "failing"]
    /\ lock' = Released(w)
    /\ UNCHANGED <<busVars, message, created, outcome, completed, live>>

StoreResult(w) ==
    /\ Goto(w, "storing", "publishing")
    /\ completed' = [completed EXCEPT ![Task(w)] = outcome[w]]
    /\ UNCHANGED <<busVars, message, created, outcome, lock, live, faults>>

PublishOutcome(w) ==
    /\ Goto(w, "publishing", "acking")
    /\ PublishResult(Task(w), outcome[w] = "accepted")
    /\ UNCHANGED <<message, created, outcome, storeVars, faults>>

AcknowledgeTask(w) == Acknowledge(w, "acking", "releasing")

GuardedCommitFails(w) ==
    /\ Goto(w, "acking", "failing")
    /\ ~CanCommit(w, message[w])
    /\ lock' = Released(w)
    /\ UNCHANGED <<busVars, message, created, outcome, completed, live, faults>>

ReleaseLock(w) ==
    /\ Goto(w, "releasing", IF lock[Task(w)] = w THEN "idle" ELSE "failing")
    /\ lock' = Released(w)
    /\ UNCHANGED <<busVars, message, created, outcome, completed, live, faults>>

\* The lease ends timeout_seconds after it was taken, whether or not its
\* holder is done.
LeaseExpires(t) ==
    /\ Fault
    /\ lock[t] # NoWorker
    /\ lock' = [lock EXCEPT ![t] = NoWorker]
    /\ UNCHANGED <<busVars, pc, message, created, outcome, completed, live>>

\* The handler: restore_policy if there is an environment, its errors
\* suppressed.  The lock is not held.
RestoreAfterFailure(w) ==
    /\ Goto(w, "failing", "requeue")
    /\ live' = IF created[w] THEN [live EXCEPT ![Task(w)] = "original"] ELSE live
    /\ UNCHANGED <<busVars, message, created, outcome, lock, completed, faults>>

RestoreErrorSuppressed(w) ==
    /\ Fault
    /\ Goto(w, "failing", "requeue")
    /\ created[w]
    /\ UNCHANGED <<busVars, message, created, outcome, storeVars>>

\* Mutant: one attempt too many is published.
RequeueOnceMore(w) ==
    /\ Goto(w, "requeue", "requeue_ack")
    /\ IF message[w].attempt < MaxAttempts
       THEN PublishRequest(Task(w), message[w].attempt + 1)
       ELSE PublishDeadLetter(Task(w))
    /\ UNCHANGED <<message, created, outcome, storeVars, faults>>

\* Mutant: a failed task is acknowledged without another attempt.
RequeueNothing(w) ==
    /\ Goto(w, "requeue", "requeue_ack")
    /\ IF message[w].attempt + 1 < MaxAttempts
       THEN UNCHANGED busVars
       ELSE PublishDeadLetter(Task(w))
    /\ UNCHANGED <<message, created, outcome, storeVars, faults>>

\* retry publishes the next attempt, dead_letter the dead letter; both then
\* acknowledge the message.
Requeue(w) ==
    /\ Goto(w, "requeue", "requeue_ack")
    /\ IF message[w].attempt + 1 < MaxAttempts
       THEN PublishRequest(Task(w), message[w].attempt + 1)
       ELSE PublishDeadLetter(Task(w))
    /\ UNCHANGED <<message, created, outcome, storeVars, faults>>

AcknowledgeRequeued(w) == Acknowledge(w, "requeue_ack", "idle")

-----------------------------------------------------------------------------

\* What a worker does by itself.
WorkerStep(w) ==
    \/ \E p \in Partitions : AssignPartition(w, p) \/ Claim(w, p)
    \/ RejectInvalid(w) \/ CheckDuplicate(w) \/ PublishDuplicate(w) \/ AcknowledgeDuplicate(w)
    \/ AcquireLock(w) \/ LockTimesOut(w) \/ CreateEnvironment(w) \/ ApplyCandidate(w)
    \/ RunAccepts(w) \/ RunRejects(w) \/ StoreResult(w) \/ PublishOutcome(w)
    \/ AcknowledgeTask(w) \/ GuardedCommitFails(w) \/ ReleaseLock(w)
    \/ RestoreAfterFailure(w) \/ Requeue(w) \/ AcknowledgeRequeued(w) \/ UnguardedCommitFails(w)

\* What goes wrong.
WorkerFault(w) ==
    \/ \E p \in Partitions : LosePartition(w, p)
    \/ WorkerDies(w) \/ BodyRaises(w) \/ RestoreErrorSuppressed(w)
=============================================================================
