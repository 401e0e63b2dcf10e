----------------------- MODULE OptimizationSystemProofs -----------------------
(***************************************************************************)
(* Proofs about OptimizationSystem, for any number of workloads, workers   *)
(* and partitions, and any number of failures.                             *)
(*                                                                         *)
(* SystemTypes is the type invariant, with what the topic holds.  On it    *)
(* rest three inductive invariants: Handled (no message is passed before   *)
(* it is settled), Owned with Deduplicated (while no live worker loses its *)
(* partition), and FaultFree with Received (as long as nothing has failed).*)
(***************************************************************************)
EXTENDS OptimizationSystem, FiniteSetTheorems, SequenceTheorems, TLAPS

\* What the variables range over: messages, results, places of a worker and
\* of the coordinator.  A worker that is free has no message.
Requests == [task : Tasks, attempt : 0 .. MaxAttempts - 1]

Results == [run : {"this", "earlier"}, task : Tasks, accepted : BOOLEAN]

Places == {"idle", "dead", "failing", "locking", "releasing"} \cup Unguarded \cup Changing

Free == {"idle", "dead"}

Phases == {"dispatch", "waiting"} \cup Ended

\* The message a worker is busy with is one of the topic.
Busy(w) ==
    LET m == message[w]
    IN  /\ m.partition \in Partitions
        /\ m.offset \in 1 .. Len(requests[m.partition])
        /\ m.task = requests[m.partition][m.offset].task
        /\ m.attempt = requests[m.partition][m.offset].attempt

BusTypes ==
    /\ requests \in [Partitions -> Seq(Requests)]
    /\ committed \in [Partitions -> Nat]
    /\ position \in [Partitions -> Nat]
    /\ \A p \in Partitions : committed[p] <= Len(requests[p]) /\ position[p] <= Len(requests[p])
    /\ owner \in [Partitions -> Workers \cup {NoWorker}]
    /\ results \in Seq(Results)
    /\ deadLetters \in SUBSET Tasks

WorkerTypes ==
    /\ pc \in [Workers -> Places]
    /\ DOMAIN message = Workers
    /\ \A w \in Workers : pc[w] \notin Free => Busy(w)
    /\ created \in [Workers -> BOOLEAN]
    /\ outcome \in [Workers -> {"none", "accepted", "rejected"}]
    /\ \A w \in Workers : pc[w] \in {"storing", "publishing"} => outcome[w] # "none"
    /\ lock \in [Tasks -> Workers \cup {NoWorker}]
    /\ completed \in [Tasks -> {"none", "accepted", "rejected"}]
    /\ live \in [Tasks -> {"original", "candidate"}]
    /\ faults \in 0 .. MaxFaults

CoordinatorTypes ==
    /\ phase \in Phases
    /\ dispatched \in SUBSET Tasks
    /\ read \in 0 .. Len(results)
    /\ received \in Seq(Results)
    /\ passed \in BOOLEAN

\* Each message of a task is on the task's partition, and one of them is the
\* last; tasks that were not dispatched have none.
Topic ==
    /\ \A p \in Partitions : \A i \in 1 .. Len(requests[p]) :
          PartitionOf(requests[p][i].task) = p /\ requests[p][i].task \in dispatched
    /\ \A t \in dispatched : \E i \in 1 .. Len(requests[PartitionOf(t)]) :
          /\ requests[PartitionOf(t)][i].task = t
          /\ \A j \in i + 1 .. Len(requests[PartitionOf(t)]) : requests[PartitionOf(t)][j].task # t
    /\ phase \in {"waiting"} \cup Verdicts => dispatched = Tasks

\* A message that needs no delivery any more: its task has a result or a dead
\* letter, or a later message.
SettledIn(reqs, ress, dead, p, i) ==
    LET t == reqs[p][i].task
    IN  \/ \E k \in 1 .. Len(ress) : ress[k].run = "this" /\ ress[k].task = t
        \/ t \in dead
        \/ \E j \in i + 1 .. Len(reqs[p]) : reqs[p][j].task = t

Settled(p, i) == SettledIn(requests, results, deadLetters, p, i)

\* The places from which a worker commits its message or is done with it.
Done == {"duplicate_ack", "requeue_ack", "acking", "releasing"}

\* Committed messages are settled, and so is every message that a consumer
\* has passed, up to the one it is busy with.
CommittedIsSettled == \A p \in Partitions : \A i \in 1 .. committed[p] : Settled(p, i)

BehindIsSettled ==
    \A w \in Workers : pc[w] \notin Free =>
        \A i \in 1 .. message[w].offset - 1 : Settled(message[w].partition, i)

DoneIsSettled ==
    \A w \in Workers : pc[w] \in Done => Settled(message[w].partition, message[w].offset)

FetchedIsSettled ==
    \A p \in Partitions, w \in Workers : owner[p] = w =>
        \A i \in 1 .. position[p] :
            \/ Settled(p, i)
            \/ pc[w] \notin Free /\ message[w].partition = p /\ message[w].offset = i

Handled == CommittedIsSettled /\ BehindIsSettled /\ DoneIsSettled /\ FetchedIsSettled

\* While the group is stable, a busy worker owns the partition.
Owned ==
    StableGroup => \A w \in Workers : pc[w] \notin Free => owner[message[w].partition] = w

\* While the group is stable, the stored result is the one that has been
\* published, and the one that will be.
PublishedIsStored ==
    \A i \in 1 .. Len(results) : results[i].run = "this" =>
        completed[results[i].task] = IF results[i].accepted THEN "accepted" ELSE "rejected"

OutcomeIsStored ==
    \A w \in Workers :
        /\ pc[w] \in {"locking", "creating", "applying", "verifying", "storing"} =>
              completed[Task(w)] = "none"
        /\ pc[w] = "publishing" => completed[Task(w)] = outcome[w]
        /\ pc[w] = "duplicate" => completed[Task(w)] # "none"

Deduplicated == StableGroup => PublishedIsStored /\ OutcomeIsStored

Unanswered(ress, t) == \A i \in 1 .. Len(ress) : ~(ress[i].run = "this" /\ ress[i].task = t)

\* Nobody has worked on a task yet.
Untouched(comp, lk, ress, t) == comp[t] = "none" /\ lk[t] = NoWorker /\ Unanswered(ress, t)

\* Without faults every task has one message, which is delivered once: a
\* partition without an owner never had one, and what is not dispatched or
\* not fetched is untouched.
DeliveredOnce ==
    /\ \A p \in Partitions : \A i, j \in 1 .. Len(requests[p]) :
          requests[p][i].task = requests[p][j].task => i = j
    /\ \A p \in Partitions : owner[p] = NoWorker => position[p] = committed[p]
    /\ \A t \in Tasks \ dispatched : Untouched(completed, lock, results, t)
    /\ \A p \in Partitions : \A i \in position[p] + 1 .. Len(requests[p]) :
          Untouched(completed, lock, results, requests[p][i].task)

\* A worker fails nowhere, is busy with the last message it was given, holds
\* the lock from before the graph run to after the commit, and verifies and
\* accepts what it has applied.
WorksWell(w) ==
    /\ pc[w] \notin {"dead", "failing", "requeue", "duplicate", "duplicate_ack"}
    /\ pc[w] # "idle" => /\ owner[message[w].partition] = w
                         /\ position[message[w].partition] = message[w].offset
    /\ pc[w] \in {"claimed", "locking"} => Untouched(completed, lock, results, message[w].task)
    /\ pc[w] \in {"creating", "applying", "verifying", "storing", "publishing"} =>
          Unanswered(results, message[w].task)
    /\ pc[w] \in {"creating", "applying", "verifying", "storing", "publishing", "acking", "releasing"} =>
          lock[message[w].task] = w
    /\ pc[w] = "verifying" => live[message[w].task] = "candidate"
    /\ (pc[w] \in {"storing", "publishing"} /\ outcome[w] = "accepted") =>
          live[message[w].task] = "candidate"

\* A task has one result, and one that is accepted has its candidate.
AnsweredOnce ==
    /\ \A i, j \in 1 .. Len(results) :
          (results[i].run = "this" /\ results[j].run = "this" /\ results[i].task = results[j].task)
              => i = j
    /\ \A i \in 1 .. Len(results) : (results[i].run = "this" /\ results[i].accepted) =>
          live[results[i].task] = "candidate"

FaultFree == faults = 0 => DeliveredOnce /\ (\A w \in Workers : WorksWell(w)) /\ AnsweredOnce

\* What the coordinator has received are results of this run that it has read;
\* without faults they are of different tasks, and a report is true.
Received ==
    /\ \A i \in 1 .. Len(received) : \E k \in 1 .. read :
          results[k].run = "this" /\ results[k] = received[i]
    /\ faults = 0 =>
          /\ \A i, j \in 1 .. Len(received) : received[i].task = received[j].task => i = j
          /\ Len(received) <= Cardinality(Tasks)
          /\ phase = "report" =>
                \A t \in Tasks : /\ \E i \in 1 .. Len(results) :
                                       results[i].run = "this" /\ results[i].task = t
                                 /\ live[t] = "candidate"

\* The type invariant, with the relation of workers to the topic.
SystemTypes == BusTypes /\ WorkerTypes /\ CoordinatorTypes /\ Topic

-----------------------------------------------------------------------------

USE KafkaAssumption, AttemptsAssumption, FaultsAssumption

\* Topics only grow.
Grows ==
    /\ \A p \in Partitions : Len(requests[p]) <= Len(requests'[p])
    /\ \A p \in Partitions : \A i \in 1 .. Len(requests[p]) : requests'[p][i] = requests[p][i]
    /\ Len(results) <= Len(results')
    /\ \A i \in 1 .. Len(results) : results'[i] = results[i]
    /\ deadLetters \subseteq deadLetters'

\* Lengths are numbers.
LEMMA Lengths ==
    ASSUME BusTypes
    PROVE  /\ \A p \in Partitions : requests[p] \in Seq(Requests) /\ Len(requests[p]) \in Nat
           /\ Len(results) \in Nat
           /\ \A p \in Partitions : \A i \in 1 .. Len(requests[p]) : requests[p][i] \in Requests
           /\ \A i \in 1 .. Len(results) : results[i] \in Results
BY LenProperties, ElementOfSeq DEF BusTypes

\* A published request is the last of its partition.
LEMMA RequestPublished ==
    ASSUME BusTypes, NEW t \in Tasks, NEW a \in 0 .. MaxAttempts - 1, PublishRequest(t, a)
    PROVE  /\ requests' \in [Partitions -> Seq(Requests)]
           /\ \A p \in Partitions : p # PartitionOf(t) => requests'[p] = requests[p]
           /\ Len(requests'[PartitionOf(t)]) = Len(requests[PartitionOf(t)]) + 1
           /\ \A i \in 1 .. Len(requests[PartitionOf(t)]) :
                  requests'[PartitionOf(t)][i] = requests[PartitionOf(t)][i]
           /\ requests'[PartitionOf(t)][Len(requests[PartitionOf(t)]) + 1] =
                  [task |-> t, attempt |-> a]
           /\ UNCHANGED <<committed, position, owner, results, deadLetters>>
<1> DEFINE P == PartitionOf(t)
           q == requests[P]
           r == [task |-> t, attempt |-> a]
<1>1. P \in Partitions /\ q \in Seq(Requests) /\ r \in Requests
  BY DEF BusTypes, Requests
<1>2. requests' = [requests EXCEPT ![P] = Append(q, r)]
      /\ UNCHANGED <<committed, position, owner, results, deadLetters>>
  BY DEF PublishRequest
<1> HIDE DEF P, q, r
<1>3. /\ Append(q, r) \in Seq(Requests)
      /\ Len(Append(q, r)) = Len(q) + 1
      /\ \A i \in 1 .. Len(q) : Append(q, r)[i] = q[i]
      /\ Append(q, r)[Len(q) + 1] = r
  BY <1>1
<1>4. /\ requests'[P] = Append(q, r)
      /\ requests' \in [Partitions -> Seq(Requests)]
      /\ \A p \in Partitions : p # P => requests'[p] = requests[p]
  BY <1>1, <1>2, <1>3 DEF BusTypes
<1> QED
  BY <1>2, <1>3, <1>4 DEF P, q, r

\* A published result is the last of the topic.
LEMMA ResultPublished ==
    ASSUME BusTypes, NEW t \in Tasks, NEW a \in BOOLEAN, PublishResult(t, a)
    PROVE  /\ results' \in Seq(Results)
           /\ Len(results') = Len(results) + 1
           /\ \A i \in 1 .. Len(results) : results'[i] = results[i]
           /\ results'[Len(results) + 1] = [run |-> "this", task |-> t, accepted |-> a]
           /\ \A s : ResultsOf(s)' = IF s = t THEN ResultsOf(s) \cup {Len(results) + 1}
                                             ELSE ResultsOf(s)
           /\ UNCHANGED <<requests, committed, position, owner, deadLetters>>
<1> DEFINE r == [run |-> "this", task |-> t, accepted |-> a]
<1>1. results \in Seq(Results) /\ r \in Results
  BY DEF BusTypes, Results
<1>2. results' = Append(results, r) /\ UNCHANGED <<requests, committed, position, owner, deadLetters>>
  BY DEF PublishResult
<1>3. r.run = "this" /\ r.task = t
  OBVIOUS
<1> HIDE DEF r
<1>4. /\ results' \in Seq(Results)
      /\ Len(results') = Len(results) + 1
      /\ \A i \in 1 .. Len(results) : results'[i] = results[i]
      /\ results'[Len(results) + 1] = r
      /\ Len(results) \in Nat
  BY <1>1, <1>2
<1>5. ASSUME NEW s
      PROVE  ResultsOf(s)' = IF s = t THEN ResultsOf(s) \cup {Len(results) + 1} ELSE ResultsOf(s)
  <2>1. 1 .. Len(results') = (1 .. Len(results)) \cup {Len(results) + 1}
    BY <1>4
  <2> QED
    BY <1>3, <1>4, <2>1 DEF ResultsOf
<1> QED
  BY <1>2, <1>4, <1>5 DEF r

\* The task of a busy worker is one of the topic.
LEMMA BusyWorkers ==
    ASSUME BusTypes, Topic, NEW w \in Workers, Busy(w)
    PROVE  /\ Task(w) \in Tasks /\ Task(w) \in dispatched
           /\ message[w].attempt \in 0 .. MaxAttempts - 1
           /\ message[w].partition = PartitionOf(Task(w))
           /\ message[w].partition \in Partitions
           /\ message[w].offset \in 1 .. Len(requests[message[w].partition])
<1> DEFINE p == message[w].partition
           i == message[w].offset
<1>1. /\ p \in Partitions /\ i \in 1 .. Len(requests[p])
      /\ message[w].task = requests[p][i].task
      /\ message[w].attempt = requests[p][i].attempt
  BY DEF Busy
<1>2. requests[p][i] \in Requests
  BY <1>1, Lengths
<1>3. PartitionOf(requests[p][i].task) = p /\ requests[p][i].task \in dispatched
  BY <1>1 DEF Topic
<1> QED
  BY <1>1, <1>2, <1>3 DEF Requests, Task

\* What a step may do to the bus.
BusStep ==
    \/ UNCHANGED busVars
    \/ \E t \in Tasks, a \in 0 .. MaxAttempts - 1 : PublishRequest(t, a)
    \/ \E t \in Tasks, a \in BOOLEAN : PublishResult(t, a)
    \/ \E t \in Tasks : PublishDeadLetter(t)
    \/ \E p \in Partitions, w \in Workers : Assign(p, w) \/ Fetch(p, w) \/ Revoke(p)
    \/ \E w \in Workers : Leave(w)
    \/ \E w \in Workers : Busy(w) /\ Commit(message[w])

\* Every step of the system does at most one thing to the bus.
LEMMA StepsOfTheBus ==
    ASSUME SystemTypes, [SystemNext]_vars
    PROVE  BusStep
<1> USE DEF SystemTypes
<1>5. ASSUME NEW w \in Workers, WorkerStep(w) \/ WorkerFault(w) PROVE BusStep
  <2>0. pc[w] \notin Free => /\ Busy(w) /\ Task(w) \in Tasks
                             /\ message[w].attempt \in 0 .. MaxAttempts - 1
    BY BusyWorkers DEF WorkerTypes
  <2>1. CASE PublishDuplicate(w) \/ PublishOutcome(w)
    <3>1. Task(w) \in Tasks
      BY <2>0, <2>1 DEF PublishDuplicate, PublishOutcome, Goto, Free
    <3>2. CASE PublishDuplicate(w)
      <4>1. PublishResult(Task(w), completed[Task(w)] = "accepted")
        BY <3>2 DEF PublishDuplicate
      <4>2. (completed[Task(w)] = "accepted") \in BOOLEAN
        OBVIOUS
      <4> QED
        BY <3>1, <4>1, <4>2 DEF BusStep
    <3>3. CASE PublishOutcome(w)
      <4>1. PublishResult(Task(w), outcome[w] = "accepted")
        BY <3>3 DEF PublishOutcome
      <4>2. (outcome[w] = "accepted") \in BOOLEAN
        OBVIOUS
      <4> QED
        BY <3>1, <4>1, <4>2 DEF BusStep
    <3> QED
      BY <2>1, <3>2, <3>3
  <2>2. CASE RejectInvalid(w)
    BY <2>0, <2>2 DEF RejectInvalid, Goto, Free, BusStep
  <2>3. CASE Requeue(w)
    <3>1. Task(w) \in Tasks /\ message[w].attempt \in 0 .. MaxAttempts - 1
      BY <2>0, <2>3 DEF Requeue, Goto, Free
    <3>2. message[w].attempt + 1 < MaxAttempts => message[w].attempt + 1 \in 0 .. MaxAttempts - 1
      BY <3>1
    <3> QED
      BY <2>3, <3>1, <3>2 DEF Requeue, BusStep
  <2>4. ASSUME NEW p \in Partitions, AssignPartition(w, p) \/ Claim(w, p) \/ LosePartition(w, p)
        PROVE  BusStep
    BY <2>4 DEF AssignPartition, Claim, LosePartition, BusStep
  <2>5. CASE \/ CheckDuplicate(w) \/ AcquireLock(w) \/ LockTimesOut(w)
             \/ CreateEnvironment(w) \/ ApplyCandidate(w) \/ RunAccepts(w) \/ RunRejects(w)
             \/ StoreResult(w)
    BY <2>5 DEF CheckDuplicate, AcquireLock, LockTimesOut,
       CreateEnvironment, ApplyCandidate, RunAccepts, RunRejects, StoreResult, BusStep
  <2>6. CASE \/ GuardedCommitFails(w) \/ ReleaseLock(w) \/ RestoreAfterFailure(w)
             \/ UnguardedCommitFails(w) \/ WorkerDies(w) \/ BodyRaises(w)
             \/ RestoreErrorSuppressed(w)
    BY <2>6 DEF GuardedCommitFails, ReleaseLock, RestoreAfterFailure,
       UnguardedCommitFails, WorkerDies, BodyRaises, RestoreErrorSuppressed, BusStep
  <2>7. CASE AcknowledgeDuplicate(w) \/ AcknowledgeTask(w) \/ AcknowledgeRequeued(w)
    BY <2>0, <2>7 DEF AcknowledgeDuplicate, AcknowledgeTask, AcknowledgeRequeued, Acknowledge, Goto,
       Free, BusStep
  <2> QED
    BY <1>5, <2>1, <2>2, <2>3, <2>4, <2>5, <2>6, <2>7 DEF WorkerStep, WorkerFault
<1>6. CASE \E t \in Tasks : Dispatch(t)
  <2>1. 0 \in 0 .. MaxAttempts - 1
    OBVIOUS
  <2> QED
    BY <1>6, <2>1 DEF Dispatch, BusStep
<1>7. CASE DispatchDone \/ Receive \/ CoordinatorRaises \/ VerifySystem \/ UNCHANGED vars
  BY <1>7 DEF DispatchDone, Receive, CoordinatorRaises, VerifySystem, vars, BusStep
<1>8. CASE \E t \in Tasks : LeaseExpires(t)
  BY <1>8 DEF LeaseExpires, BusStep
<1> QED
  BY <1>5, <1>6, <1>7, <1>8 DEF SystemNext, WorkersRun

\* The bus keeps its types and its topics only grow.
LEMMA BusStepsGrow ==
    ASSUME BusTypes, BusStep
    PROVE  Grows /\ BusTypes'
<1>1. CASE UNCHANGED busVars
  BY <1>1, Lengths DEF Grows, BusTypes, busVars
<1>2. ASSUME NEW t \in Tasks, NEW a \in 0 .. MaxAttempts - 1, PublishRequest(t, a)
      PROVE  Grows /\ BusTypes'
  <2>1. /\ requests' \in [Partitions -> Seq(Requests)]
        /\ \A p \in Partitions : p # PartitionOf(t) => requests'[p] = requests[p]
        /\ Len(requests'[PartitionOf(t)]) = Len(requests[PartitionOf(t)]) + 1
        /\ \A i \in 1 .. Len(requests[PartitionOf(t)]) :
               requests'[PartitionOf(t)][i] = requests[PartitionOf(t)][i]
        /\ UNCHANGED <<committed, position, owner, results, deadLetters>>
    BY <1>2, RequestPublished
  <2>2. ASSUME NEW p \in Partitions PROVE Len(requests[p]) <= Len(requests'[p])
    <3>1. Len(requests[p]) \in Nat
      BY Lengths
    <3> QED
      BY <2>1, <3>1
  <2>3. Grows
    <3>1. ASSUME NEW p \in Partitions, NEW i \in 1 .. Len(requests[p])
          PROVE  requests'[p][i] = requests[p][i]
      BY <2>1
    <3>2. Len(results) <= Len(results') /\ results' = results /\ deadLetters' = deadLetters
      BY <2>1, Lengths
    <3> QED
      BY <2>2, <3>1, <3>2 DEF Grows
  <2>4. \A p \in Partitions : committed'[p] <= Len(requests'[p]) /\ position'[p] <= Len(requests'[p])
    <3> TAKE p \in Partitions
    <3>1. /\ committed[p] \in Nat /\ position[p] \in Nat /\ Len(requests[p]) \in Nat
          /\ committed[p] <= Len(requests[p]) /\ position[p] <= Len(requests[p])
      BY Lengths DEF BusTypes
    <3>2. Len(requests'[p]) \in Nat
      BY <2>1, <3>1
    <3> QED
      BY <2>1, <2>2, <3>1, <3>2
  <2> QED
    BY <2>1, <2>3, <2>4 DEF BusTypes
<1>3. ASSUME NEW t \in Tasks, NEW a \in BOOLEAN, PublishResult(t, a)
      PROVE  Grows /\ BusTypes'
  <2>1. /\ results' \in Seq(Results)
        /\ Len(results') = Len(results) + 1
        /\ \A i \in 1 .. Len(results) : results'[i] = results[i]
        /\ UNCHANGED <<requests, committed, position, owner, deadLetters>>
    BY <1>3, ResultPublished
  <2>2. Len(results) \in Nat /\ \A p \in Partitions : Len(requests[p]) \in Nat
    BY Lengths
  <2>3. Grows
    BY <2>1, <2>2 DEF Grows
  <2> QED
    BY <2>1, <2>3 DEF BusTypes
<1>4. ASSUME NEW t \in Tasks, PublishDeadLetter(t) PROVE Grows /\ BusTypes'
  BY <1>4, Lengths DEF Grows, PublishDeadLetter, BusTypes
<1>5. ASSUME NEW p \in Partitions, NEW w \in Workers, Assign(p, w) \/ Revoke(p)
      PROVE  Grows /\ BusTypes'
  <2>1. Grows
    BY <1>5, Lengths DEF Grows, Assign, Revoke
  <2>2. CASE Assign(p, w)
    BY <2>1, <2>2 DEF Assign, BusTypes
  <2>3. CASE Revoke(p)
    BY <2>1, <2>3 DEF Revoke, BusTypes
  <2> QED
    BY <1>5, <2>1, <2>2, <2>3
<1>6. ASSUME NEW p \in Partitions, NEW w \in Workers, Fetch(p, w)
      PROVE  Grows /\ BusTypes'
  <2>1. Grows
    BY <1>6, Lengths DEF Grows, Fetch
  <2>2. position[p] < Len(requests[p]) /\ position[p] \in Nat /\ Len(requests[p]) \in Nat
    BY <1>6, Lengths DEF Fetch, BusTypes
  <2>3. position[p] + 1 \in Nat /\ position[p] + 1 <= Len(requests[p])
    BY <2>2
  <2> QED
    BY <1>6, <2>1, <2>3 DEF Fetch, BusTypes
<1>7. ASSUME NEW w \in Workers, Leave(w) PROVE Grows /\ BusTypes'
  <2>1. Grows
    BY <1>7, Lengths DEF Grows, Leave
  <2> QED
    BY <1>7, <2>1 DEF Leave, BusTypes
<1>8. ASSUME NEW w \in Workers, Busy(w), Commit(message[w]) PROVE Grows /\ BusTypes'
  <2>1. Grows
    BY <1>8, Lengths DEF Grows, Commit
  <2> DEFINE p == message[w].partition
             n == message[w].offset
  <2>2. p \in Partitions /\ n \in 1 .. Len(requests[p])
    BY <1>8 DEF Busy
  <2>3. n \in Nat /\ n <= Len(requests[p])
    BY <2>2, Lengths
  <2>4. committed' = [committed EXCEPT ![p] = n]
        /\ UNCHANGED <<requests, position, owner, results, deadLetters>>
    BY <1>8 DEF Commit
  <2> HIDE DEF n, p
  <2> QED
    BY <2>1, <2>2, <2>3, <2>4 DEF BusTypes
<1> QED
  BY <1>1, <1>2, <1>3, <1>4, <1>5, <1>6, <1>7, <1>8 DEF BusStep

\* A worker stays busy with its message as the topic grows.
LEMMA BusyStays ==
    ASSUME BusTypes, Grows, NEW w, Busy(w), message'[w] = message[w]
    PROVE  Busy(w)'
<1> DEFINE p == message[w].partition
           i == message[w].offset
<1>1. /\ p \in Partitions /\ i \in 1 .. Len(requests[p])
      /\ message[w].task = requests[p][i].task
      /\ message[w].attempt = requests[p][i].attempt
  BY DEF Busy
<1>2. Len(requests[p]) \in Nat
  BY <1>1, Lengths
<1>3. Len(requests[p]) <= Len(requests'[p]) /\ requests'[p][i] = requests[p][i]
  BY <1>1 DEF Grows
<1>4. i \in 1 .. Len(requests'[p])
  <2>1. i \in Int /\ 1 <= i /\ i <= Len(requests[p])
    BY <1>1
  <2>2. Len(requests'[p]) \in Int
    BY <1>1, LenProperties DEF Grows
  <2> QED
    BY <1>2, <1>3, <2>1, <2>2
<1>5. message'[w].partition = p /\ message'[w].offset = i
      /\ message'[w].task = message[w].task /\ message'[w].attempt = message[w].attempt
  OBVIOUS
<1> HIDE DEF p, i
<1> QED
  BY <1>1, <1>3, <1>4, <1>5 DEF Busy

\* The stores and the workers keep their types.
LEMMA WorkerTypesStay ==
    ASSUME SystemTypes, SystemTypes => Grows /\ BusTypes', NEW w \in Workers,
           WorkerStep(w) \/ WorkerFault(w)
    PROVE  WorkerTypes'
<1> USE DEF SystemTypes
<1>1. /\ pc \in [Workers -> Places]
      /\ DOMAIN message = Workers
      /\ created \in [Workers -> BOOLEAN]
      /\ outcome \in [Workers -> {"none", "accepted", "rejected"}]
      /\ \A v \in Workers : pc[v] \in {"storing", "publishing"} => outcome[v] # "none"
      /\ lock \in [Tasks -> Workers \cup {NoWorker}]
      /\ completed \in [Tasks -> {"none", "accepted", "rejected"}]
      /\ live \in [Tasks -> {"original", "candidate"}]
      /\ faults \in 0 .. MaxFaults
  BY DEF WorkerTypes
<1>2. pc[w] \notin Free => Task(w) \in Tasks
  BY BusyWorkers DEF WorkerTypes
<1>3. SUFFICES /\ pc' \in [Workers -> Places]
               /\ DOMAIN message' = Workers
               /\ \A v \in Workers : pc'[v] \notin Free =>
                     (message'[v] = message[v] /\ pc[v] \notin Free) \/ Busy(v)'
               /\ created' \in [Workers -> BOOLEAN]
               /\ outcome' \in [Workers -> {"none", "accepted", "rejected"}]
               /\ \A v \in Workers : pc'[v] \in {"storing", "publishing"} => outcome'[v] # "none"
               /\ lock' \in [Tasks -> Workers \cup {NoWorker}]
               /\ completed' \in [Tasks -> {"none", "accepted", "rejected"}]
               /\ live' \in [Tasks -> {"original", "candidate"}]
               /\ faults' \in 0 .. MaxFaults
  BY BusyStays DEF WorkerTypes
<1> USE DEF Goto, Places, Free, Unguarded, Changing, storeVars, workerVars
<1>4. CASE \E p \in Partitions : AssignPartition(w, p) \/ LosePartition(w, p)
  BY <1>1, <1>4 DEF AssignPartition, LosePartition, Fault
<1>5. CASE \E p \in Partitions : Claim(w, p)
  <2>1. PICK p \in Partitions : Claim(w, p)
    BY <1>5
  <2>2. /\ message' = [message EXCEPT ![w] = Fetched(p)]
        /\ position[p] < Len(requests[p])
        /\ requests' = requests
    BY <2>1 DEF Claim, Fetch
  <2>3. position[p] + 1 \in 1 .. Len(requests[p])
    <3>1. position[p] \in Nat /\ Len(requests[p]) \in Nat
      BY Lengths DEF BusTypes
    <3> QED
      BY <2>2, <3>1
  <2>4. Busy(w)'
    BY <1>1, <2>2, <2>3 DEF Busy, Fetched
  <2> QED
    BY <1>1, <2>1, <2>4 DEF Claim
<1>6. CASE \/ RejectInvalid(w) \/ CheckDuplicate(w) \/ PublishDuplicate(w)
           \/ AcknowledgeDuplicate(w) \/ AcknowledgeTask(w) \/ AcknowledgeRequeued(w)
           \/ UnguardedCommitFails(w) \/ PublishOutcome(w) \/ Requeue(w) \/ WorkerDies(w)
  <2>1. /\ \E next \in Places \ {"storing", "publishing"} : pc' = [pc EXCEPT ![w] = next]
        /\ pc[w] \notin Free
        /\ UNCHANGED <<message, created, outcome, lock, completed, live>>
        /\ faults' \in {faults, faults + 1} /\ (faults' = faults \/ faults < MaxFaults)
    BY <1>1, <1>6 DEF RejectInvalid, CheckDuplicate, PublishDuplicate, AcknowledgeDuplicate,
       AcknowledgeTask, AcknowledgeRequeued, Acknowledge, UnguardedCommitFails, PublishOutcome,
       Requeue, WorkerDies, Fault
  <2>2. faults' \in 0 .. MaxFaults
    BY <1>1, <2>1, FaultsAssumption
  <2> QED
    BY <1>1, <2>1, <2>2
<1>7. CASE AcquireLock(w) \/ LockTimesOut(w)
  BY <1>1, <1>2, <1>7 DEF AcquireLock, LockTimesOut
<1>9. CASE CreateEnvironment(w)
  BY <1>1, <1>9 DEF CreateEnvironment
<1>10. CASE ApplyCandidate(w)
  BY <1>1, <1>2, <1>10 DEF ApplyCandidate
<1>11. CASE RunAccepts(w)
  BY <1>1, <1>11 DEF RunAccepts
<1>12. CASE RunRejects(w)
  BY <1>1, <1>2, <1>12 DEF RunRejects
<1>13. CASE StoreResult(w)
  BY <1>1, <1>2, <1>13 DEF StoreResult
<1>8. CASE \/ GuardedCommitFails(w) \/ ReleaseLock(w) \/ BodyRaises(w)
           \/ RestoreAfterFailure(w) \/ RestoreErrorSuppressed(w)
  BY <1>1, <1>2, <1>8 DEF GuardedCommitFails, ReleaseLock, BodyRaises, Released,
     RestoreAfterFailure, RestoreErrorSuppressed, Fault
<1> QED
  BY <1>4, <1>5, <1>6, <1>7, <1>8, <1>9, <1>10, <1>11, <1>12, <1>13
     DEF WorkerStep, WorkerFault

\* The coordinator keeps its types.
LEMMA CoordinatorTypesStay ==
    ASSUME SystemTypes, Grows, [SystemNext]_vars
    PROVE  CoordinatorTypes'
<1>1. /\ phase \in Phases /\ dispatched \in SUBSET Tasks /\ read \in 0 .. Len(results)
      /\ received \in Seq(Results) /\ passed \in BOOLEAN
      /\ Len(results) \in Nat /\ Len(results') >= Len(results)
  BY Lengths DEF SystemTypes, CoordinatorTypes, Grows
<1>2. CASE Receive
  <2>1. results[read + 1] \in Results /\ read + 1 \in 0 .. Len(results)
    BY <1>1, <1>2, Lengths DEF Receive, SystemTypes
  <2>2. received' \in Seq(Results)
    BY <1>1, <1>2, <2>1 DEF Receive
  <2> QED
    BY <1>1, <1>2, <2>1, <2>2 DEF Receive, CoordinatorTypes, busVars
<1>3. CASE (\E t \in Tasks : Dispatch(t)) \/ DispatchDone \/ CoordinatorRaises
  BY <1>1, <1>3 DEF Dispatch, PublishRequest, DispatchDone, CoordinatorRaises, busVars, CoordinatorTypes,
     Phases, Ended, Verdicts
<1>4. CASE VerifySystem
  BY <1>1, <1>4 DEF VerifySystem, busVars, CoordinatorTypes, Phases, Ended, Verdicts
<1>5. CASE UNCHANGED coordinatorVars
  BY <1>1, <1>5 DEF coordinatorVars, CoordinatorTypes
<1> QED
  BY <1>2, <1>3, <1>4, <1>5 DEF SystemNext, WorkersRun, vars

\* A published request becomes the last of its task.
LEMMA RequestJoinsTopic ==
    ASSUME BusTypes, CoordinatorTypes, Topic, NEW t \in Tasks, NEW a \in 0 .. MaxAttempts - 1,
           PublishRequest(t, a), dispatched' = dispatched \cup {t},
           phase' \in {"waiting"} \cup Verdicts => dispatched' = Tasks
    PROVE  Topic'
<1> DEFINE P == PartitionOf(t)
           n == Len(requests[P])
<1>1. /\ \A p \in Partitions : p # P => requests'[p] = requests[p]
      /\ Len(requests'[P]) = n + 1
      /\ \A i \in 1 .. n : requests'[P][i] = requests[P][i]
      /\ requests'[P][n + 1].task = t
      /\ P \in Partitions /\ n \in Nat
  <2>1. /\ \A p \in Partitions : p # P => requests'[p] = requests[p]
        /\ Len(requests'[P]) = n + 1
        /\ \A i \in 1 .. n : requests'[P][i] = requests[P][i]
        /\ requests'[P][n + 1] = [task |-> t, attempt |-> a]
    BY RequestPublished
  <2>2. P \in Partitions
    OBVIOUS
  <2>3. n \in Nat
    BY <2>2, Lengths
  <2> QED
    BY <2>1, <2>2, <2>3
<1> HIDE DEF n
<1>2. \A p \in Partitions : \A i \in 1 .. Len(requests'[p]) :
          PartitionOf(requests'[p][i].task) = p /\ requests'[p][i].task \in dispatched'
  <2> SUFFICES ASSUME NEW p \in Partitions, NEW i \in 1 .. Len(requests'[p])
               PROVE  PartitionOf(requests'[p][i].task) = p /\ requests'[p][i].task \in dispatched'
    OBVIOUS
  <2>1. CASE p = P /\ i = n + 1
    BY <1>1, <2>1
  <2>2. CASE p = P /\ i # n + 1
    <3>1. i \in 1 .. n
      BY <1>1, <2>2
    <3>2. requests'[p][i] = requests[p][i] /\ dispatched \subseteq dispatched'
      BY <1>1, <2>2, <3>1
    <3>3. PartitionOf(requests[p][i].task) = p /\ requests[p][i].task \in dispatched
      BY <2>2, <3>1 DEF Topic, n
    <3> QED
      BY <3>2, <3>3
  <2>3. CASE p # P
    BY <1>1, <2>3 DEF Topic
  <2> QED
    BY <2>1, <2>2, <2>3
<1>3. ASSUME NEW s \in dispatched'
      PROVE  \E i \in 1 .. Len(requests'[PartitionOf(s)]) :
                /\ requests'[PartitionOf(s)][i].task = s
                /\ \A j \in i + 1 .. Len(requests'[PartitionOf(s)]) :
                      requests'[PartitionOf(s)][j].task # s
  <2>1. CASE s = t
    <3>1. n + 1 \in 1 .. Len(requests'[P]) /\ \A j \in n + 2 .. Len(requests'[P]) : FALSE
      BY <1>1
    <3> QED
      BY <1>1, <2>1, <3>1
  <2>2. CASE s # t /\ PartitionOf(s) # P
    <3>1. s \in dispatched /\ s \in Tasks
      BY <1>3, <2>2 DEF CoordinatorTypes
    <3>2. requests'[PartitionOf(s)] = requests[PartitionOf(s)]
      BY <1>1, <2>2, <3>1
    <3> QED
      BY <3>1, <3>2 DEF Topic
  <2>3. CASE s # t /\ PartitionOf(s) = P
    <3>1. PICK i \in 1 .. n : /\ requests[P][i].task = s
                              /\ \A j \in i + 1 .. n : requests[P][j].task # s
      BY <1>3, <2>3 DEF Topic, n
    <3>2. i \in 1 .. Len(requests'[P]) /\ requests'[P][i].task = s
      BY <1>1, <3>1
    <3>3. ASSUME NEW j \in i + 1 .. Len(requests'[P]) PROVE requests'[P][j].task # s
      <4>1. CASE j = n + 1
        BY <1>1, <2>3, <4>1
      <4>2. CASE j # n + 1
        <5>1. j \in i + 1 .. n /\ j \in 1 .. n
          BY <1>1, <4>2
        <5> QED
          BY <1>1, <3>1, <5>1
      <4> QED
        BY <4>1, <4>2
    <3> QED
      BY <2>3, <3>2, <3>3
  <2> QED
    BY <2>1, <2>2, <2>3
<1> QED
  BY <1>2, <1>3 DEF Topic

\* The topic holds the messages of the dispatched tasks.
LEMMA TopicStays ==
    ASSUME SystemTypes, [SystemNext]_vars
    PROVE  Topic'
<1> USE DEF SystemTypes
<1>1. CASE UNCHANGED <<requests, dispatched, phase>>
  BY <1>1 DEF Topic
<1>2. CASE \E t \in Tasks : Dispatch(t)
  <2>1. 0 \in 0 .. MaxAttempts - 1
    OBVIOUS
  <2> QED
    BY <1>2, <2>1, RequestJoinsTopic DEF Dispatch, Verdicts
<1>3. CASE DispatchDone \/ CoordinatorRaises \/ VerifySystem
  BY <1>3 DEF DispatchDone, CoordinatorRaises, VerifySystem, busVars, Topic, Verdicts
<1>4. ASSUME NEW w \in Workers, Requeue(w), UNCHANGED coordinatorVars PROVE Topic'
  <2>1. /\ Task(w) \in Tasks /\ message[w].attempt \in 0 .. MaxAttempts - 1
        /\ Task(w) \in dispatched
    BY <1>4, BusyWorkers DEF Requeue, Goto, WorkerTypes, Free
  <2>2. CASE message[w].attempt + 1 < MaxAttempts
    <3>1. message[w].attempt + 1 \in 0 .. MaxAttempts - 1
      BY <2>1, <2>2
    <3>2. PublishRequest(Task(w), message[w].attempt + 1)
      BY <1>4, <2>2 DEF Requeue
    <3>3. dispatched' = dispatched \cup {Task(w)} /\ phase' = phase
      BY <1>4, <2>1 DEF coordinatorVars
    <3>4. phase \in {"waiting"} \cup Verdicts => dispatched = Tasks
      BY DEF Topic
    <3> QED
      BY <2>1, <3>1, <3>2, <3>3, <3>4, RequestJoinsTopic
  <2>3. CASE ~(message[w].attempt + 1 < MaxAttempts)
    BY <1>1, <1>4, <2>3 DEF Requeue, PublishDeadLetter, coordinatorVars
  <2> QED
    BY <2>2, <2>3
<1>5. ASSUME NEW w \in Workers, WorkerStep(w) \/ WorkerFault(w), ~Requeue(w)
      PROVE  requests' = requests
  BY <1>5 DEF WorkerStep, WorkerFault, AssignPartition, Assign, LosePartition, Revoke, Claim, Fetch,
     RejectInvalid, CheckDuplicate, PublishDuplicate, AcknowledgeDuplicate, AcquireLock,
     LockTimesOut, CreateEnvironment, ApplyCandidate, RunAccepts, RunRejects, StoreResult,
     PublishOutcome, AcknowledgeTask, GuardedCommitFails, ReleaseLock, RestoreAfterFailure,
     AcknowledgeRequeued, UnguardedCommitFails, WorkerDies, BodyRaises, RestoreErrorSuppressed,
     Acknowledge, Commit, Leave, PublishResult, PublishDeadLetter, busVars
<1>6. CASE WorkersRun
  BY <1>1, <1>4, <1>5, <1>6 DEF WorkersRun, LeaseExpires, busVars, coordinatorVars
<1>7. CASE Receive \/ UNCHANGED vars
  BY <1>1, <1>7 DEF Receive, vars, busVars, coordinatorVars
<1> QED
  BY <1>2, <1>3, <1>6, <1>7 DEF SystemNext

\* The types and the topic, for every kind of group.
LEMMA TypesStay ==
    ASSUME SystemTypes, [SystemNext]_vars
    PROVE  Grows /\ SystemTypes'
<1>1. Grows /\ BusTypes'
  BY StepsOfTheBus, BusStepsGrow DEF SystemTypes
<1>2. WorkerTypes'
  <2>1. CASE \E w \in Workers : WorkerStep(w) \/ WorkerFault(w)
    BY <1>1, <2>1, WorkerTypesStay
  <2>2. CASE \E t \in Tasks : LeaseExpires(t)
    BY <1>1, <2>2, BusyStays DEF LeaseExpires, Fault, SystemTypes, WorkerTypes
  <2>3. CASE UNCHANGED workerVars
    BY <1>1, <2>3, BusyStays DEF workerVars, storeVars, SystemTypes, WorkerTypes
  <2> QED
    BY <2>1, <2>2, <2>3 DEF SystemNext, Dispatch, DispatchDone, Receive, CoordinatorRaises, VerifySystem,
       WorkersRun, vars
<1> QED
  BY <1>1, <1>2, CoordinatorTypesStay, TopicStays DEF SystemTypes

\* The types hold at the start.
LEMMA TypesInitially == SystemInit => SystemTypes
<1> SUFFICES ASSUME SystemInit PROVE SystemTypes
  OBVIOUS
<1> USE DEF SystemInit, BusInit, WorkersInit
<1>1. BusTypes
  <2>1. requests \in [Partitions -> Seq(Requests)]
    BY EmptySeq
  <2>2. results \in Seq(Results)
    <3>1. [run : {"earlier"}, task : Tasks, accepted : BOOLEAN] \subseteq Results
      BY DEF Results
    <3> QED
      BY <3>1, SeqMonotonic
  <2>3. \A p \in Partitions : Len(requests[p]) = 0
    BY EmptySeq
  <2> QED
    BY <2>1, <2>2, <2>3 DEF BusTypes
<1>2. WorkerTypes
  BY DEF WorkerTypes, Places, Free, Unguarded, Changing
<1>3. CoordinatorTypes
  <2>1. received \in Seq(Results) /\ Len(results) \in Nat
    BY <1>1, Lengths, EmptySeq
  <2>2. read \in 0 .. Len(results)
    BY <2>1
  <2>3. phase \in Phases /\ dispatched \in SUBSET Tasks /\ passed \in BOOLEAN
    BY DEF Phases
  <2> HIDE DEF SystemInit
  <2> QED
    BY <2>1, <2>2, <2>3 DEF CoordinatorTypes
<1>4. Topic
  <2>1. \A p \in Partitions : Len(requests[p]) = 0
    BY EmptySeq
  <2> QED
    BY <2>1 DEF Topic, Verdicts
<1> QED
  BY <1>1, <1>2, <1>3, <1>4 DEF SystemTypes

\* The types, and what the topic holds, are invariant.
THEOREM SystemTypesHold == SystemSpec => []SystemTypes
<1>1. SystemTypes /\ [SystemNext]_vars => SystemTypes'
  BY TypesStay
<1> QED
  BY TypesInitially, <1>1, PTL DEF SystemSpec

\* The type invariant of the runs: offsets stay within their partition, and
\* workers retry only with attempts that are left.
THEOREM SystemTypeCorrect == SystemSpec => []SystemTypeOK
<1>1. SystemTypes => SystemTypeOK
  <2> SUFFICES ASSUME SystemTypes PROVE SystemTypeOK
    OBVIOUS
  <2>1. \A p \in Partitions : /\ committed[p] \in 0 .. Len(requests[p])
                              /\ position[p] \in 0 .. Len(requests[p])
                              /\ owner[p] \in Workers \cup {NoWorker}
    BY Lengths DEF SystemTypes, BusTypes
  <2> QED
    BY <2>1, Lengths DEF SystemTypes, BusTypes, WorkerTypes, CoordinatorTypes, SystemTypeOK,
       Requests, Results
<1> QED
  BY SystemTypesHold, <1>1, PTL

-----------------------------------------------------------------------------
(* No task is lost.                                                        *)

\* What is settled stays settled.
LEMMA SettledStays ==
    ASSUME BusTypes, Grows, NEW p \in Partitions, NEW i \in 1 .. Len(requests[p]), Settled(p, i)
    PROVE  SettledIn(requests', results', deadLetters', p, i)
<1>1. /\ requests'[p][i] = requests[p][i]
      /\ Len(requests[p]) \in Nat /\ Len(requests[p]) <= Len(requests'[p])
      /\ \A j \in 1 .. Len(requests[p]) : requests'[p][j] = requests[p][j]
      /\ Len(results) \in Nat /\ Len(results) <= Len(results')
      /\ \A k \in 1 .. Len(results) : results'[k] = results[k]
      /\ deadLetters \subseteq deadLetters'
  BY Lengths DEF Grows
<1> DEFINE t == requests[p][i].task
<1>2. CASE \E k \in 1 .. Len(results) : results[k].run = "this" /\ results[k].task = t
  BY <1>1, <1>2 DEF SettledIn
<1>3. CASE t \in deadLetters
  BY <1>1, <1>3 DEF SettledIn
<1>4. CASE \E j \in i + 1 .. Len(requests[p]) : requests[p][j].task = t
  <2>1. PICK j \in i + 1 .. Len(requests[p]) : requests[p][j].task = t
    BY <1>4
  <2>2. j \in 1 .. Len(requests[p]) /\ j \in i + 1 .. Len(requests'[p])
    BY <1>1, <2>1
  <2> QED
    BY <1>1, <2>1, <2>2 DEF SettledIn
<1> QED
  BY <1>2, <1>3, <1>4 DEF Settled, SettledIn

\* A step by which no worker passes a message that is not settled.
LEMMA HandledKeeps ==
    ASSUME SystemTypes, Handled, Grows,
           \A p \in Partitions : \/ committed'[p] = committed[p]
                                 \/ \A i \in 1 .. committed'[p] :
                                       i \in 1 .. Len(requests[p]) /\ Settled(p, i),
           message' = message,
           \A v \in Workers : pc'[v] \notin Free => pc[v] \notin Free,
           \A v \in Workers : (pc[v] \notin Free /\ pc'[v] \in Free) =>
               pc[v] \in Done \/ \A p \in Partitions : owner'[p] # v,
           \A v \in Workers : pc'[v] \in Done =>
               \/ pc[v] \in Done
               \/ SettledIn(requests', results', deadLetters',
                            message[v].partition, message[v].offset),
           \A p \in Partitions : \/ owner'[p] = NoWorker
                                 \/ owner'[p] = owner[p] /\ position'[p] = position[p]
                                 \/ position'[p] = committed[p]
    PROVE  Handled'
<1> USE DEF SystemTypes
<1>1. \A p \in Partitions : \A i \in 1 .. Len(requests[p]) :
          Settled(p, i) => SettledIn(requests', results', deadLetters', p, i)
  BY SettledStays
<1>2. \A p \in Partitions : /\ Len(requests[p]) \in Nat
                            /\ \A i \in 1 .. committed[p] : i \in 1 .. Len(requests[p])
                            /\ \A i \in 1 .. position[p] : i \in 1 .. Len(requests[p])
  BY Lengths DEF BusTypes
<1>3. \A v \in Workers : pc[v] \notin Free =>
          /\ message[v].partition \in Partitions
          /\ message[v].offset \in 1 .. Len(requests[message[v].partition])
          /\ \A i \in 1 .. message[v].offset - 1 : i \in 1 .. Len(requests[message[v].partition])
  BY Lengths DEF WorkerTypes, Busy
<1>4. Done \cap Free = {}
  BY DEF Done, Free
<1>5. CommittedIsSettled'
  BY <1>1, <1>2 DEF Handled, CommittedIsSettled, Settled
<1>6. BehindIsSettled'
  BY <1>1, <1>3 DEF Handled, BehindIsSettled, Settled
<1>7. DoneIsSettled'
  BY <1>1, <1>3, <1>4 DEF Handled, DoneIsSettled, Settled
<1>8. FetchedIsSettled'
  <2> SUFFICES ASSUME NEW p \in Partitions, NEW v \in Workers, owner'[p] = v,
                      NEW i \in 1 .. position'[p]
               PROVE  \/ SettledIn(requests', results', deadLetters', p, i)
                      \/ pc'[v] \notin Free /\ message'[v].partition = p /\ message'[v].offset = i
    BY DEF FetchedIsSettled, Settled
  <2>1. CASE position'[p] = committed[p]
    BY <1>1, <1>2, <2>1 DEF Handled, CommittedIsSettled
  <2>2. CASE owner'[p] = owner[p] /\ position'[p] = position[p]
    <3>1. i \in 1 .. Len(requests[p])
      BY <1>2, <2>2
    <3>2. CASE Settled(p, i)
      BY <1>1, <3>1, <3>2
    <3>3. CASE pc[v] \notin Free /\ message[v].partition = p /\ message[v].offset = i
      BY <1>1, <3>1, <3>3 DEF Handled, DoneIsSettled
    <3> QED
      BY <2>2, <3>2, <3>3 DEF Handled, FetchedIsSettled
  <2> QED
    BY <2>1, <2>2
<1> QED
  BY <1>5, <1>6, <1>7, <1>8 DEF Handled

\* An idle worker has settled all it has fetched, and gets the next message.
LEMMA ClaimKeepsHandled ==
    ASSUME SystemTypes, Handled, Grows, NEW w \in Workers, NEW p \in Partitions, Claim(w, p)
    PROVE  Handled'
<1> USE DEF SystemTypes
<1>1. /\ pc[w] = "idle" /\ pc' = [pc EXCEPT ![w] = "claimed"]
      /\ owner[p] = w
      /\ position' = [position EXCEPT ![p] = @ + 1]
      /\ message' = [message EXCEPT ![w] = Fetched(p)]
      /\ UNCHANGED <<requests, committed, owner, results, deadLetters>>
  BY DEF Claim, Goto, Fetch
<1>2. /\ \A v \in Workers : v # w => message'[v] = message[v] /\ pc'[v] = pc[v]
      /\ message'[w].partition = p /\ message'[w].offset = position[p] + 1
      /\ pc'[w] = "claimed"
      /\ position'[p] = position[p] + 1
      /\ \A q \in Partitions : q # p => position'[q] = position[q]
      /\ position[p] \in Nat
      /\ "idle" \in Free /\ "claimed" \notin Free /\ "claimed" \notin Done
  BY <1>1 DEF WorkerTypes, BusTypes, Fetched, Free, Done
<1>3. \A q \in Partitions : \A i : Settled(q, i)' <=> Settled(q, i)
  BY <1>1 DEF Settled
<1>4. \A q \in Partitions : owner[q] = w => \A i \in 1 .. position[q] : Settled(q, i)
  BY <1>1, <1>2 DEF Handled, FetchedIsSettled
<1>5. CommittedIsSettled'
  BY <1>1 DEF Handled, CommittedIsSettled, Settled
<1>6. BehindIsSettled'
  <2> SUFFICES ASSUME NEW v \in Workers, pc'[v] \notin Free, NEW i \in 1 .. message'[v].offset - 1
               PROVE  SettledIn(requests, results, deadLetters, message'[v].partition, i)
    BY <1>1 DEF BehindIsSettled, Settled
  <2>1. CASE v = w
    BY <1>1, <1>2, <1>4, <2>1 DEF Settled
  <2>2. CASE v # w
    BY <1>1, <1>2, <2>2 DEF Handled, BehindIsSettled, Settled
  <2> QED
    BY <2>1, <2>2
<1>7. DoneIsSettled'
  BY <1>1, <1>2 DEF Handled, DoneIsSettled, Settled
<1>8. FetchedIsSettled'
  <2> SUFFICES ASSUME NEW q \in Partitions, NEW v \in Workers, owner[q] = v,
                      NEW i \in 1 .. position'[q]
               PROVE  \/ SettledIn(requests, results, deadLetters, q, i)
                      \/ pc'[v] \notin Free /\ message'[v].partition = q /\ message'[v].offset = i
    BY <1>1 DEF FetchedIsSettled, Settled
  <2>1. CASE v # w
    BY <1>1, <1>2, <2>1 DEF Handled, FetchedIsSettled, Settled
  <2>2. CASE v = w /\ q # p
    BY <1>2, <1>4, <2>2 DEF Settled
  <2>3. CASE v = w /\ q = p
    <3>1. i = position[p] + 1 \/ i \in 1 .. position[p]
      BY <1>2, <2>3
    <3> QED
      BY <1>2, <1>4, <2>3, <3>1 DEF Settled
  <2> QED
    BY <2>1, <2>2, <2>3
<1> QED
  BY <1>5, <1>6, <1>7, <1>8 DEF Handled

\* The message of a worker that has published something for its task.
LEMMA PublishedIsSettled ==
    ASSUME SystemTypes, Grows, NEW w \in Workers, pc[w] \notin Free,
           \/ \E a \in BOOLEAN : PublishResult(Task(w), a)
           \/ PublishDeadLetter(Task(w))
           \/ \E a \in 0 .. MaxAttempts - 1 : PublishRequest(Task(w), a)
    PROVE  SettledIn(requests', results', deadLetters', message[w].partition, message[w].offset)
<1> DEFINE p == message[w].partition
           i == message[w].offset
           t == Task(w)
<1> SUFFICES SettledIn(requests', results', deadLetters', p, i)
  OBVIOUS
<1>1. /\ p \in Partitions /\ i \in 1 .. Len(requests[p]) /\ requests[p][i].task = t
      /\ t \in Tasks /\ p = PartitionOf(t)
  BY BusyWorkers DEF SystemTypes, WorkerTypes, Busy, Task
<1>2. requests'[p][i].task = t
  BY <1>1 DEF Grows
<1>3. Len(requests[p]) \in Nat /\ Len(results) \in Nat
  BY <1>1, Lengths DEF SystemTypes
<1>7. \/ \E a \in BOOLEAN : PublishResult(t, a)
      \/ PublishDeadLetter(t)
      \/ \E a \in 0 .. MaxAttempts - 1 : PublishRequest(t, a)
  OBVIOUS
<1> HIDE DEF p, i, t
<1>4. CASE \E a \in BOOLEAN : PublishResult(t, a)
  <2>1. PICK a \in BOOLEAN : PublishResult(t, a)
    BY <1>4
  <2>2. /\ Len(results') = Len(results) + 1
        /\ results'[Len(results) + 1] = [run |-> "this", task |-> t, accepted |-> a]
    BY <1>1, <2>1, ResultPublished DEF SystemTypes
  <2>3. /\ Len(results) + 1 \in 1 .. Len(results')
        /\ results'[Len(results) + 1].run = "this"
        /\ results'[Len(results) + 1].task = t
    BY <1>3, <2>2
  <2> QED
    BY <1>2, <2>3 DEF SettledIn
<1>5. CASE PublishDeadLetter(t)
  BY <1>2, <1>5 DEF PublishDeadLetter, SettledIn
<1>6. CASE \E a \in 0 .. MaxAttempts - 1 : PublishRequest(t, a)
  <2>1. PICK a \in 0 .. MaxAttempts - 1 : PublishRequest(t, a)
    BY <1>6
  <2>2. /\ Len(requests'[p]) = Len(requests[p]) + 1
        /\ requests'[p][Len(requests[p]) + 1] = [task |-> t, attempt |-> a]
    BY <1>1, <2>1, RequestPublished DEF SystemTypes
  <2>3. /\ Len(requests[p]) + 1 \in i + 1 .. Len(requests'[p])
        /\ requests'[p][Len(requests[p]) + 1].task = t
    BY <1>1, <1>3, <2>2
  <2> QED
    BY <1>2, <2>3 DEF SettledIn
<1> QED
  BY <1>4, <1>5, <1>6, <1>7

\* Each action of a worker passes only messages that are settled.
LEMMA WorkersKeepHandled ==
    ASSUME SystemTypes, Handled, Grows, NEW w \in Workers, WorkerStep(w) \/ WorkerFault(w)
    PROVE  Handled'
<1> USE DEF SystemTypes
<1>1. pc \in [Workers -> Places] /\ (pc[w] \notin Free => /\ Busy(w) /\ Task(w) \in Tasks
                                    /\ message[w].attempt \in 0 .. MaxAttempts - 1)
  BY BusyWorkers DEF WorkerTypes
<1> USE DEF Goto, Free, Done, Unguarded
<1>2. CASE \E p \in Partitions : AssignPartition(w, p)
  BY <1>2, HandledKeeps DEF AssignPartition, Assign, workerVars, BusTypes
<1>3. CASE \E p \in Partitions : LosePartition(w, p)
  BY <1>3, HandledKeeps DEF LosePartition, Revoke, BusTypes
<1>4. CASE \E p \in Partitions : Claim(w, p)
  BY <1>4, ClaimKeepsHandled
<1>5. CASE \/ CheckDuplicate(w) \/ AcquireLock(w) \/ LockTimesOut(w) \/ CreateEnvironment(w)
           \/ ApplyCandidate(w) \/ RunAccepts(w) \/ RunRejects(w) \/ StoreResult(w)
           \/ GuardedCommitFails(w) \/ ReleaseLock(w) \/ BodyRaises(w)
           \/ RestoreAfterFailure(w) \/ RestoreErrorSuppressed(w)
  <2>1. /\ UNCHANGED <<committed, position, owner, message>>
        /\ pc[w] \notin Free
        /\ \E next : pc' = [pc EXCEPT ![w] = next] /\ next \notin Done
               /\ (next \in Free => pc[w] \in Done)
    BY <1>5 DEF CheckDuplicate, AcquireLock, LockTimesOut, CreateEnvironment, ApplyCandidate,
       RunAccepts, RunRejects, StoreResult, GuardedCommitFails, ReleaseLock, BodyRaises,
       RestoreAfterFailure, RestoreErrorSuppressed, busVars
  <2> QED
    BY <1>1, <2>1, HandledKeeps
<1>6. CASE RejectInvalid(w) \/ PublishDuplicate(w) \/ PublishOutcome(w) \/ Requeue(w)
  <2>1. pc[w] \notin Free
    BY <1>6 DEF RejectInvalid, PublishDuplicate, PublishOutcome, Requeue
  <2>2. \/ \E a \in BOOLEAN : PublishResult(Task(w), a)
        \/ PublishDeadLetter(Task(w))
        \/ \E a \in 0 .. MaxAttempts - 1 : PublishRequest(Task(w), a)
    <3>1. CASE RejectInvalid(w)
      BY <3>1 DEF RejectInvalid
    <3>2. CASE PublishDuplicate(w)
      <4>1. (completed[Task(w)] = "accepted") \in BOOLEAN
        OBVIOUS
      <4> QED
        BY <3>2, <4>1 DEF PublishDuplicate
    <3>3. CASE PublishOutcome(w)
      <4>1. (outcome[w] = "accepted") \in BOOLEAN
        OBVIOUS
      <4> QED
        BY <3>3, <4>1 DEF PublishOutcome
    <3>4. CASE Requeue(w)
      <4>1. message[w].attempt + 1 < MaxAttempts => message[w].attempt + 1 \in 0 .. MaxAttempts - 1
        BY <1>1, <2>1
      <4> QED
        BY <3>4, <4>1 DEF Requeue
    <3> QED
      BY <1>6, <3>1, <3>2, <3>3, <3>4
  <2>3. SettledIn(requests', results', deadLetters', message[w].partition, message[w].offset)
    BY <2>1, <2>2, PublishedIsSettled
  <2>4. UNCHANGED <<committed, position, owner>>
    BY <2>2 DEF PublishResult, PublishDeadLetter, PublishRequest
  <2>5. message' = message /\ \E next : pc' = [pc EXCEPT ![w] = next] /\ next \notin Free
    BY <1>6 DEF RejectInvalid, PublishDuplicate, PublishOutcome, Requeue
  <2> QED
    BY <1>1, <2>1, <2>3, <2>4, <2>5, HandledKeeps
<1>7. CASE AcknowledgeDuplicate(w) \/ AcknowledgeTask(w) \/ AcknowledgeRequeued(w)
  <2>1. /\ pc[w] \in Done
        /\ \E next \in {"idle", "releasing"} : pc' = [pc EXCEPT ![w] = next]
        /\ committed' = [committed EXCEPT ![message[w].partition] = message[w].offset]
        /\ UNCHANGED <<position, owner, message>>
    BY <1>7 DEF AcknowledgeDuplicate, AcknowledgeTask, AcknowledgeRequeued, Acknowledge, Commit
  <2>2. pc[w] \notin Free
    BY <2>1
  <2>3. /\ message[w].partition \in Partitions
        /\ message[w].offset \in 1 .. Len(requests[message[w].partition])
        /\ Len(requests[message[w].partition]) \in Nat
    BY <1>1, <2>2, Lengths DEF Busy
  <2>4. \A i \in 1 .. message[w].offset :
            i \in 1 .. Len(requests[message[w].partition]) /\ Settled(message[w].partition, i)
    <3> SUFFICES ASSUME NEW i \in 1 .. message[w].offset
                 PROVE  i \in 1 .. Len(requests[message[w].partition])
                        /\ Settled(message[w].partition, i)
      OBVIOUS
    <3>1. i \in 1 .. message[w].offset - 1 \/ i = message[w].offset
      BY <2>3
    <3> QED
      BY <2>1, <2>2, <2>3, <3>1 DEF Handled, BehindIsSettled, DoneIsSettled
  <2>5. \A p \in Partitions : \/ committed'[p] = committed[p]
                              \/ \A i \in 1 .. committed'[p] :
                                    i \in 1 .. Len(requests[p]) /\ Settled(p, i)
    BY <2>1, <2>3, <2>4 DEF BusTypes
  <2> QED
    BY <1>1, <2>1, <2>2, <2>5, HandledKeeps
<1>8. CASE UnguardedCommitFails(w) \/ WorkerDies(w)
  <2>1. /\ pc[w] \notin Free /\ pc' = [pc EXCEPT ![w] = "dead"]
        /\ owner' = [p \in Partitions |-> IF owner[p] = w THEN NoWorker ELSE owner[p]]
        /\ UNCHANGED <<committed, position, message>>
    BY <1>8 DEF UnguardedCommitFails, WorkerDies, Leave
  <2>2. \A p \in Partitions : owner'[p] # w /\ (owner'[p] = NoWorker \/ owner'[p] = owner[p])
    BY <2>1
  <2> QED
    BY <1>1, <2>1, <2>2, HandledKeeps
<1> QED
  BY <1>2, <1>3, <1>4, <1>5, <1>6, <1>7, <1>8 DEF WorkerStep, WorkerFault

\* No step of the system passes a message that is not settled.
LEMMA HandledStays ==
    ASSUME SystemTypes, Handled, Grows, [SystemNext]_vars
    PROVE  Handled'
<1>1. CASE UNCHANGED <<committed, position, owner, message, pc>>
  BY <1>1, HandledKeeps
<1>2. CASE \E w \in Workers : WorkerStep(w) \/ WorkerFault(w)
  BY <1>2, WorkersKeepHandled
<1>3. \/ UNCHANGED <<committed, position, owner, message, pc>>
      \/ \E w \in Workers : WorkerStep(w) \/ WorkerFault(w)
  BY DEF SystemNext, Dispatch, PublishRequest, DispatchDone, Receive, CoordinatorRaises, VerifySystem,
     WorkersRun, LeaseExpires, vars, busVars, workerVars
<1> QED
  BY <1>1, <1>2, <1>3

\* At the start nothing has been passed.
LEMMA HandledInitially == SystemInit => Handled
BY DEF SystemInit, BusInit, WorkersInit, Handled, CommittedIsSettled, BehindIsSettled,
       DoneIsSettled, FetchedIsSettled, Free, Done

\* No task is lost, through redeliveries, retries, dying workers, expiring
\* leases and moving partitions: until a result or a dead letter of it is
\* published, its last message is beyond the committed offset.
THEOREM NoTaskGetsLost == SystemSpec => []NoTaskIsLost
<1>1. SystemTypes /\ Handled /\ [SystemNext]_vars => (SystemTypes /\ Handled)'
  BY TypesStay, HandledStays
<1>2. SystemTypes /\ Handled => NoTaskIsLost
  <2> SUFFICES ASSUME SystemTypes, Handled, NEW t \in dispatched
               PROVE  ResultsOf(t) # {} \/ t \in deadLetters \/ Pending(t)
    BY DEF NoTaskIsLost
  <2> DEFINE p == PartitionOf(t)
  <2>1. PICK i \in 1 .. Len(requests[p]) :
            /\ requests[p][i].task = t
            /\ \A j \in i + 1 .. Len(requests[p]) : requests[p][j].task # t
    BY DEF SystemTypes, Topic
  <2>2. p \in Partitions
    BY DEF SystemTypes, CoordinatorTypes
  <2>3. committed[p] \in Nat /\ Len(requests[p]) \in Nat
    BY <2>2, Lengths DEF SystemTypes, BusTypes
  <2>4. CASE i \in committed[p] + 1 .. Len(requests[p])
    BY <2>1, <2>2, <2>4 DEF Pending
  <2>5. CASE i \in 1 .. committed[p]
    <3>1. SettledIn(requests, results, deadLetters, p, i)
      BY <2>2, <2>5 DEF Handled, CommittedIsSettled, Settled
    <3> QED
      BY <2>1, <3>1 DEF SettledIn, ResultsOf
  <2> QED
    BY <2>1, <2>3, <2>4, <2>5
<1> QED
  BY TypesInitially, HandledInitially, <1>1, <1>2, PTL DEF SystemSpec

-----------------------------------------------------------------------------
(* One worker at a time, and the ledger, while the group is stable.        *)

\* A worker that stays busy keeps its partition, and one that becomes busy
\* has just fetched from its own.
LEMMA OwnedStays ==
    ASSUME StableGroup, SystemTypes, Owned, [SystemNext]_vars
    PROVE  Owned'
<1> USE DEF SystemTypes
<1>1. /\ pc \in [Workers -> Places] /\ DOMAIN message = Workers
      /\ owner \in [Partitions -> Workers \cup {NoWorker}]
      /\ \A w \in Workers : pc[w] \notin Free =>
            message[w].partition \in Partitions /\ owner[message[w].partition] = w
  BY DEF BusTypes, WorkerTypes, Busy, Owned
<1>2. SUFFICES \A v \in Workers : pc'[v] \notin Free => owner'[message'[v].partition] = v
  BY DEF Owned
<1>3. CASE UNCHANGED <<owner, message, pc>>
  BY <1>1, <1>3
<1>4. ASSUME NEW w \in Workers, WorkerStep(w) \/ WorkerFault(w)
      PROVE  \A v \in Workers : pc'[v] \notin Free => owner'[message'[v].partition] = v
  <2>1. CASE \E p \in Partitions : AssignPartition(w, p)
    BY <1>1, <2>1 DEF AssignPartition, Assign, workerVars
  <2>2. CASE \E p \in Partitions : LosePartition(w, p)
    BY <2>2 DEF LosePartition
  <2>3. CASE \E p \in Partitions : Claim(w, p)
    <3>1. PICK p \in Partitions : Claim(w, p)
      BY <2>3
    <3>2. /\ owner' = owner /\ owner[p] = w
          /\ pc' = [pc EXCEPT ![w] = "claimed"]
          /\ message' = [message EXCEPT ![w] = Fetched(p)]
      BY <3>1 DEF Claim, Goto, Fetch
    <3>3. message'[w].partition = p /\ \A v \in Workers : v # w => message'[v] = message[v] /\ pc'[v] = pc[v]
      BY <1>1, <3>2 DEF Fetched
    <3> QED
      BY <1>1, <3>2, <3>3
  <2>4. CASE UnguardedCommitFails(w) \/ WorkerDies(w)
    BY <1>1, <2>4 DEF UnguardedCommitFails, WorkerDies, Leave, Free
  <2>5. CASE \/ RejectInvalid(w) \/ CheckDuplicate(w) \/ PublishDuplicate(w) \/ AcknowledgeDuplicate(w)
             \/ AcquireLock(w) \/ LockTimesOut(w) \/ CreateEnvironment(w) \/ ApplyCandidate(w)
             \/ RunAccepts(w) \/ RunRejects(w) \/ StoreResult(w) \/ PublishOutcome(w)
             \/ AcknowledgeTask(w) \/ GuardedCommitFails(w) \/ ReleaseLock(w)
             \/ RestoreAfterFailure(w) \/ Requeue(w) \/ AcknowledgeRequeued(w) \/ BodyRaises(w)
             \/ RestoreErrorSuppressed(w)
    <3>1. owner' = owner /\ message' = message
      BY <2>5 DEF RejectInvalid, CheckDuplicate, PublishDuplicate, AcknowledgeDuplicate, AcquireLock,
         LockTimesOut, CreateEnvironment, ApplyCandidate, RunAccepts, RunRejects, StoreResult,
         PublishOutcome, AcknowledgeTask, GuardedCommitFails, ReleaseLock, RestoreAfterFailure, Requeue,
         AcknowledgeRequeued, BodyRaises, RestoreErrorSuppressed, Acknowledge, Commit, PublishResult,
         PublishDeadLetter, PublishRequest, busVars
    <3>2. pc[w] \notin Free /\ \E next : pc' = [pc EXCEPT ![w] = next]
      BY <2>5 DEF RejectInvalid, CheckDuplicate, PublishDuplicate, AcknowledgeDuplicate, AcquireLock,
         LockTimesOut, CreateEnvironment, ApplyCandidate, RunAccepts, RunRejects, StoreResult,
         PublishOutcome, AcknowledgeTask, GuardedCommitFails, ReleaseLock, RestoreAfterFailure, Requeue,
         AcknowledgeRequeued, BodyRaises, RestoreErrorSuppressed, Acknowledge, Goto, Free
    <3> QED
      BY <1>1, <3>1, <3>2
  <2> QED
    BY <1>4, <2>1, <2>2, <2>3, <2>4, <2>5 DEF WorkerStep, WorkerFault
<1> QED
  BY <1>3, <1>4 DEF SystemNext, Dispatch, PublishRequest, DispatchDone, Receive, CoordinatorRaises,
     VerifySystem, WorkersRun, LeaseExpires, vars, busVars, workerVars

\* Busy workers are busy with different tasks.
LEMMA BusyWorkersDiffer ==
    ASSUME StableGroup, SystemTypes, Owned
    PROVE  \A v, w \in Workers : (v # w /\ pc[v] \notin Free /\ pc[w] \notin Free) => Task(v) # Task(w)
BY BusyWorkers DEF SystemTypes, WorkerTypes, Owned

\* At the start no worker is busy.
LEMMA OwnedInitially == SystemInit => Owned
BY DEF SystemInit, WorkersInit, Owned, Free

\* While no live worker loses its partition, a busy worker owns the one its
\* message is from.
THEOREM WorkersOwnPartitions ==
    ASSUME StableGroup PROVE SystemSpec => [](SystemTypes /\ Owned)
<1>1. SystemTypes /\ Owned /\ [SystemNext]_vars => (SystemTypes /\ Owned)'
  BY TypesStay, OwnedStays
<1> QED
  BY TypesInitially, OwnedInitially, <1>1, PTL DEF SystemSpec

\* While no live worker loses its partition, at most one worker changes the
\* policy of a workload at a time: the partition keeps the workers apart, also
\* after the lease of the lock has ended.
THEOREM OneWorkerAtATime ==
    ASSUME StableGroup PROVE SystemSpec => []OneWorkerChangesWorkload
<1>1. SystemTypes /\ Owned => OneWorkerChangesWorkload
  BY BusyWorkersDiffer DEF OneWorkerChangesWorkload, Changing, Free
<1> QED
  BY WorkersOwnPartitions, <1>1, PTL

\* While the group is stable, the message of a busy worker is the last one
\* fetched from its partition, and nothing beyond it is committed.
Current ==
    StableGroup =>
        /\ \A p \in Partitions : committed[p] <= position[p]
        /\ \A w \in Workers : pc[w] \notin Free =>
              message[w].offset = position[message[w].partition]

\* A commit never takes back an earlier one: no message that is done with is
\* delivered again.  acknowledge() does not compare the offset it commits with
\* the committed one.
CommitsAdvance == [][\A p \in Partitions : committed[p] <= committed'[p]]_vars

\* Fetching, committing and assigning keep commits and positions together, and
\* a commit is that of the last message fetched.
LEMMA CurrentStays ==
    ASSUME StableGroup, SystemTypes, Owned, Current, [SystemNext]_vars
    PROVE  Current' /\ \A p \in Partitions : committed[p] <= committed'[p]
<1> USE DEF SystemTypes
<1>1. /\ pc \in [Workers -> Places] /\ DOMAIN message = Workers
      /\ committed \in [Partitions -> Nat] /\ position \in [Partitions -> Nat]
      /\ owner \in [Partitions -> Workers \cup {NoWorker}]
      /\ \A w \in Workers : pc[w] \notin Free =>
            message[w].partition \in Partitions /\ owner[message[w].partition] = w
      /\ \A w \in Workers : pc[w] \notin Free =>
            message[w].offset = position[message[w].partition]
      /\ \A p \in Partitions : committed[p] <= position[p]
  BY DEF BusTypes, WorkerTypes, Busy, Owned, Current
<1>2. SUFFICES /\ \A p \in Partitions : committed'[p] <= position'[p] /\ committed[p] <= committed'[p]
               /\ \A v \in Workers : pc'[v] \notin Free =>
                     message'[v].offset = position'[message'[v].partition]
  BY DEF Current
<1>3. CASE UNCHANGED <<committed, position, message, pc>>
  BY <1>1, <1>3
<1>4. ASSUME NEW w \in Workers, WorkerStep(w) \/ WorkerFault(w)
      PROVE  /\ \A p \in Partitions : committed'[p] <= position'[p] /\ committed[p] <= committed'[p]
             /\ \A v \in Workers : pc'[v] \notin Free =>
                   message'[v].offset = position'[message'[v].partition]
  <2>1. ASSUME NEW p \in Partitions, AssignPartition(w, p)
        PROVE  /\ \A q \in Partitions : committed'[q] <= position'[q] /\ committed[q] <= committed'[q]
               /\ \A v \in Workers : pc'[v] \notin Free =>
                     message'[v].offset = position'[message'[v].partition]
    <3>1. /\ owner[p] = NoWorker /\ position' = [position EXCEPT ![p] = committed[p]]
          /\ UNCHANGED <<committed, pc, message>>
      BY <2>1 DEF AssignPartition, Assign, workerVars
    <3>2. \A v \in Workers : pc[v] \notin Free => message[v].partition # p
      BY <1>1, <3>1, KafkaAssumption
    <3> QED
      BY <1>1, <3>1, <3>2
  <2>2. CASE \E p \in Partitions : LosePartition(w, p)
    BY <2>2 DEF LosePartition
  <2>3. ASSUME NEW p \in Partitions, Claim(w, p)
        PROVE  /\ \A q \in Partitions : committed'[q] <= position'[q] /\ committed[q] <= committed'[q]
               /\ \A v \in Workers : pc'[v] \notin Free =>
                     message'[v].offset = position'[message'[v].partition]
    <3>1. /\ owner[p] = w /\ pc[w] = "idle"
          /\ pc' = [pc EXCEPT ![w] = "claimed"]
          /\ position' = [position EXCEPT ![p] = @ + 1]
          /\ message' = [message EXCEPT ![w] = Fetched(p)]
          /\ committed' = committed
      BY <2>3 DEF Claim, Goto, Fetch
    <3>2. /\ message'[w].partition = p /\ message'[w].offset = position[p] + 1
          /\ \A v \in Workers : v # w => message'[v] = message[v] /\ pc'[v] = pc[v]
      BY <1>1, <3>1 DEF Fetched
    <3>3. /\ position'[p] = position[p] + 1
          /\ \A q \in Partitions : q # p => position'[q] = position[q]
      BY <1>1, <3>1
    <3>4. \A q \in Partitions : committed'[q] <= position'[q] /\ committed[q] <= committed'[q]
      BY <1>1, <3>1, <3>3
    <3>5. ASSUME NEW v \in Workers, v # w, pc'[v] \notin Free
          PROVE  message'[v].offset = position'[message'[v].partition]
      BY <1>1, <3>1, <3>2, <3>3, <3>5
    <3> QED
      BY <3>2, <3>3, <3>4, <3>5
  <2>4. CASE UnguardedCommitFails(w) \/ WorkerDies(w)
    <3>1. /\ UNCHANGED <<committed, position, message>>
          /\ pc' = [pc EXCEPT ![w] = "dead"]
      BY <2>4 DEF UnguardedCommitFails, WorkerDies, Leave
    <3> QED
      BY <1>1, <3>1 DEF Free
  <2>5. CASE \/ RejectInvalid(w) \/ CheckDuplicate(w) \/ PublishDuplicate(w)
             \/ AcquireLock(w) \/ LockTimesOut(w) \/ CreateEnvironment(w) \/ ApplyCandidate(w)
             \/ RunAccepts(w) \/ RunRejects(w) \/ StoreResult(w) \/ PublishOutcome(w)
             \/ GuardedCommitFails(w) \/ ReleaseLock(w)
             \/ RestoreAfterFailure(w) \/ Requeue(w) \/ BodyRaises(w)
             \/ RestoreErrorSuppressed(w)
    <3>1. UNCHANGED <<committed, position, message>>
      BY <2>5 DEF RejectInvalid, CheckDuplicate, PublishDuplicate, AcquireLock,
         LockTimesOut, CreateEnvironment, ApplyCandidate, RunAccepts, RunRejects, StoreResult,
         PublishOutcome, GuardedCommitFails, ReleaseLock, RestoreAfterFailure, Requeue,
         BodyRaises, RestoreErrorSuppressed, PublishResult,
         PublishDeadLetter, PublishRequest, busVars
    <3>2. pc[w] \notin Free /\ \E next : pc' = [pc EXCEPT ![w] = next]
      BY <2>5 DEF RejectInvalid, CheckDuplicate, PublishDuplicate, AcquireLock,
         LockTimesOut, CreateEnvironment, ApplyCandidate, RunAccepts, RunRejects, StoreResult,
         PublishOutcome, GuardedCommitFails, ReleaseLock, RestoreAfterFailure, Requeue,
         BodyRaises, RestoreErrorSuppressed, Goto, Free
    <3>3. \A v \in Workers : pc'[v] \notin Free => pc[v] \notin Free
      BY <1>1, <3>2
    <3> QED
      BY <1>1, <3>1, <3>3
  <2>6. CASE AcknowledgeDuplicate(w) \/ AcknowledgeTask(w) \/ AcknowledgeRequeued(w)
    <3> DEFINE p == message[w].partition
    <3>1. /\ pc[w] \notin Free /\ \E next : pc' = [pc EXCEPT ![w] = next]
          /\ committed' = [committed EXCEPT ![p] = message[w].offset]
          /\ UNCHANGED <<position, message>>
      BY <2>6 DEF AcknowledgeDuplicate, AcknowledgeTask, AcknowledgeRequeued, Acknowledge, Commit,
         Goto, Free
    <3>2. p \in Partitions /\ committed' = [committed EXCEPT ![p] = position[p]]
      BY <1>1, <3>1
    <3>3. \A v \in Workers : pc'[v] \notin Free => pc[v] \notin Free
      BY <1>1, <3>1
    <3> HIDE DEF p
    <3>4. \A q \in Partitions : committed'[q] = position[q] \/ committed'[q] = committed[q]
      BY <1>1, <3>2
    <3>5. \A q \in Partitions : committed[q] \in Nat /\ position[q] \in Nat
      BY <1>1
    <3> QED
      BY <1>1, <3>1, <3>3, <3>4, <3>5
  <2> QED
    BY <1>4, <2>1, <2>2, <2>3, <2>4, <2>5, <2>6 DEF WorkerStep, WorkerFault
<1> QED
  BY <1>3, <1>4 DEF SystemNext, Dispatch, PublishRequest, DispatchDone, Receive, CoordinatorRaises,
     VerifySystem, WorkersRun, LeaseExpires, vars, busVars, workerVars

\* While no live worker loses its partition, commits only advance.  Without that
\* assumption a worker that gets its partition back commits an old offset.
THEOREM CommitsOnlyAdvance ==
    ASSUME StableGroup PROVE SystemSpec => CommitsAdvance
<1>1. SystemInit => Current
  BY DEF SystemInit, BusInit, WorkersInit, Current, Free
<1>2. SystemTypes /\ Owned /\ Current /\ [SystemNext]_vars
        => Current' /\ [\A p \in Partitions : committed[p] <= committed'[p]]_vars
  BY CurrentStays
<1> QED
  BY <1>1, <1>2, WorkersOwnPartitions, PTL DEF SystemSpec, CommitsAdvance

\* What is stored is what has been and what will be published.
LEMMA DeduplicatedStays ==
    ASSUME StableGroup, SystemTypes, Owned, Deduplicated, [SystemNext]_vars
    PROVE  Deduplicated'
<1> USE DEF SystemTypes
<1>1. /\ pc \in [Workers -> Places] /\ DOMAIN message = Workers
      /\ outcome \in [Workers -> {"none", "accepted", "rejected"}]
      /\ completed \in [Tasks -> {"none", "accepted", "rejected"}]
      /\ \A v \in Workers : pc[v] \in {"storing", "publishing"} => outcome[v] # "none"
      /\ \A v \in Workers : pc[v] \notin Free => Task(v) \in Tasks
      /\ Len(results) \in Nat
      /\ \A i \in 1 .. Len(results) : results[i].task \in Tasks
  BY BusyWorkers, Lengths DEF WorkerTypes, Results
<1>2. \A v, w \in Workers : (v # w /\ pc[v] \notin Free /\ pc[w] \notin Free) => Task(v) # Task(w)
  BY BusyWorkersDiffer
<1>3. PublishedIsStored /\ OutcomeIsStored
  BY DEF Deduplicated
<1>4. SUFFICES PublishedIsStored' /\ OutcomeIsStored'
  BY DEF Deduplicated
<1>5. CASE UNCHANGED <<results, completed, pc, message, outcome>>
  BY <1>3, <1>5 DEF PublishedIsStored, OutcomeIsStored, Task
<1>6. ASSUME NEW w \in Workers, WorkerStep(w) \/ WorkerFault(w)
      PROVE  PublishedIsStored' /\ OutcomeIsStored'
  <2> USE DEF Goto, Free
  <2>1. CASE \E p \in Partitions : Claim(w, p)
    <3>1. /\ UNCHANGED <<results, completed, outcome>>
          /\ pc' = [pc EXCEPT ![w] = "claimed"]
          /\ \A v \in Workers : v # w => message'[v] = message[v]
      BY <1>1, <2>1 DEF Claim, Fetch, storeVars
    <3> QED
      BY <1>1, <1>3, <3>1 DEF PublishedIsStored, OutcomeIsStored, Task
  <2>2. CASE \/ RejectInvalid(w) \/ CheckDuplicate(w) \/ AcknowledgeDuplicate(w)
             \/ AcquireLock(w) \/ LockTimesOut(w) \/ CreateEnvironment(w) \/ ApplyCandidate(w)
             \/ RunAccepts(w) \/ RunRejects(w) \/ AcknowledgeTask(w) \/ GuardedCommitFails(w)
             \/ ReleaseLock(w) \/ RestoreAfterFailure(w) \/ Requeue(w) \/ AcknowledgeRequeued(w)
             \/ BodyRaises(w) \/ RestoreErrorSuppressed(w) \/ UnguardedCommitFails(w) \/ WorkerDies(w)
    <3>1. /\ UNCHANGED <<results, completed, message>>
          /\ \A v \in Workers : v # w => outcome'[v] = outcome[v]
      BY <1>1, <2>2 DEF RejectInvalid, CheckDuplicate, AcknowledgeDuplicate, AcquireLock,
         LockTimesOut, CreateEnvironment, ApplyCandidate, RunAccepts, RunRejects, AcknowledgeTask,
         GuardedCommitFails, ReleaseLock, RestoreAfterFailure, Requeue, AcknowledgeRequeued, BodyRaises,
         RestoreErrorSuppressed, UnguardedCommitFails, WorkerDies, Leave, Acknowledge, Commit,
         PublishDeadLetter, PublishRequest, busVars, storeVars
    <3>2. /\ \A v \in Workers : v # w => pc'[v] = pc[v]
          /\ pc'[w] # "publishing"
          /\ pc'[w] \in {"locking", "creating", "applying", "verifying", "storing"} =>
                completed[Task(w)] = "none"
          /\ pc'[w] = "duplicate" => completed[Task(w)] # "none"
      <4>1. pc[w] \in {"locking", "creating", "applying", "verifying"} => completed[Task(w)] = "none"
        BY <1>3 DEF OutcomeIsStored
      <4>2. CASE CheckDuplicate(w)
        BY <1>1, <4>2 DEF CheckDuplicate
      <4>3. CASE ReleaseLock(w)
        BY <1>1, <4>3 DEF ReleaseLock
      <4>4. CASE AcquireLock(w) \/ CreateEnvironment(w) \/ ApplyCandidate(w) \/ RunAccepts(w)
                 \/ RunRejects(w)
        BY <1>1, <4>1, <4>4 DEF AcquireLock, CreateEnvironment, ApplyCandidate, RunAccepts, RunRejects
      <4>5. CASE \/ RejectInvalid(w) \/ AcknowledgeDuplicate(w) \/ LockTimesOut(w)
                 \/ AcknowledgeTask(w) \/ GuardedCommitFails(w)
                 \/ RestoreAfterFailure(w) \/ Requeue(w) \/ AcknowledgeRequeued(w)
                 \/ BodyRaises(w) \/ RestoreErrorSuppressed(w) \/ UnguardedCommitFails(w) \/ WorkerDies(w)
        BY <1>1, <4>5 DEF RejectInvalid, AcknowledgeDuplicate, LockTimesOut, AcknowledgeTask,
           GuardedCommitFails, RestoreAfterFailure, Requeue, AcknowledgeRequeued, BodyRaises,
           RestoreErrorSuppressed, UnguardedCommitFails, WorkerDies, Acknowledge
      <4> QED
        BY <2>2, <4>2, <4>3, <4>4, <4>5
    <3> QED
      BY <1>1, <1>3, <3>1, <3>2 DEF PublishedIsStored, OutcomeIsStored, Task
  <2>3. CASE StoreResult(w)
    <3>1. /\ pc[w] = "storing" /\ completed[Task(w)] = "none" /\ Task(w) \in Tasks
          /\ completed' = [completed EXCEPT ![Task(w)] = outcome[w]]
          /\ pc' = [pc EXCEPT ![w] = "publishing"]
          /\ UNCHANGED <<results, message, outcome>>
      BY <1>1, <1>3, <2>3 DEF StoreResult, OutcomeIsStored, busVars
    <3>2. PublishedIsStored'
      BY <1>1, <1>3, <3>1 DEF PublishedIsStored
    <3>3. \A v \in Workers : v # w => /\ pc'[v] = pc[v]
                                      /\ pc[v] \notin Free => completed'[Task(v)] = completed[Task(v)]
      BY <1>1, <1>2, <3>1
    <3>4. pc'[w] = "publishing" /\ completed'[Task(w)] = outcome[w]
      BY <1>1, <3>1
    <3>5. OutcomeIsStored'
      BY <1>3, <3>1, <3>3, <3>4 DEF OutcomeIsStored, Task
    <3> QED
      BY <3>2, <3>5
  <2>4. CASE PublishDuplicate(w) \/ PublishOutcome(w)
    <3>1. PICK a \in BOOLEAN : /\ PublishResult(Task(w), a)
                               /\ completed[Task(w)] = IF a THEN "accepted" ELSE "rejected"
      <4>1. CASE PublishDuplicate(w)
        <5>1. (completed[Task(w)] = "accepted") \in BOOLEAN
          OBVIOUS
        <5>2. completed[Task(w)] \in {"accepted", "rejected"}
          BY <1>1, <1>3, <4>1 DEF PublishDuplicate, OutcomeIsStored
        <5> QED
          BY <4>1, <5>1, <5>2 DEF PublishDuplicate
      <4>2. CASE PublishOutcome(w)
        <5>1. (outcome[w] = "accepted") \in BOOLEAN
          OBVIOUS
        <5>2. completed[Task(w)] = outcome[w] /\ outcome[w] \in {"accepted", "rejected"}
          BY <1>1, <1>3, <4>2 DEF PublishOutcome, OutcomeIsStored
        <5> QED
          BY <4>2, <5>1, <5>2 DEF PublishOutcome
      <4> QED
        BY <2>4, <4>1, <4>2
    <3>2. Task(w) \in Tasks
      BY <1>1, <2>4 DEF PublishDuplicate, PublishOutcome
    <3>3. /\ Len(results') = Len(results) + 1
          /\ \A i \in 1 .. Len(results) : results'[i] = results[i]
          /\ results'[Len(results) + 1] = [run |-> "this", task |-> Task(w), accepted |-> a]
      BY <3>1, <3>2, ResultPublished
    <3>4. /\ UNCHANGED <<completed, message, outcome>>
          /\ pc' = [pc EXCEPT ![w] = pc'[w]] /\ pc'[w] \in {"duplicate_ack", "acking"}
      BY <1>1, <2>4 DEF PublishDuplicate, PublishOutcome, storeVars
    <3>5. PublishedIsStored'
      <4> SUFFICES ASSUME NEW i \in 1 .. Len(results'), results'[i].run = "this"
                   PROVE  completed[results'[i].task] =
                              IF results'[i].accepted THEN "accepted" ELSE "rejected"
        BY <3>4 DEF PublishedIsStored
      <4>1. i = Len(results) + 1 \/ i \in 1 .. Len(results)
        BY <1>1, <3>3
      <4> QED
        BY <1>3, <3>1, <3>3, <4>1 DEF PublishedIsStored
    <3>6. OutcomeIsStored'
      BY <1>1, <1>3, <3>4 DEF OutcomeIsStored, Task
    <3> QED
      BY <3>5, <3>6
  <2>5. CASE \E p \in Partitions : AssignPartition(w, p) \/ LosePartition(w, p)
    BY <1>5, <2>5 DEF AssignPartition, Assign, LosePartition, workerVars, storeVars
  <2> QED
    BY <1>6, <2>1, <2>2, <2>3, <2>4, <2>5 DEF WorkerStep, WorkerFault
<1> QED
  BY <1>5, <1>6 DEF SystemNext, Dispatch, PublishRequest, DispatchDone, Receive, CoordinatorRaises,
     VerifySystem, WorkersRun, LeaseExpires, vars, busVars, workerVars, storeVars

\* At the start the results are those of earlier runs.
LEMMA DeduplicatedInitially == SystemInit => Deduplicated
<1>1. SystemInit => Len(results) \in Nat /\ \A i \in 1 .. Len(results) : results[i].run = "earlier"
  <2> SUFFICES \A i \in 1 .. Len(EarlierResults) :
                  EarlierResults[i] \in [run : {"earlier"}, task : Tasks, accepted : BOOLEAN]
    BY LenProperties DEF SystemInit, BusInit
  <2> QED
    BY ElementOfSeq
<1> QED
  BY <1>1 DEF SystemInit, WorkersInit, Deduplicated, PublishedIsStored, OutcomeIsStored

\* The deduplication store agrees with all results that have been published
\* and with the one a worker is about to publish.
THEOREM StoreAgreesWithResults ==
    ASSUME StableGroup PROVE SystemSpec => [](SystemTypes /\ Owned /\ Deduplicated)
<1>1. SystemTypes /\ Owned /\ Deduplicated /\ [SystemNext]_vars => (SystemTypes /\ Owned /\ Deduplicated)'
  BY TypesStay, OwnedStays, DeduplicatedStays
<1> QED
  BY TypesInitially, OwnedInitially, DeduplicatedInitially, <1>1, PTL DEF SystemSpec

\* The answers of the ledger.
Answers == [t \in Tasks |-> {results[i].accepted : i \in ResultsOf(t)}]

\* A published result adds its answer.
LEMMA ResultAnswers ==
    ASSUME BusTypes, NEW t \in Tasks, NEW a \in BOOLEAN, PublishResult(t, a)
    PROVE  Answers' = [Answers EXCEPT ![t] = @ \cup {a}]
<1> DEFINE n == Len(results)
<1>1. /\ results' \in Seq(Results)
      /\ Len(results') = n + 1
      /\ \A i \in 1 .. n : results'[i] = results[i]
      /\ results'[n + 1] = [run |-> "this", task |-> t, accepted |-> a]
      /\ \A s : ResultsOf(s)' = IF s = t THEN ResultsOf(s) \cup {n + 1} ELSE ResultsOf(s)
  BY ResultPublished
<1>2. \A s : ResultsOf(s) \subseteq 1 .. n
  BY DEF ResultsOf
<1>3. results'[n + 1].accepted = a
  BY <1>1
<1> HIDE DEF n
<1>4. \A s \in Tasks : Answers'[s] = {results'[i].accepted : i \in ResultsOf(s)'}
                       /\ Answers[s] = {results[i].accepted : i \in ResultsOf(s)}
  BY DEF Answers
<1>5. ASSUME NEW s \in Tasks, s # t PROVE Answers'[s] = Answers[s]
  <2>1. ResultsOf(s)' = ResultsOf(s)
    BY <1>1, <1>5
  <2>2. \A i \in ResultsOf(s) : results'[i] = results[i]
    BY <1>1, <1>2
  <2>3. Answers'[s] = {results'[i].accepted : i \in ResultsOf(s)}
    BY <1>4, <2>1
  <2>4. {results'[i].accepted : i \in ResultsOf(s)} = {results[i].accepted : i \in ResultsOf(s)}
    BY <2>2
  <2> QED
    BY <1>4, <2>3, <2>4
<1>6. Answers'[t] = Answers[t] \cup {a}
  <2>1. ResultsOf(t)' = ResultsOf(t) \cup {n + 1}
    BY <1>1
  <2>2. \A i \in ResultsOf(t) : results'[i] = results[i]
    BY <1>1, <1>2
  <2>3. Answers'[t] = {results'[i].accepted : i \in ResultsOf(t) \cup {n + 1}}
    BY <1>4, <2>1
  <2>4. Answers'[t] = {results'[i].accepted : i \in ResultsOf(t)} \cup {results'[n + 1].accepted}
    BY <2>3
  <2> QED
    BY <1>3, <1>4, <2>2, <2>4
<1> QED
  BY <1>5, <1>6 DEF Answers

\* What a step of the system is to whoever reads the ledger.
LEMMA StepsOfTheLedger ==
    ASSUME StableGroup, SystemTypes, Owned, Deduplicated, [SystemNext]_vars
    PROVE  [Ledger!LedgerNext]_(Ledger!ledgerVars)
<1> USE DEF SystemTypes
<1>1. Answers = [t \in Tasks |-> {results[i].accepted : i \in ResultsOf(t)}]
  BY DEF Answers
<1>2. CASE UNCHANGED <<phase, dispatched, results, deadLetters>>
  BY <1>2 DEF Ledger!ledgerVars, ResultsOf
<1>3. ASSUME NEW t \in Tasks, Dispatch(t) PROVE Ledger!LedgerNext
  <2>1. Ledger!DispatchTask(t)
    BY <1>3 DEF Dispatch, PublishRequest, Ledger!DispatchTask, Ended, Verdicts, ResultsOf
  <2> QED
    BY <2>1 DEF Ledger!LedgerNext
<1>4. CASE DispatchDone \/ Receive
  BY <1>4 DEF DispatchDone, Receive, busVars, Ledger!ledgerVars, Ended, Verdicts, ResultsOf
<1>5. CASE CoordinatorRaises
  <2>1. Ledger!Break
    BY <1>5 DEF CoordinatorRaises, busVars, Ledger!Break, Ended, Verdicts, ResultsOf
  <2> QED
    BY <2>1 DEF Ledger!LedgerNext
<1>11. CASE VerifySystem
  <2>1. Ledger!Complete
    BY <1>11 DEF VerifySystem, busVars, Ledger!Complete, Topic, Ended, Verdicts, ResultsOf
  <2> QED
    BY <2>1 DEF Ledger!LedgerNext
<1>6. ASSUME NEW t \in Tasks, t \in dispatched, phase \notin Ended, PublishDeadLetter(t),
             UNCHANGED coordinatorVars
      PROVE  Ledger!LedgerNext
  <2>1. Ledger!AbandonTask(t)
    BY <1>6 DEF PublishDeadLetter, coordinatorVars, Ledger!AbandonTask, ResultsOf
  <2> QED
    BY <2>1 DEF Ledger!LedgerNext
<1>7. ASSUME NEW t \in Tasks, t \in dispatched, phase \notin Ended, NEW a \in BOOLEAN,
             PublishResult(t, a), UNCHANGED coordinatorVars
      PROVE  [Ledger!LedgerNext]_(Ledger!ledgerVars)
  <2>1. Answers' = [Answers EXCEPT ![t] = @ \cup {a}]
    BY <1>7, ResultAnswers
  <2>2. \A b \in Answers'[t] : b \in BOOLEAN /\ completed'[t] = IF b THEN "accepted" ELSE "rejected"
    <3> SUFFICES ASSUME NEW i \in ResultsOf(t)'
                 PROVE  /\ results'[i].accepted \in BOOLEAN
                        /\ completed'[t] = IF results'[i].accepted THEN "accepted" ELSE "rejected"
      BY DEF Answers
    <3>1. PublishedIsStored' /\ results' \in Seq(Results)
      BY <1>7, DeduplicatedStays, ResultPublished DEF Deduplicated
    <3>2. i \in 1 .. Len(results') /\ results'[i].run = "this" /\ results'[i].task = t
      BY DEF ResultsOf
    <3>3. results'[i] \in Results
      BY <3>1, <3>2, ElementOfSeq
    <3> QED
      BY <3>1, <3>2, <3>3 DEF PublishedIsStored, Results
  <2>3. Answers'[t] = Answers[t] \cup {a} /\ Answers \in [Tasks -> SUBSET {results[i].accepted : i \in 1 .. Len(results)}]
    BY <2>1 DEF Answers, ResultsOf
  <2>4. \A b \in Answers[t] : b = a
    BY <2>2, <2>3
  <2>5. CASE Answers[t] = {}
    BY <1>7, <2>1, <2>3, <2>5 DEF PublishResult, coordinatorVars, Ledger!AnswerTask, Ledger!LedgerNext, Answers
  <2>6. CASE Answers[t] # {}
    <3>1. Answers' = Answers
      <4>1. Answers[t] \cup {a} = Answers[t]
        BY <2>4, <2>6
      <4> QED
        BY <2>1, <4>1 DEF Answers
    <3> QED
      BY <1>7, <3>1 DEF PublishResult, coordinatorVars, Ledger!ledgerVars, Answers
  <2> QED
    BY <2>5, <2>6
<1>8. ASSUME NEW w \in Workers, WorkerStep(w) \/ WorkerFault(w), phase \notin Ended, UNCHANGED coordinatorVars
      PROVE  [Ledger!LedgerNext]_(Ledger!ledgerVars)
  <2>1. pc[w] \notin Free => Task(w) \in Tasks /\ Task(w) \in dispatched
    BY BusyWorkers DEF WorkerTypes
  <2>2. CASE RejectInvalid(w)
    BY <1>6, <1>8, <2>1, <2>2 DEF RejectInvalid, Goto, Free
  <2>3. CASE Requeue(w)
    <3>1. CASE message[w].attempt + 1 < MaxAttempts
      BY <1>2, <1>8, <2>3, <3>1 DEF Requeue, PublishRequest, coordinatorVars
    <3>2. CASE ~(message[w].attempt + 1 < MaxAttempts)
      BY <1>6, <1>8, <2>1, <2>3, <3>2 DEF Requeue, Goto, Free
    <3> QED
      BY <3>1, <3>2
  <2>4. CASE PublishDuplicate(w)
    <3>1. (completed[Task(w)] = "accepted") \in BOOLEAN
      OBVIOUS
    <3> QED
      BY <1>7, <1>8, <2>1, <2>4, <3>1 DEF PublishDuplicate, Goto, Free
  <2>5. CASE PublishOutcome(w)
    <3>1. (outcome[w] = "accepted") \in BOOLEAN
      OBVIOUS
    <3> QED
      BY <1>7, <1>8, <2>1, <2>5, <3>1 DEF PublishOutcome, Goto, Free
  <2>6. CASE ~(RejectInvalid(w) \/ Requeue(w) \/ PublishDuplicate(w) \/ PublishOutcome(w))
    <3>1. UNCHANGED <<results, deadLetters>>
      BY <1>8, <2>6 DEF WorkerStep, WorkerFault, AssignPartition, Assign, LosePartition, Revoke, Claim,
         Fetch, CheckDuplicate, AcknowledgeDuplicate, AcquireLock, LockTimesOut, CreateEnvironment,
         ApplyCandidate, RunAccepts, RunRejects, StoreResult, AcknowledgeTask, GuardedCommitFails,
         ReleaseLock, RestoreAfterFailure, AcknowledgeRequeued, UnguardedCommitFails, WorkerDies,
         BodyRaises, RestoreErrorSuppressed, Acknowledge, Commit, Leave, busVars
    <3> QED
      BY <1>2, <1>8, <3>1 DEF coordinatorVars
  <2> QED
    BY <2>2, <2>3, <2>4, <2>5, <2>6
<1>9. CASE WorkersRun
  <2>1. CASE \E t \in Tasks : LeaseExpires(t)
    BY <1>2, <1>9, <2>1 DEF WorkersRun, LeaseExpires, busVars, coordinatorVars
  <2> QED
    BY <1>8, <1>9, <2>1 DEF WorkersRun
<1>10. CASE UNCHANGED vars
  BY <1>2, <1>10 DEF vars, busVars, coordinatorVars
<1> QED
  BY <1>3, <1>4, <1>5, <1>9, <1>10, <1>11 DEF SystemNext

\* At the start the ledger is empty: earlier results do not count.
LEMMA LedgerInitially == SystemInit => Ledger!LedgerInit
<1> SUFFICES ASSUME SystemInit PROVE Ledger!LedgerInit
  OBVIOUS
<1>1. \A i \in 1 .. Len(results) : results[i].run = "earlier"
  <2> SUFFICES \A i \in 1 .. Len(EarlierResults) :
                  EarlierResults[i] \in [run : {"earlier"}, task : Tasks, accepted : BOOLEAN]
    BY DEF SystemInit, BusInit
  <2> QED
    BY ElementOfSeq
<1>2. \A t \in Tasks : ResultsOf(t) = {}
  BY <1>1 DEF ResultsOf
<1> QED
  BY <1>2 DEF SystemInit, BusInit, Ledger!LedgerInit, Ended, Verdicts

\* While no live worker loses its partition, bus, workers, stores and
\* coordinator implement TaskLedger: only dispatched tasks are answered or
\* abandoned, never with two different answers, and only until the
\* coordinator ends.
THEOREM SystemImplementsLedger ==
    ASSUME StableGroup PROVE SystemSpec => ImplementsLedger
<1>1. SystemTypes /\ Owned /\ Deduplicated /\ [SystemNext]_vars => [Ledger!LedgerNext]_(Ledger!ledgerVars)
  BY StepsOfTheLedger
<1> QED
  BY StoreAgreesWithResults, LedgerInitially, <1>1, PTL DEF SystemSpec, ImplementsLedger, Ledger!LedgerSpec

\* What a reader of the result topic can rely on: results of the run are of
\* dispatched tasks, and two results of a task say the same.
ResultsAgree ==
    \A i, j \in 1 .. Len(results) :
        (results[i].run = "this" /\ results[j].run = "this" /\ results[i].task = results[j].task)
            => /\ results[i].task \in dispatched
               /\ results[i].accepted = results[j].accepted

\* However often a task is delivered, retried and answered, its answers agree.
\* This holds of TaskLedger, and so of the system that implements it.
THEOREM AnswersAgree ==
    ASSUME StableGroup PROVE SystemSpec => []ResultsAgree
<1> DEFINE Agreed == /\ \A t \in Tasks : Answers[t] # {} => t \in dispatched
                     /\ \A t \in Tasks : \A a, b \in Answers[t] : a = b
<1>1. Answers = [t \in Tasks |-> {results[i].accepted : i \in ResultsOf(t)}]
  BY DEF Answers
<1>2. Ledger!LedgerInit => Agreed
  BY <1>1 DEF Ledger!LedgerInit
<1>3. Agreed /\ [Ledger!LedgerNext]_(Ledger!ledgerVars) => Agreed'
  <2> SUFFICES ASSUME Agreed, [Ledger!LedgerNext]_(Ledger!ledgerVars) PROVE Agreed'
    OBVIOUS
  <2>0. Answers' = [t \in Tasks |-> {results'[i].accepted : i \in ResultsOf(t)'}]
    BY DEF Answers
  <2>1. ASSUME NEW t \in Tasks, Ledger!DispatchTask(t) \/ Ledger!AbandonTask(t) PROVE Agreed'
    BY <1>1, <2>0, <2>1 DEF Ledger!DispatchTask, Ledger!AbandonTask
  <2>2. ASSUME NEW t \in Tasks, NEW a \in BOOLEAN, Ledger!AnswerTask(t, a) PROVE Agreed'
    <3>1. /\ t \in dispatched /\ dispatched' = dispatched
          /\ Answers' = [Answers EXCEPT ![t] = {a}]
      BY <1>1, <2>0, <2>2 DEF Ledger!AnswerTask
    <3>2. /\ Answers'[t] = {a}
          /\ \A s \in Tasks : s # t => Answers'[s] = Answers[s]
      BY <1>1, <3>1
    <3> QED
      BY <3>1, <3>2
  <2>3. CASE Ledger!Complete \/ Ledger!Break
    BY <1>1, <2>0, <2>3 DEF Ledger!Complete, Ledger!Break
  <2>4. CASE UNCHANGED Ledger!ledgerVars
    BY <1>1, <2>0, <2>4 DEF Ledger!ledgerVars
  <2> QED
    BY <2>1, <2>2, <2>3, <2>4 DEF Ledger!LedgerNext
<1>4. SystemTypes /\ Agreed => ResultsAgree
  <2> SUFFICES ASSUME SystemTypes, Agreed, NEW i \in 1 .. Len(results), NEW j \in 1 .. Len(results),
                      results[i].run = "this", results[j].run = "this",
                      results[i].task = results[j].task
               PROVE  results[i].task \in dispatched /\ results[i].accepted = results[j].accepted
    BY DEF ResultsAgree
  <2>1. results[i].task \in Tasks
    <3>1. results \in Seq(Results)
      BY DEF SystemTypes, BusTypes
    <3>2. results[i] \in Results
      BY <3>1, ElementOfSeq
    <3> QED
      BY <3>2 DEF Results
  <2>2. i \in ResultsOf(results[i].task) /\ j \in ResultsOf(results[i].task)
    BY DEF ResultsOf
  <2>3. /\ results[i].accepted \in Answers[results[i].task]
        /\ results[j].accepted \in Answers[results[i].task]
    BY <1>1, <2>1, <2>2
  <2> QED
    BY <2>1, <2>3
<1> QED
  BY <1>2, <1>3, <1>4, SystemImplementsLedger, StoreAgreesWithResults, PTL
     DEF ImplementsLedger, Ledger!LedgerSpec

-----------------------------------------------------------------------------
(* The report of a run without faults.                                     *)

\* A step of a worker on its own task leaves the other tasks and the other
\* workers alone.
LEMMA OthersWorkWell ==
    ASSUME SystemTypes, DeliveredOnce, \A v \in Workers : WorksWell(v),
           NEW w \in Workers, pc[w] \notin Free,
           UNCHANGED <<requests, position, owner, message, dispatched>>,
           \A p \in Partitions : p # message[w].partition => committed'[p] = committed[p],
           \A v \in Workers : v # w => pc'[v] = pc[v] /\ outcome'[v] = outcome[v],
           \A t \in Tasks : t # Task(w) =>
               /\ completed'[t] = completed[t] /\ lock'[t] = lock[t] /\ live'[t] = live[t]
               /\ Unanswered(results', t) = Unanswered(results, t)
    PROVE  DeliveredOnce' /\ \A v \in Workers : v # w => WorksWell(v)'
<1> USE DEF SystemTypes
<1>1. \A v \in Workers : pc[v] \notin Free =>
          /\ Task(v) \in dispatched /\ Task(v) \in Tasks
          /\ message[v].partition = PartitionOf(Task(v)) /\ message[v].partition \in Partitions
          /\ message[v].offset \in 1 .. Len(requests[message[v].partition])
          /\ requests[message[v].partition][message[v].offset].task = Task(v)
          /\ owner[message[v].partition] = v /\ position[message[v].partition] = message[v].offset
  BY BusyWorkers DEF WorkerTypes, WorksWell, Free, Busy, Task
<1>2. \A v \in Workers : (v # w /\ pc[v] \notin Free) => Task(v) # Task(w)
  BY <1>1
<1>3. \A p \in Partitions : Len(requests[p]) \in Nat /\ position[p] \in Nat
  BY Lengths DEF BusTypes
<1>4. \A t \in Tasks : t # Task(w) =>
          Untouched(completed', lock', results', t) = Untouched(completed, lock, results, t)
  BY DEF Untouched
<1>5. DeliveredOnce'
  <2>1. ASSUME NEW p \in Partitions, NEW i \in position[p] + 1 .. Len(requests[p])
        PROVE  requests[p][i].task \in Tasks /\ requests[p][i].task # Task(w)
    <3>1. i \in 1 .. Len(requests[p])
      BY <1>3
    <3>2. requests[p][i].task \in Tasks /\ PartitionOf(requests[p][i].task) = p
      BY <3>1, Lengths DEF Topic, Requests
    <3>3. ASSUME requests[p][i].task = Task(w) PROVE FALSE
      <4>1. p = message[w].partition /\ position[p] = message[w].offset
            /\ message[w].offset \in 1 .. Len(requests[p])
            /\ requests[p][message[w].offset].task = requests[p][i].task
        BY <1>1, <3>2, <3>3
      <4>2. i = message[w].offset
        BY <3>1, <4>1 DEF DeliveredOnce
      <4> QED
        BY <1>3, <4>1, <4>2
    <3> QED
      BY <3>2, <3>3
  <2>2. \A p \in Partitions : owner[p] = NoWorker => committed'[p] = committed[p]
    BY <1>1
  <2> QED
    BY <1>1, <1>4, <2>1, <2>2 DEF DeliveredOnce
<1>6. ASSUME NEW v \in Workers, v # w PROVE WorksWell(v)'
  <2>1. CASE pc[v] \in Free
    BY <1>6, <2>1 DEF WorksWell, Free
  <2>2. CASE pc[v] \notin Free
    <3>1. /\ completed'[Task(v)] = completed[Task(v)] /\ lock'[Task(v)] = lock[Task(v)]
          /\ live'[Task(v)] = live[Task(v)]
          /\ Unanswered(results', Task(v)) = Unanswered(results, Task(v))
          /\ Untouched(completed', lock', results', Task(v)) = Untouched(completed, lock, results, Task(v))
      BY <1>1, <1>2, <1>4, <1>6, <2>2
    <3> QED
      BY <1>6, <3>1 DEF WorksWell, Task
  <2> QED
    BY <2>1, <2>2
<1> QED
  BY <1>5, <1>6

\* A published result answers its task only.
LEMMA ResultAnswersTask ==
    ASSUME BusTypes, NEW t \in Tasks, NEW a \in BOOLEAN, PublishResult(t, a)
    PROVE  /\ \A s : s # t => Unanswered(results', s) = Unanswered(results, s)
           /\ (AnsweredOnce /\ Unanswered(results, t) /\ live' = live /\ (a => live[t] = "candidate"))
                  => AnsweredOnce'
<1>1. /\ Len(results') = Len(results) + 1
      /\ \A i \in 1 .. Len(results) : results'[i] = results[i]
      /\ results'[Len(results) + 1] = [run |-> "this", task |-> t, accepted |-> a]
      /\ Len(results) \in Nat
  BY ResultPublished, Lengths
<1>2. \A i : i \in 1 .. Len(results') <=> (i \in 1 .. Len(results) \/ i = Len(results) + 1)
  BY <1>1
<1>3. results'[Len(results) + 1].run = "this" /\ results'[Len(results) + 1].task = t
      /\ results'[Len(results) + 1].accepted = a
  BY <1>1
<1>4. ASSUME NEW s, s # t PROVE Unanswered(results', s) = Unanswered(results, s)
  BY <1>1, <1>2, <1>3, <1>4 DEF Unanswered
<1>5. ASSUME AnsweredOnce, Unanswered(results, t), live' = live, a => live[t] = "candidate"
      PROVE  AnsweredOnce'
  <2>1. ASSUME NEW i \in 1 .. Len(results'), NEW j \in 1 .. Len(results'),
               results'[i].run = "this", results'[j].run = "this",
               results'[i].task = results'[j].task
        PROVE  i = j
    BY <1>1, <1>2, <1>3, <1>5, <2>1 DEF AnsweredOnce, Unanswered
  <2>2. ASSUME NEW i \in 1 .. Len(results'), results'[i].run = "this", results'[i].accepted
        PROVE  live[results'[i].task] = "candidate"
    BY <1>1, <1>2, <1>3, <1>5, <2>2 DEF AnsweredOnce
  <2> QED
    BY <1>5, <2>1, <2>2 DEF AnsweredOnce
<1> QED
  BY <1>4, <1>5

\* A worker that is given a message is the first to work on its task.
LEMMA ClaimedIsUntouched ==
    ASSUME SystemTypes, DeliveredOnce, \A v \in Workers : WorksWell(v), AnsweredOnce,
           UNCHANGED dispatched,
           NEW w \in Workers, NEW p \in Partitions, Claim(w, p)
    PROVE  DeliveredOnce' /\ (\A v \in Workers : WorksWell(v)') /\ AnsweredOnce'
<1> USE DEF SystemTypes
<1>1. /\ pc[w] = "idle" /\ pc' = [pc EXCEPT ![w] = "claimed"]
      /\ owner[p] = w /\ position[p] < Len(requests[p])
      /\ position' = [position EXCEPT ![p] = @ + 1]
      /\ message' = [message EXCEPT ![w] = Fetched(p)]
      /\ UNCHANGED <<requests, committed, owner, results, completed, lock, live, outcome>>
  BY DEF Claim, Goto, Fetch, storeVars
<1>2. /\ \A v \in Workers : v # w => message'[v] = message[v] /\ pc'[v] = pc[v]
      /\ message'[w].partition = p /\ message'[w].offset = position[p] + 1
      /\ message'[w].task = requests[p][position[p] + 1].task
      /\ pc'[w] = "claimed"
      /\ position'[p] = position[p] + 1
      /\ \A q \in Partitions : q # p => position'[q] = position[q]
      /\ position[p] \in Nat /\ Len(requests[p]) \in Nat /\ p \in Partitions /\ w # NoWorker
  BY <1>1, Lengths DEF WorkerTypes, BusTypes, Fetched
<1>3. DeliveredOnce'
  <2>1. \A q \in Partitions : owner'[q] = NoWorker => position'[q] = committed'[q]
    BY <1>1, <1>2 DEF DeliveredOnce
  <2>2. ASSUME NEW q \in Partitions, NEW i \in position'[q] + 1 .. Len(requests[q])
        PROVE  i \in position[q] + 1 .. Len(requests[q])
    BY <1>2
  <2>3. UNCHANGED <<requests, completed, lock, results, dispatched>>
    BY <1>1
  <2> QED
    BY <2>1, <2>2, <2>3 DEF DeliveredOnce
<1>4. Untouched(completed, lock, results, message'[w].task)
  BY <1>1, <1>2 DEF DeliveredOnce
<1>5. WorksWell(w)'
  BY <1>1, <1>2, <1>4 DEF WorksWell
<1>6. ASSUME NEW v \in Workers, v # w PROVE WorksWell(v)'
  <2>1. pc[v] # "idle" => message[v].partition \in Partitions /\ message[v].partition # p
    BY <1>1, <1>6 DEF WorksWell, WorkerTypes, Busy, Free
  <2> QED
    BY <1>1, <1>2, <1>6, <2>1 DEF WorksWell
<1>7. AnsweredOnce'
  BY <1>1 DEF AnsweredOnce
<1> QED
  BY <1>3, <1>5, <1>6, <1>7

\* Without faults every step of a worker is one of a run that works.
LEMMA WorkersWorkWell ==
    ASSUME SystemTypes, DeliveredOnce, \A v \in Workers : WorksWell(v), AnsweredOnce,
           UNCHANGED dispatched, NEW w \in Workers, WorkerStep(w)
    PROVE  DeliveredOnce' /\ (\A v \in Workers : WorksWell(v)') /\ AnsweredOnce'
<1> USE DEF SystemTypes
<1>1. /\ pc \in [Workers -> Places] /\ lock \in [Tasks -> Workers \cup {NoWorker}]
      /\ completed \in [Tasks -> {"none", "accepted", "rejected"}]
      /\ live \in [Tasks -> {"original", "candidate"}]
      /\ outcome \in [Workers -> {"none", "accepted", "rejected"}]
      /\ committed \in [Partitions -> Nat] /\ owner \in [Partitions -> Workers \cup {NoWorker}]
      /\ w # NoWorker
      /\ pc[w] \notin Free => /\ Task(w) \in Tasks /\ message[w].partition \in Partitions
                              /\ Len(requests[message[w].partition]) \in Nat
      /\ \A i \in 1 .. Len(results) : results[i].task \in Tasks
  BY BusyWorkers, Lengths DEF WorkerTypes, BusTypes, Results
<1>2. WorksWell(w) /\ Task(w) = message[w].task
  BY DEF Task
<1>3. CASE \E p \in Partitions : AssignPartition(w, p)
  <2>1. PICK p \in Partitions : AssignPartition(w, p)
    BY <1>3
  <2>2. /\ owner[p] = NoWorker /\ owner' = [owner EXCEPT ![p] = w]
        /\ position' = [position EXCEPT ![p] = committed[p]]
        /\ UNCHANGED <<requests, committed, results, workerVars>>
    BY <2>1 DEF AssignPartition, Assign
  <2>3. position' = position
    BY <2>2 DEF DeliveredOnce, BusTypes
  <2>4. DeliveredOnce'
    BY <1>1, <2>2, <2>3 DEF DeliveredOnce, workerVars, storeVars
  <2>5. ASSUME NEW v \in Workers PROVE WorksWell(v)'
    <3>1. pc[v] # "idle" => message[v].partition \in Partitions /\ message[v].partition # p
      BY <2>2 DEF WorksWell, WorkerTypes, Busy, Free
    <3> QED
      BY <1>1, <2>2, <2>3, <3>1 DEF WorksWell, workerVars, storeVars
  <2> QED
    BY <2>2, <2>4, <2>5 DEF AnsweredOnce, workerVars, storeVars
<1>4. CASE \E p \in Partitions : Claim(w, p)
  BY <1>4, ClaimedIsUntouched
<1>5. ~(\/ PublishDuplicate(w) \/ AcknowledgeDuplicate(w) \/ LockTimesOut(w) \/ GuardedCommitFails(w)
        \/ RestoreAfterFailure(w) \/ Requeue(w) \/ UnguardedCommitFails(w))
  BY <1>2 DEF PublishDuplicate, AcknowledgeDuplicate, LockTimesOut, GuardedCommitFails,
     RestoreAfterFailure, Requeue, UnguardedCommitFails, Acknowledge, CanCommit, Goto, WorksWell, Untouched
<1>6. ASSUME pc[w] \notin Free,
             UNCHANGED <<requests, position, owner, message>>,
             \A p \in Partitions : p # message[w].partition => committed'[p] = committed[p],
             \A v \in Workers : v # w => pc'[v] = pc[v] /\ outcome'[v] = outcome[v],
             \A t \in Tasks : t # Task(w) =>
                 /\ completed'[t] = completed[t] /\ lock'[t] = lock[t] /\ live'[t] = live[t]
                 /\ Unanswered(results', t) = Unanswered(results, t),
             WorksWell(w)', AnsweredOnce'
      PROVE  DeliveredOnce' /\ (\A v \in Workers : WorksWell(v)') /\ AnsweredOnce'
  BY <1>6, OthersWorkWell
<1> USE DEF Goto, Free
<1>7. CASE RejectInvalid(w) \/ CheckDuplicate(w)
  <2>1. /\ UNCHANGED <<requests, position, owner, message, committed, results, outcome, completed, lock, live>>
        /\ pc[w] = "claimed" /\ pc' = [pc EXCEPT ![w] = pc'[w]] /\ pc'[w] \in {"requeue_ack", "locking"}
    BY <1>1, <1>2, <1>7 DEF RejectInvalid, CheckDuplicate, PublishDeadLetter, busVars, storeVars, WorksWell, Untouched
  <2>2. WorksWell(w)'
    BY <1>1, <1>2, <2>1 DEF WorksWell
  <2>3. AnsweredOnce'
    BY <2>1 DEF AnsweredOnce
  <2> QED
    BY <1>1, <1>6, <2>1, <2>2, <2>3
<1>8. CASE AcquireLock(w)
  <2>1. /\ UNCHANGED <<requests, position, owner, message, committed, results, outcome, completed, live>>
        /\ pc[w] = "locking" /\ pc' = [pc EXCEPT ![w] = "creating"]
        /\ lock' = [lock EXCEPT ![Task(w)] = w]
    BY <1>8 DEF AcquireLock, busVars
  <2>2. WorksWell(w)'
    BY <1>1, <1>2, <2>1 DEF WorksWell, Untouched
  <2>3. AnsweredOnce'
    BY <2>1 DEF AnsweredOnce
  <2> QED
    BY <1>1, <1>6, <2>1, <2>2, <2>3
<1>9. CASE CreateEnvironment(w) \/ RunAccepts(w)
  <2>1. /\ UNCHANGED <<requests, position, owner, message, committed, results, completed, lock, live>>
        /\ \A v \in Workers : v # w => pc'[v] = pc[v] /\ outcome'[v] = outcome[v]
        /\ \/ pc[w] = "creating" /\ pc'[w] = "applying"
           \/ pc[w] = "verifying" /\ pc'[w] = "storing"
    BY <1>1, <1>9 DEF CreateEnvironment, RunAccepts, busVars, storeVars
  <2>2. WorksWell(w)'
    BY <1>1, <1>2, <2>1 DEF WorksWell
  <2>3. AnsweredOnce'
    BY <2>1 DEF AnsweredOnce
  <2>4. pc[w] \notin {"idle", "dead"}
    BY <2>1
  <2> QED
    BY <1>6, <2>1, <2>2, <2>3, <2>4
<1>10. CASE ApplyCandidate(w) \/ RunRejects(w)
  <2>1. /\ UNCHANGED <<requests, position, owner, message, committed, results, completed, lock>>
        /\ pc[w] \in {"applying", "verifying"}
        /\ \A v \in Workers : v # w => pc'[v] = pc[v] /\ outcome'[v] = outcome[v]
        /\ \A t \in Tasks : t # Task(w) => live'[t] = live[t]
        /\ \/ pc'[w] = "verifying" /\ live'[Task(w)] = "candidate"
           \/ pc'[w] = "storing" /\ outcome'[w] = "rejected"
    BY <1>1, <1>10 DEF ApplyCandidate, RunRejects, busVars
  <2>2. WorksWell(w)'
    BY <1>1, <1>2, <2>1 DEF WorksWell
  <2>3. AnsweredOnce'
    BY <1>1, <1>2, <2>1 DEF WorksWell, AnsweredOnce, Unanswered
  <2> QED
    BY <1>6, <2>1, <2>2, <2>3
<1>11. CASE StoreResult(w)
  <2>1. /\ UNCHANGED <<requests, position, owner, message, committed, results, outcome, lock, live>>
        /\ pc[w] = "storing" /\ pc' = [pc EXCEPT ![w] = "publishing"]
        /\ \A t \in Tasks : t # Task(w) => completed'[t] = completed[t]
    BY <1>1, <1>11 DEF StoreResult, busVars
  <2>2. WorksWell(w)'
    BY <1>1, <1>2, <2>1 DEF WorksWell
  <2>3. AnsweredOnce'
    BY <2>1 DEF AnsweredOnce
  <2> QED
    BY <1>1, <1>6, <2>1, <2>2, <2>3
<1>12. CASE PublishOutcome(w)
  <2>1. (outcome[w] = "accepted") \in BOOLEAN
    OBVIOUS
  <2>2. /\ pc[w] = "publishing" /\ pc' = [pc EXCEPT ![w] = "acking"]
        /\ PublishResult(Task(w), outcome[w] = "accepted")
        /\ UNCHANGED <<requests, position, owner, message, committed, outcome, completed, lock, live>>
    BY <1>12 DEF PublishOutcome, PublishResult, storeVars
  <2>3. \A s : s # Task(w) => Unanswered(results', s) = Unanswered(results, s)
    BY <1>1, <2>1, <2>2, ResultAnswersTask
  <2>4. Unanswered(results, Task(w)) /\ ((outcome[w] = "accepted") => live[Task(w)] = "candidate")
    BY <1>2, <2>2 DEF WorksWell
  <2>5. AnsweredOnce'
    BY <1>1, <2>1, <2>2, <2>4, ResultAnswersTask
  <2>6. WorksWell(w)'
    BY <1>1, <1>2, <2>2 DEF WorksWell
  <2> QED
    BY <1>1, <1>6, <2>2, <2>3, <2>5, <2>6
<1>13. CASE AcknowledgeTask(w) \/ AcknowledgeRequeued(w)
  <2>1. /\ UNCHANGED <<requests, position, owner, message, results, outcome, completed, lock, live>>
        /\ pc[w] \in {"acking", "requeue_ack"}
        /\ pc' = [pc EXCEPT ![w] = IF pc[w] = "acking" THEN "releasing" ELSE "idle"]
        /\ committed' = [committed EXCEPT ![message[w].partition] = message[w].offset]
    BY <1>13 DEF AcknowledgeTask, AcknowledgeRequeued, Acknowledge, Commit, storeVars
  <2>2. WorksWell(w)'
    BY <1>1, <1>2, <2>1 DEF WorksWell
  <2>3. AnsweredOnce'
    BY <2>1 DEF AnsweredOnce
  <2> QED
    BY <1>1, <1>6, <2>1, <2>2, <2>3
<1>14. CASE ReleaseLock(w)
  <2>1. /\ UNCHANGED <<requests, position, owner, message, committed, results, outcome, completed, live>>
        /\ pc[w] = "releasing" /\ pc'[w] = "idle"
        /\ \A v \in Workers : v # w => pc'[v] = pc[v]
        /\ \A t \in Tasks : t # Task(w) => lock'[t] = lock[t]
    BY <1>1, <1>2, <1>14 DEF ReleaseLock, Released, busVars, WorksWell
  <2>2. WorksWell(w)'
    BY <1>1, <1>2, <2>1 DEF WorksWell
  <2>3. AnsweredOnce'
    BY <2>1 DEF AnsweredOnce
  <2> QED
    BY <1>1, <1>6, <2>1, <2>2, <2>3
<1> QED
  BY <1>3, <1>4, <1>5, <1>7, <1>8, <1>9, <1>10, <1>11, <1>12, <1>13, <1>14 DEF WorkerStep

\* A task that is dispatched is untouched, and its message is the only one.
LEMMA DispatchedIsUntouched ==
    ASSUME SystemTypes, DeliveredOnce, NEW t \in Tasks, Dispatch(t)
    PROVE  DeliveredOnce'
<1> USE DEF SystemTypes
<1> DEFINE P == PartitionOf(t)
           n == Len(requests[P])
<1>1. /\ t \notin dispatched /\ dispatched' = dispatched \cup {t}
      /\ UNCHANGED <<lock, completed>>
      /\ PublishRequest(t, 0) /\ 0 \in 0 .. MaxAttempts - 1
  BY DEF Dispatch, workerVars, storeVars
<1>2. /\ \A p \in Partitions : p # P => requests'[p] = requests[p]
      /\ Len(requests'[P]) = n + 1
      /\ \A i \in 1 .. n : requests'[P][i] = requests[P][i]
      /\ requests'[P][n + 1] = [task |-> t, attempt |-> 0]
      /\ UNCHANGED <<committed, position, owner, results>>
  BY <1>1, RequestPublished
<1>3. P \in Partitions /\ n \in Nat /\ \A p \in Partitions : position[p] \in Nat
  BY Lengths DEF BusTypes
<1>4. \A i \in 1 .. n : requests[P][i].task # t
  BY <1>1, <1>3 DEF Topic
<1>5. requests'[P][n + 1].task = t
  BY <1>2
<1> HIDE DEF n, P
<1>6. ASSUME NEW i \in 1 .. Len(requests'[P])
      PROVE  (i \in 1 .. n /\ requests'[P][i] = requests[P][i]) \/ i = n + 1
  BY <1>2, <1>3
<1>7. ASSUME NEW p \in Partitions, NEW i \in 1 .. Len(requests'[p]), NEW j \in 1 .. Len(requests'[p]),
             requests'[p][i].task = requests'[p][j].task
      PROVE  i = j
  <2>1. CASE p # P
    BY <1>2, <1>7, <2>1 DEF DeliveredOnce
  <2>2. CASE p = P
    BY <1>3, <1>4, <1>5, <1>6, <1>7, <2>2 DEF DeliveredOnce, n
  <2> QED
    BY <2>1, <2>2
<1>8. ASSUME NEW p \in Partitions, NEW i \in position[p] + 1 .. Len(requests'[p])
      PROVE  Untouched(completed, lock, results, requests'[p][i].task)
  <2>1. CASE p # P
    BY <1>2, <2>1 DEF DeliveredOnce
  <2>2. CASE p = P /\ i = n + 1
    BY <1>1, <1>5, <2>2 DEF DeliveredOnce
  <2>3. CASE p = P /\ i # n + 1
    <3>1. i \in position[p] + 1 .. Len(requests[p]) /\ requests'[p][i] = requests[p][i]
      BY <1>2, <1>3, <2>3 DEF n
    <3> QED
      BY <3>1 DEF DeliveredOnce
  <2> QED
    BY <2>1, <2>2, <2>3
<1> QED
  BY <1>1, <1>2, <1>7, <1>8 DEF DeliveredOnce

\* A run without faults stays one that works, whatever the group.
LEMMA FaultFreeStays ==
    ASSUME SystemTypes, FaultFree, [SystemNext]_vars
    PROVE  FaultFree'
<1> SUFFICES ASSUME faults' = 0
             PROVE  DeliveredOnce' /\ (\A w \in Workers : WorksWell(w)') /\ AnsweredOnce'
  BY DEF FaultFree
<1>1. faults \in Nat /\ faults + 1 # 0
  BY DEF SystemTypes, WorkerTypes
<1>2. faults = 0 \/ faults' = faults + 1
  BY DEF SystemNext, Dispatch, DispatchDone, Receive, CoordinatorRaises, VerifySystem, WorkersRun, LeaseExpires,
     vars, workerVars, Fault, WorkerStep, WorkerFault, AssignPartition, LosePartition, Claim,
     RejectInvalid, CheckDuplicate, PublishDuplicate, AcknowledgeDuplicate, AcquireLock, LockTimesOut,
     CreateEnvironment, ApplyCandidate, RunAccepts, RunRejects, StoreResult, PublishOutcome,
     AcknowledgeTask, GuardedCommitFails, ReleaseLock, RestoreAfterFailure, Requeue,
     AcknowledgeRequeued, UnguardedCommitFails, WorkerDies, BodyRaises, RestoreErrorSuppressed,
     Acknowledge
<1>3. ~Fault
  BY <1>1 DEF Fault
<1>4. DeliveredOnce /\ (\A w \in Workers : WorksWell(w)) /\ AnsweredOnce
  BY <1>1, <1>2 DEF FaultFree
<1>5. ASSUME NEW t \in Tasks, Dispatch(t)
      PROVE  DeliveredOnce' /\ (\A w \in Workers : WorksWell(w)') /\ AnsweredOnce'
  <2>1. DeliveredOnce'
    BY <1>4, <1>5, DispatchedIsUntouched
  <2> QED
    BY <1>4, <1>5, <2>1 DEF Dispatch, PublishRequest, workerVars, storeVars, WorksWell, AnsweredOnce
<1>6. CASE UNCHANGED <<busVars, workerVars, dispatched>>
  BY <1>4, <1>6 DEF busVars, workerVars, storeVars, DeliveredOnce, WorksWell, AnsweredOnce
<1>7. CASE WorkersRun
  <2>1. \E w \in Workers : WorkerStep(w)
    BY <1>3, <1>7 DEF WorkersRun, WorkerFault, LeaseExpires, LosePartition, WorkerDies, BodyRaises,
       RestoreErrorSuppressed
  <2> QED
    BY <1>4, <1>7, <2>1, WorkersWorkWell DEF WorkersRun, coordinatorVars
<1> QED
  BY <1>5, <1>6, <1>7 DEF SystemNext, DispatchDone, Receive, CoordinatorRaises, VerifySystem, vars,
     coordinatorVars

\* As many results of different tasks as there are tasks are of all tasks.
LEMMA EveryTaskReceived ==
    ASSUME received \in Seq(Results),
           \A i, j \in 1 .. Len(received) : received[i].task = received[j].task => i = j,
           Len(received) = Cardinality(Tasks)
    PROVE  \A t \in Tasks : \E i \in 1 .. Len(received) : received[i].task = t
<1> DEFINE n == Len(received)
           f == [i \in 1 .. n |-> received[i].task]
<1>1. n \in Nat /\ \A i \in 1 .. n : received[i].task \in Tasks
  <2>1. n \in Nat
    BY LenProperties
  <2>2. \A i \in 1 .. n : received[i] \in Results
    BY ElementOfSeq
  <2> QED
    BY <2>1, <2>2 DEF Results
<1>2. f \in Injection(1 .. n, Tasks)
  BY <1>1 DEF Injection, IsInjective
<1>3. Cardinality(1 .. n) = n
  BY <1>1, FS_Interval
<1> HIDE DEF f, n
<1>4. f \in Surjection(1 .. n, Tasks)
  BY <1>2, <1>3, FS_Injection, TasksAssumption DEF n
<1> QED
  BY <1>4 DEF Surjection, f, n

\* The coordinator receives results of this run, one of each task if there
\* are no faults, and reports only when it has them all.
LEMMA ReceivedStays ==
    ASSUME SystemTypes, FaultFree, Received, [SystemNext]_vars
    PROVE  Received'
<1> USE DEF SystemTypes
<1>1. /\ Grows /\ read \in 0 .. Len(results) /\ Len(results) \in Nat
      /\ received \in Seq(Results) /\ Len(received) \in Nat
      /\ faults \in Nat
      /\ Cardinality(Tasks) \in Nat
  BY TypesStay, Lengths, LenProperties, FS_CardinalityType, TasksAssumption DEF CoordinatorTypes, WorkerTypes
<1>2. ASSUME NEW k \in 1 .. read
      PROVE  k \in 1 .. Len(results) /\ k \in 1 .. Len(results') /\ results'[k] = results[k]
  BY <1>1 DEF Grows
<1>3. CASE Receive
  <2>1. read < Len(results) /\ read' = read + 1 /\ results' = results /\ phase' = phase /\ faults' = faults
        /\ Len(received) < Cardinality(Tasks) /\ phase # "report"
    BY <1>3 DEF Receive, StillWaiting, busVars, workerVars
  <2>2. read + 1 \in 1 .. Len(results) /\ results[read + 1] \in Results
    BY <1>1, <2>1, Lengths
  <2>3. CASE results[read + 1].run # "this"
    BY <1>1, <1>3, <2>1, <2>3 DEF Receive, Received
  <2>4. CASE results[read + 1].run = "this"
    <3>1. received' = Append(received, results[read + 1])
      BY <1>3, <2>4 DEF Receive
    <3>2. /\ Len(received') = Len(received) + 1
          /\ \A i \in 1 .. Len(received) : received'[i] = received[i]
          /\ received'[Len(received) + 1] = results[read + 1]
      BY <1>1, <2>2, <3>1
    <3>3. \A i \in 1 .. Len(received') : i \in 1 .. Len(received) \/ i = Len(received) + 1
      BY <1>1, <3>2
    <3>4. \A i \in 1 .. Len(received') : \E k \in 1 .. read' :
              results'[k].run = "this" /\ results'[k] = received'[i]
      <4>1. \A k \in 1 .. read : k \in 1 .. read'
        BY <1>1, <2>1
      <4>2. read + 1 \in 1 .. read'
        BY <1>1, <2>1
      <4> QED
        BY <2>1, <2>4, <3>2, <3>3, <4>1, <4>2 DEF Received
    <3>5. ASSUME faults = 0, NEW i \in 1 .. Len(received)
          PROVE  received[i].task # results[read + 1].task
      <4>1. PICK k \in 1 .. read : results[k].run = "this" /\ results[k] = received[i]
        BY DEF Received
      <4>2. k # read + 1 /\ k \in 1 .. Len(results)
        BY <1>1
      <4> QED
        BY <2>2, <2>4, <3>5, <4>1, <4>2 DEF FaultFree, AnsweredOnce
    <3>6. ASSUME faults = 0, NEW i \in 1 .. Len(received'), NEW j \in 1 .. Len(received'),
                 received'[i].task = received'[j].task
          PROVE  i = j
      <4>1. CASE i \in 1 .. Len(received) /\ j \in 1 .. Len(received)
        BY <3>2, <3>6, <4>1 DEF Received
      <4>2. ~(i \in 1 .. Len(received) /\ j = Len(received) + 1)
        BY <3>2, <3>5, <3>6
      <4>3. ~(j \in 1 .. Len(received) /\ i = Len(received) + 1)
        BY <3>2, <3>5, <3>6
      <4> QED
        BY <3>3, <4>1, <4>2, <4>3
    <3>7. Len(received') <= Cardinality(Tasks)
      BY <1>1, <2>1, <3>2
    <3> QED
      BY <2>1, <3>4, <3>6, <3>7 DEF Received
  <2> QED
    BY <2>3, <2>4
<1>4. CASE VerifySystem
  <2>1. /\ ~StillWaiting /\ UNCHANGED <<results, read, received, faults, live>>
        /\ phase' = IF passed' THEN "report" ELSE "diagnosis"
        /\ passed' => \A i \in 1 .. Len(received) : received[i].accepted
    BY <1>4 DEF VerifySystem, busVars, workerVars, storeVars
  <2>2. ASSUME faults = 0, phase' = "report", NEW t \in Tasks
        PROVE  /\ \E i \in 1 .. Len(results) : results[i].run = "this" /\ results[i].task = t
               /\ live[t] = "candidate"
    <3>1. Len(received) = Cardinality(Tasks)
      BY <1>1, <2>1, <2>2 DEF Received, StillWaiting
    <3>2. PICK i \in 1 .. Len(received) : received[i].task = t
      BY <1>1, <2>2, <3>1, EveryTaskReceived DEF Received
    <3>3. PICK k \in 1 .. read : results[k].run = "this" /\ results[k] = received[i]
      BY DEF Received
    <3>4. received[i].accepted
      BY <2>1, <2>2
    <3> QED
      BY <1>2, <2>2, <3>2, <3>3, <3>4 DEF FaultFree, AnsweredOnce
  <2> QED
    BY <2>1, <2>2 DEF Received
<1>5. CASE UNCHANGED <<read, received>> /\ (faults' = 0 => faults = 0) /\ phase' # "report"
  BY <1>2, <1>5 DEF Received
<1>6. CASE UNCHANGED vars
  BY <1>6 DEF vars, busVars, workerVars, storeVars, coordinatorVars, Received
<1>7. CASE (\E t \in Tasks : Dispatch(t)) \/ DispatchDone \/ CoordinatorRaises
  BY <1>5, <1>7 DEF Dispatch, DispatchDone, CoordinatorRaises, workerVars
<1>8. CASE WorkersRun
  <2>1. UNCHANGED coordinatorVars /\ phase # "report"
    BY <1>8 DEF WorkersRun, Ended, Verdicts
  <2>2. faults' = faults \/ faults' = faults + 1
    BY <1>8 DEF WorkersRun, LeaseExpires, workerVars, Fault, WorkerStep, WorkerFault, AssignPartition,
       LosePartition, Claim, RejectInvalid, CheckDuplicate, PublishDuplicate, AcknowledgeDuplicate,
       AcquireLock, LockTimesOut, CreateEnvironment, ApplyCandidate, RunAccepts, RunRejects, StoreResult,
       PublishOutcome, AcknowledgeTask, GuardedCommitFails, ReleaseLock, RestoreAfterFailure, Requeue,
       AcknowledgeRequeued, UnguardedCommitFails, WorkerDies, BodyRaises, RestoreErrorSuppressed,
       Acknowledge
  <2> QED
    BY <1>1, <1>5, <2>1, <2>2 DEF coordinatorVars
<1> QED
  BY <1>3, <1>4, <1>6, <1>7, <1>8 DEF SystemNext

\* At the start every task is untouched and nothing has been received.
LEMMA FaultFreeInitially == SystemInit => FaultFree /\ Received
<1> SUFFICES ASSUME SystemInit PROVE FaultFree /\ Received
  OBVIOUS
<1>1. \A i \in 1 .. Len(results) : results[i].run = "earlier"
  <2> SUFFICES \A i \in 1 .. Len(EarlierResults) :
                  EarlierResults[i] \in [run : {"earlier"}, task : Tasks, accepted : BOOLEAN]
    BY DEF SystemInit, BusInit
  <2> QED
    BY ElementOfSeq
<1>2. Len(received) = 0 /\ \A p \in Partitions : Len(requests[p]) = 0 /\ position[p] = 0
  BY EmptySeq DEF SystemInit, BusInit
<1>3. \A t \in Tasks : Untouched(completed, lock, results, t)
  BY <1>1 DEF SystemInit, WorkersInit, Untouched, Unanswered
<1>4. DeliveredOnce
  BY <1>2, <1>3 DEF SystemInit, BusInit, DeliveredOnce
<1>5. \A w \in Workers : WorksWell(w)
  BY DEF SystemInit, WorkersInit, WorksWell
<1>6. AnsweredOnce
  BY <1>1 DEF AnsweredOnce
<1>7. Received
  <2>1. 0 <= Cardinality(Tasks)
    BY FS_CardinalityType, TasksAssumption
  <2> QED
    BY <1>2, <2>1 DEF SystemInit, Received
<1> QED
  BY <1>4, <1>5, <1>6, <1>7 DEF FaultFree

\* A run without failures that is reported as passed has a result for every
\* workload, and leaves every workload with the candidate it verified.
THEOREM FaultFreeReportsAreTrue == SystemSpec => []FaultFreeReportIsTrue
<1>1. SystemTypes /\ FaultFree /\ Received /\ [SystemNext]_vars => (SystemTypes /\ FaultFree /\ Received)'
  BY TypesStay, FaultFreeStays, ReceivedStays
<1>2. Received => FaultFreeReportIsTrue
  BY DEF Received, FaultFreeReportIsTrue, ResultsOf
<1> QED
  BY TypesInitially, FaultFreeInitially, <1>1, <1>2, PTL DEF SystemSpec
=============================================================================
