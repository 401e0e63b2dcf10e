------------------------------ MODULE KafkaBus ------------------------------
(***************************************************************************)
(* The event bus of the live system (event_layer/kafka.py): the request    *)
(* topic with its partitions and the one consumer group of the workers,    *)
(* the result topic and the dead-letter topic.                             *)
(*                                                                         *)
(* The broker is external: a partition is a log, a group assigns it to at  *)
(* most one live consumer, and a consumer that gets a partition reads from *)
(* the committed offset on.  The modules that use the bus conjoin these    *)
(* actions with their own.                                                 *)
(***************************************************************************)
EXTENDS Naturals, Sequences

CONSTANTS
    Workers, Tasks,
    Partitions,
    PartitionOf(_),    \* the partition of a task's key
    EarlierResults     \* what earlier runs have left on the result topic

NoWorker == "no worker"

ASSUME KafkaAssumption ==
    /\ \A task \in Tasks : PartitionOf(task) \in Partitions
    /\ EarlierResults \in Seq([run : {"earlier"}, task : Tasks, accepted : BOOLEAN])
    /\ NoWorker \notin Workers

VARIABLES
    requests,    \* per partition, the messages of the request topic
    committed,   \* per partition, the committed offset: messages done with
    position,    \* per partition, the messages its owner has fetched
    owner,       \* per partition, the consumer it is assigned to
    results,     \* the result topic
    deadLetters  \* the tasks on the dead-letter topic

busVars == <<requests, committed, position, owner, results, deadLetters>>

BusInit ==
    /\ requests = [p \in Partitions |-> <<>>]
    /\ committed = [p \in Partitions |-> 0]
    /\ position = [p \in Partitions |-> 0]
    /\ owner = [p \in Partitions |-> NoWorker]
    /\ results = EarlierResults
    /\ deadLetters = {}

\* publish on the request topic, keyed by the workload.
PublishRequest(task, attempt) ==
    /\ requests' = [requests EXCEPT ![PartitionOf(task)] =
                        Append(@, [task |-> task, attempt |-> attempt])]
    /\ UNCHANGED <<committed, position, owner, results, deadLetters>>

\* A result event carries the run it belongs to.
PublishResult(task, accepted) ==
    /\ results' = Append(results, [run |-> "this", task |-> task, accepted |-> accepted])
    /\ UNCHANGED <<requests, committed, position, owner, deadLetters>>

PublishDeadLetter(task) ==
    /\ deadLetters' = deadLetters \cup {task}
    /\ UNCHANGED <<requests, committed, position, owner, results>>

\* Mutant: consumers without a common group are given every partition.
AssignToAll(p, w) ==
    /\ owner[p] # w
    /\ owner' = [owner EXCEPT ![p] = w]
    /\ position' = [position EXCEPT ![p] = committed[p]]
    /\ UNCHANGED <<requests, committed, results, deadLetters>>

\* The group gives a free partition to a consumer.
Assign(p, w) ==
    /\ owner[p] = NoWorker
    /\ owner' = [owner EXCEPT ![p] = w]
    /\ position' = [position EXCEPT ![p] = committed[p]]
    /\ UNCHANGED <<requests, committed, results, deadLetters>>

\* The group takes a partition from a consumer that has left or was silent.
Revoke(p) ==
    /\ owner' = [owner EXCEPT ![p] = NoWorker]
    /\ UNCHANGED <<requests, committed, position, results, deadLetters>>

\* A consumer that stops leaves the group with all its partitions.
Leave(w) ==
    /\ owner' = [p \in Partitions |-> IF owner[p] = w THEN NoWorker ELSE owner[p]]
    /\ UNCHANGED <<requests, committed, position, results, deadLetters>>

\* The next record of a consumer: _consume.
Fetch(p, w) ==
    /\ owner[p] = w
    /\ position[p] < Len(requests[p])
    /\ position' = [position EXCEPT ![p] = @ + 1]
    /\ UNCHANGED <<requests, committed, owner, results, deadLetters>>

Fetched(p) ==
    LET record == requests[p][position[p] + 1]
    IN  [partition |-> p, offset |-> position[p] + 1,
         task |-> record.task, attempt |-> record.attempt]

\* acknowledge raises for a consumer that no longer owns the partition.
CanCommit(w, m) == owner[m.partition] = w

\* Mutant: the offset of the next message is committed as well.
CommitAhead(m) ==
    /\ committed' = [committed EXCEPT ![m.partition] = m.offset + 1]
    /\ UNCHANGED <<requests, position, owner, results, deadLetters>>

\* acknowledge commits the offset after the message, and with it all that
\* come before it in the partition.
Commit(m) ==
    /\ committed' = [committed EXCEPT ![m.partition] = m.offset]
    /\ UNCHANGED <<requests, position, owner, results, deadLetters>>

\* The messages of a task that a consumer will still be given.
Pending(task) ==
    \E p \in Partitions : \E i \in committed[p] + 1 .. Len(requests[p]) :
        requests[p][i].task = task

\* The results of a task that this run has published.
ResultsOf(task) ==
    {i \in 1 .. Len(results) : results[i].run = "this" /\ results[i].task = task}
=============================================================================
