---------------------------- MODULE InMemoryBus ----------------------------
(***************************************************************************)
(* The in-memory event bus of tests and judge mode (event_layer/bus.py):   *)
(* one topic with its log, one queue for each consumer group, and          *)
(* consumers that handle a message the way OptimizationWorker.process      *)
(* does.  Everything runs in one event loop and the bodies under the bus's *)
(* lock await nothing, so each operation of the bus is one step.           *)
(***************************************************************************)
EXTENDS Naturals, FiniteSets, Sequences

CONSTANTS Consumers,    \* the tasks that iterate over consume()
          Groups,       \* the consumer groups
          GroupOf,      \* the consumer_group of each consumer
          Keys,         \* the keys of published events
          PartitionOf,  \* _partition_for(key), a stable hash
          MaxAttempts,  \* max_delivery_attempts
          MaxPublished, \* bound: events published in a behaviour
          MaxStops      \* bound: consumers that are cancelled

VARIABLES log,         \* _logs[topic]
          queues,      \* _queues[topic, group]
          subscribed,  \* the groups that have a queue
          acknowledged,\* _acknowledged
          held,        \* the message each consumer works on, if any
          place,       \* where each consumer is in its loop
          deadLetters, \* _logs[DLQ]
          dropped,     \* messages in the hands of a consumer that ended
          closed       \* _closed

busVars == <<log, queues, subscribed, acknowledged, held, place, deadLetters,
             dropped, closed>>

ASSUME BusAssumption ==
  /\ GroupOf \in [Consumers -> Groups]
  /\ PartitionOf \in [Keys -> Nat]
  /\ MaxAttempts \in Nat \ {0}
  /\ MaxPublished \in Nat
  /\ MaxStops \in Nat

Nothing == <<>>

\* The log has at most MaxPublished entries, so offsets are below that.
Messages == [key : Keys, partition : Nat, offset : 0 .. MaxPublished,
             attempt : 0 .. MaxAttempts - 1]

\* Mutant: offsets of different partitions are not told apart.
AckKeyWithoutPartition(m, g) == <<g, m.offset>>

\* _ack_key: what acknowledge() adds and _consume looks up.
AckKey(m, g) == <<g, m.partition, m.offset>>

\* The event a message is a delivery of, whatever its attempt.
Event(m) == [key |-> m.key, partition |-> m.partition, offset |-> m.offset]

BusInit ==
  /\ log = <<>>
  /\ queues = [g \in Groups |-> <<>>]
  /\ subscribed = {}
  /\ acknowledged = {}
  /\ held = [c \in Consumers |-> Nothing]
  /\ place = [c \in Consumers |-> "new"]
  /\ deadLetters = <<>>
  /\ dropped = {}
  /\ closed = FALSE

\* publish(): the offset counts the earlier entries of the same partition.
OffsetOf(k) ==
  Cardinality({i \in DOMAIN log : log[i].partition = PartitionOf[k]})

Publish(k) ==
  /\ ~closed
  /\ Len(log) < MaxPublished
  /\ LET m == [key |-> k, partition |-> PartitionOf[k], offset |-> OffsetOf(k),
               attempt |-> 0]
     IN /\ log' = Append(log, m)
        /\ queues' = [g \in Groups |-> IF g \in subscribed
                                       THEN Append(queues[g], m) ELSE queues[g]]
  /\ UNCHANGED <<subscribed, acknowledged, held, place, deadLetters, dropped,
                 closed>>

\* _subscribe(): the first consumer of a group makes its queue and replays the
\* log.  On a closed bus it raises and the consumer ends.
Subscribe(c) ==
  /\ place[c] = "new"
  /\ IF closed
     THEN /\ place' = [place EXCEPT ![c] = "ended"]
          /\ UNCHANGED <<queues, subscribed>>
     ELSE /\ place' = [place EXCEPT ![c] = "waiting"]
          /\ subscribed' = subscribed \cup {GroupOf[c]}
          /\ queues' = IF GroupOf[c] \in subscribed THEN queues
                       ELSE [queues EXCEPT ![GroupOf[c]] = log]
  /\ UNCHANGED <<log, acknowledged, held, deadLetters, dropped, closed>>

\* The head of _consume's loop: a closed bus ends the iteration.
LoopHead == IF closed THEN "ended" ELSE "waiting"

\* _consume(): queue.get() returns the oldest message; one that its group has
\* acknowledged is skipped.  A consumer that waits is not woken by close().
Take(c) ==
  LET g == GroupOf[c]
      m == Head(queues[g])
      seen == AckKey(m, g) \in acknowledged
  IN /\ place[c] = "waiting"
     /\ queues[g] # <<>>
     /\ queues' = [queues EXCEPT ![g] = Tail(@)]
     /\ held' = [held EXCEPT ![c] = IF seen THEN Nothing ELSE m]
     /\ place' = [place EXCEPT ![c] = IF seen THEN LoopHead ELSE "holding"]
     /\ UNCHANGED <<log, subscribed, acknowledged, deadLetters, dropped, closed>>

\* process() is over and the consumer asks for its next message.
Finished(c) ==
  /\ held' = [held EXCEPT ![c] = Nothing]
  /\ place' = [place EXCEPT ![c] = LoopHead]

\* acknowledge(), also on a closed bus.
Acknowledge(c) ==
  /\ place[c] = "holding"
  /\ acknowledged' = acknowledged \cup {AckKey(held[c], GroupOf[c])}
  /\ Finished(c)
  /\ UNCHANGED <<log, queues, subscribed, deadLetters, dropped, closed>>

\* Mutant: the event is queued again without next_attempt().
RetrySameAttempt(c) ==
  /\ place[c] = "holding"
  /\ held[c].attempt + 1 < MaxAttempts
  /\ queues' = [queues EXCEPT ![GroupOf[c]] = Append(@, held[c])]
  /\ Finished(c)
  /\ UNCHANGED <<log, subscribed, acknowledged, deadLetters, dropped, closed>>

\* Mutant: one attempt too many.
RetryOnceMore(c) ==
  /\ place[c] = "holding"
  /\ held[c].attempt < MaxAttempts
  /\ queues' = [queues EXCEPT ![GroupOf[c]] =
                  Append(@, [held[c] EXCEPT !.attempt = @ + 1])]
  /\ Finished(c)
  /\ UNCHANGED <<log, subscribed, acknowledged, deadLetters, dropped, closed>>

\* retry(): the next attempt goes to the end of the group's own queue, under the
\* same partition and offset, and nothing is acknowledged.
Retry(c) ==
  /\ place[c] = "holding"
  /\ held[c].attempt + 1 < MaxAttempts
  /\ queues' = [queues EXCEPT ![GroupOf[c]] =
                  Append(@, [held[c] EXCEPT !.attempt = @ + 1])]
  /\ Finished(c)
  /\ UNCHANGED <<log, subscribed, acknowledged, deadLetters, dropped, closed>>

\* dead_letter(): publishes on the dead-letter topic, then acknowledges.
DeadLetter(c) ==
  /\ place[c] = "holding"
  /\ ~(held[c].attempt + 1 < MaxAttempts)
  /\ ~closed
  /\ deadLetters' = Append(deadLetters, held[c])
  /\ acknowledged' = acknowledged \cup {AckKey(held[c], GroupOf[c])}
  /\ Finished(c)
  /\ UNCHANGED <<log, queues, subscribed, dropped, closed>>

\* The consumer's task ends and nobody puts back what it worked on.
Ends(c) ==
  /\ place' = [place EXCEPT ![c] = "ended"]
  /\ held' = [held EXCEPT ![c] = Nothing]
  /\ dropped' = IF place[c] = "holding"
                THEN dropped \cup {<<GroupOf[c], Event(held[c])>>} ELSE dropped
  /\ UNCHANGED <<log, queues, subscribed, acknowledged, deadLetters, closed>>

\* On a closed bus dead_letter() raises out of process() and ends the worker.
DeadLetterRaises(c) ==
  /\ place[c] = "holding"
  /\ ~(held[c].attempt + 1 < MaxAttempts)
  /\ closed
  /\ Ends(c)

\* The task is cancelled: at an await of process(), or while it waits.
Cancel(c) ==
  /\ place[c] \in {"waiting", "holding"}
  /\ Cardinality({d \in Consumers : place[d] = "ended"}) < MaxStops
  /\ Ends(c)

Close ==
  /\ ~closed
  /\ closed' = TRUE
  /\ UNCHANGED <<log, queues, subscribed, acknowledged, held, place, deadLetters,
                 dropped>>

ConsumerStep(c) == \/ Subscribe(c) \/ Take(c) \/ Acknowledge(c) \/ Retry(c)
                   \/ DeadLetter(c) \/ DeadLetterRaises(c)

BusNext ==
  \/ \E k \in Keys : Publish(k)
  \/ \E c \in Consumers : ConsumerStep(c) \/ Cancel(c)
  \/ Close

\* The event loop runs every task that is ready, and a queue that has a message
\* wakes one that waits.  Nothing forces publications, cancellations or close().
BusSpec == /\ BusInit /\ [][BusNext]_busVars
           /\ \A c \in Consumers : WF_busVars(ConsumerStep(c))

----------------------------------------------------------------------------
(***************************************************************************)
(* Properties                                                              *)
(***************************************************************************)

\* The state of the bus keeps its types; in particular no delivery has an
\* attempt beyond max_delivery_attempts.
InMemoryTypeOK ==
  /\ \A i \in DOMAIN log : log[i] \in Messages
  /\ \A g \in Groups : \A i \in DOMAIN queues[g] : queues[g][i] \in Messages
  /\ subscribed \subseteq Groups
  /\ held \in [Consumers -> Messages \cup {Nothing}]
  /\ place \in [Consumers -> {"new", "waiting", "holding", "ended"}]
  /\ \A c \in Consumers : place[c] = "holding" <=> held[c] # Nothing
  /\ \A i \in DOMAIN deadLetters : deadLetters[i] \in Messages
  /\ closed \in BOOLEAN

\* The whereabouts of an event in a group, one for each copy of it.
Whereabouts(e, g) ==
  {<<"queued", i>> : i \in {j \in DOMAIN queues[g] : Event(queues[g][j]) = e}}
    \cup {<<"held", c>> : c \in {d \in Consumers : /\ GroupOf[d] = g
                                                    /\ place[d] = "holding"
                                                    /\ Event(held[d]) = e}}
    \cup (IF AckKey(e, g) \in acknowledged THEN {<<"acknowledged">>} ELSE {})
    \cup (IF <<g, e>> \in dropped THEN {<<"dropped">>} ELSE {})

\* "consumers in the same group divide work while separate groups receive
\* independent copies", with replay of what was published before: each group has
\* exactly one copy of each event, in its queue, in the hands of one consumer or
\* finished, and it loses the copy only with a consumer that ended in its midst.
\* No event is handled by two consumers, skipped for the acknowledgement of
\* another one, or queued again once it is acknowledged.
EachGroupHasOneCopy ==
  \A g \in subscribed : \A i \in DOMAIN log :
    Cardinality(Whereabouts(Event(log[i]), g)) = 1

\* "preserving same-key ordering": first deliveries of one key leave a group's
\* queue in the order in which they were published, however retries of earlier
\* ones and replay interleave with them.
FirstDeliveriesInOrder ==
  \A g \in Groups : \A i, j \in DOMAIN queues[g] :
    LET a == queues[g][i]
        b == queues[g][j]
    IN (i < j /\ a.key = b.key /\ a.attempt = 0 /\ b.attempt = 0)
         => a.offset < b.offset

\* Every event a subscribed group knows of is acknowledged by it in the end, by
\* success or as a dead letter, unless the bus is closed, the event went down with
\* a cancelled consumer, or the group has no consumer left.
EveryEventIsFinished ==
  \A g \in Groups : \A i \in 1 .. MaxPublished :
    (g \in subscribed /\ i \in DOMAIN log)
      ~> \/ closed
         \/ /\ i \in DOMAIN log
            /\ \/ AckKey(log[i], g) \in acknowledged
               \/ <<g, Event(log[i])>> \in dropped
         \/ \A c \in Consumers : GroupOf[c] = g => place[c] = "ended"
============================================================================
