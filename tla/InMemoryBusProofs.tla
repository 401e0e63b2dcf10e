-------------------------- MODULE InMemoryBusProofs --------------------------
(***************************************************************************)
(* What the in-memory bus guarantees for any consumers, groups, keys and   *)
(* partitions and any number of attempts and events.                       *)
(*                                                                         *)
(* The proof counts nothing: BusInv says that the log is numbered (the     *)
(* offsets of a partition grow), that whatever is queued, held,            *)
(* acknowledged or dropped stems from the log (Sourced), that in a group   *)
(* no event is in two of these places (Separate) or twice in one of them   *)
(* (Single), and that every event is in one of them (Present).             *)
(***************************************************************************)
EXTENDS InMemoryBus, FiniteSetTheorems, SequenceTheorems, TLAPS

\* The number of entries of a partition, which is its next offset.
Entries(l, p) == {i \in DOMAIN l : l[i].partition = p}

\* What publish() makes of a log: fresh events with growing offsets.
Numbered(l) ==
    /\ \A i \in DOMAIN l : /\ l[i].attempt = 0
                           /\ l[i].partition = PartitionOf[l[i].key]
                           /\ l[i].offset < Cardinality(Entries(l, l[i].partition))
    /\ \A i, j \in DOMAIN l :
          (i < j /\ l[i].partition = l[j].partition) => l[i].offset < l[j].offset

\* The events of a log or a queue.
EventsOf(q) == {Event(q[i]) : i \in DOMAIN q}

\* No event is queued twice.
Distinct(q) == \A i, j \in DOMAIN q : Event(q[i]) = Event(q[j]) => i = j

\* First deliveries of a key stand in a queue in the order of their offsets.
Ordered(q) ==
    \A i, j \in DOMAIN q :
        (/\ i < j
         /\ q[i].key = q[j].key
         /\ q[i].attempt = 0
         /\ q[j].attempt = 0) => q[i].offset < q[j].offset

Holds(c, g, e) == GroupOf[c] = g /\ place[c] = "holding" /\ Event(held[c]) = e

Queued(g, e) == e \in EventsOf(queues[g])
InHand(g, e) == \E c \in Consumers : Holds(c, g, e)
Acked(g, e) == AckKey(e, g) \in acknowledged
Dropped(g, e) == <<g, e>> \in dropped

Types ==
    /\ log \in Seq(Messages) /\ Len(log) <= MaxPublished
    /\ queues \in [Groups -> Seq(Messages)]
    /\ subscribed \subseteq Groups
    /\ held \in [Consumers -> Messages \cup {Nothing}]
    /\ place \in [Consumers -> {"new", "waiting", "holding", "ended"}]
    /\ \A c \in Consumers : place[c] = "holding" <=> held[c] # Nothing
    /\ deadLetters \in Seq(Messages)
    /\ closed \in BOOLEAN

Sourced ==
    /\ \A g \in Groups : EventsOf(queues[g]) \subseteq EventsOf(log)
    /\ \A g \in Groups \ subscribed : queues[g] = <<>>
    /\ \A c \in Consumers : place[c] = "holding" => Event(held[c]) \in EventsOf(log)
    /\ \A c \in Consumers : place[c] \in {"waiting", "holding"} => GroupOf[c] \in subscribed
    /\ \A k \in acknowledged : \E g \in subscribed, e \in EventsOf(log) : k = AckKey(e, g)
    /\ \A d \in dropped : \E g \in subscribed, e \in EventsOf(log) : d = <<g, e>>

Single ==
    /\ \A g \in Groups : Distinct(queues[g])
    /\ \A g \in Groups, e \in EventsOf(log) : \A c, d \in Consumers :
          Holds(c, g, e) /\ Holds(d, g, e) => c = d

Separate ==
    \A g \in Groups, e \in EventsOf(log) :
        /\ Queued(g, e) => ~InHand(g, e) /\ ~Acked(g, e) /\ ~Dropped(g, e)
        /\ InHand(g, e) => ~Acked(g, e) /\ ~Dropped(g, e)
        /\ Acked(g, e) => ~Dropped(g, e)

Present ==
    \A g \in subscribed, e \in EventsOf(log) :
        Queued(g, e) \/ InHand(g, e) \/ Acked(g, e) \/ Dropped(g, e)

InOrder == \A g \in Groups : Ordered(queues[g])

BusInv == Types /\ Numbered(log) /\ Sourced /\ Single /\ Separate /\ Present /\ InOrder

-----------------------------------------------------------------------------
(* Queues and logs.                                                        *)

\* A message put at the end of a queue.
LEMMA AppendToQueue ==
    ASSUME NEW q \in Seq(Messages), NEW m \in Messages
    PROVE  /\ Append(q, m) \in Seq(Messages)
           /\ Len(Append(q, m)) = Len(q) + 1
           /\ DOMAIN Append(q, m) = 1 .. Len(q) + 1
           /\ DOMAIN q = 1 .. Len(q)
           /\ \A i \in DOMAIN q : Append(q, m)[i] = q[i]
           /\ Append(q, m)[Len(q) + 1] = m
           /\ Len(q) \in Nat
OBVIOUS

\* What stands in a queue after a message has joined it.
LEMMA EntriesOfAppend ==
    ASSUME NEW q \in Seq(Messages), NEW m \in Messages, NEW n,
           \E i \in DOMAIN Append(q, m) : Append(q, m)[i] = n
    PROVE  n = m \/ \E i \in DOMAIN q : q[i] = n
<1> DEFINE a == Append(q, m)
<1>1. /\ DOMAIN a = 1 .. Len(q) + 1
      /\ DOMAIN q = 1 .. Len(q)
      /\ \A i \in DOMAIN q : a[i] = q[i]
      /\ a[Len(q) + 1] = m
      /\ Len(q) \in Nat
  BY AppendToQueue
<1>2. PICK i \in DOMAIN a : a[i] = n
  OBVIOUS
<1> HIDE DEF a
<1>3. i \in DOMAIN q \/ i = Len(q) + 1
  BY <1>1, <1>2
<1> QED
  BY <1>1, <1>2, <1>3

\* A message taken from the front of a queue.
LEMMA TakeFromQueue ==
    ASSUME NEW q \in Seq(Messages), q # <<>>
    PROVE  /\ Head(q) \in Messages
           /\ Head(q) = q[1]
           /\ Tail(q) \in Seq(Messages)
           /\ DOMAIN q = 1 .. Len(q)
           /\ Len(q) \in Nat \ {0}
           /\ DOMAIN Tail(q) = 1 .. Len(q) - 1
           /\ \A i \in DOMAIN Tail(q) : Tail(q)[i] = q[i + 1]
<1>1. Len(q) \in Nat \ {0} /\ DOMAIN q = 1 .. Len(q)
  BY EmptySeq, LenProperties
<1>2. /\ Head(q) \in Messages
      /\ Tail(q) \in Seq(Messages)
      /\ Len(Tail(q)) = Len(q) - 1
      /\ \A i \in 1 .. Len(Tail(q)) : Tail(q)[i] = q[i + 1]
  BY HeadTailProperties
<1>3. DOMAIN Tail(q) = 1 .. Len(Tail(q))
  BY <1>2, LenProperties
<1> QED
  BY <1>1, <1>2, <1>3

\* What appending does to the events of a queue.
LEMMA AppendedEvents ==
    ASSUME NEW q \in Seq(Messages), NEW m \in Messages
    PROVE  /\ EventsOf(Append(q, m)) = EventsOf(q) \cup {Event(m)}
           /\ (Distinct(q) /\ Event(m) \notin EventsOf(q)) => Distinct(Append(q, m))
<1> DEFINE a == Append(q, m)
<1>1. /\ DOMAIN a = 1 .. Len(q) + 1
      /\ DOMAIN q = 1 .. Len(q)
      /\ \A i \in DOMAIN q : a[i] = q[i]
      /\ a[Len(q) + 1] = m
      /\ Len(q) \in Nat
  BY AppendToQueue
<1> HIDE DEF a
<1>2. \A i \in DOMAIN a : i \in DOMAIN q \/ i = Len(q) + 1
  BY <1>1
<1>3. EventsOf(a) = EventsOf(q) \cup {Event(m)}
  BY <1>1, <1>2 DEF EventsOf
<1>4. (Distinct(q) /\ Event(m) \notin EventsOf(q)) => Distinct(a)
  BY <1>1, <1>2 DEF EventsOf, Distinct
<1> QED
  BY <1>3, <1>4 DEF a

\* What taking does to the events of a queue.
LEMMA TakenEvents ==
    ASSUME NEW q \in Seq(Messages), q # <<>>
    PROVE  /\ Event(Head(q)) \in EventsOf(q)
           /\ EventsOf(Tail(q)) \subseteq EventsOf(q)
           /\ EventsOf(q) \subseteq EventsOf(Tail(q)) \cup {Event(Head(q))}
           /\ Distinct(q) => /\ Distinct(Tail(q))
                             /\ Event(Head(q)) \notin EventsOf(Tail(q))
           /\ Ordered(q) => Ordered(Tail(q))
<1> DEFINE t == Tail(q)
<1>1. /\ Head(q) = q[1]
      /\ DOMAIN q = 1 .. Len(q)
      /\ Len(q) \in Nat \ {0}
      /\ DOMAIN t = 1 .. Len(q) - 1
      /\ \A i \in DOMAIN t : t[i] = q[i + 1]
  BY TakeFromQueue
<1> HIDE DEF t
<1>2. /\ 1 \in DOMAIN q
      /\ \A i \in DOMAIN t : i + 1 \in DOMAIN q /\ i + 1 # 1
      /\ \A i \in DOMAIN q : i = 1 \/ (i - 1 \in DOMAIN t /\ q[i] = t[i - 1])
  <2>1. \A i \in DOMAIN q : i = 1 \/ (i - 1 \in DOMAIN t /\ (i - 1) + 1 = i)
    BY <1>1
  <2> QED
    BY <1>1, <2>1
<1>3. Event(Head(q)) \in EventsOf(q)
  BY <1>1, <1>2 DEF EventsOf
<1>4. EventsOf(t) \subseteq EventsOf(q)
  BY <1>1, <1>2 DEF EventsOf
<1>5. EventsOf(q) \subseteq EventsOf(t) \cup {Event(Head(q))}
  BY <1>1, <1>2 DEF EventsOf
<1>6. ASSUME Distinct(q) PROVE Distinct(t) /\ Event(Head(q)) \notin EventsOf(t)
  <2>1. Distinct(t)
    <3> SUFFICES ASSUME NEW i \in DOMAIN t, NEW j \in DOMAIN t, Event(t[i]) = Event(t[j])
                 PROVE  i = j
      BY DEF Distinct
    <3>1. i + 1 = j + 1
      BY <1>1, <1>2, <1>6 DEF Distinct
    <3> QED
      BY <1>1, <3>1
  <2>2. Event(Head(q)) \notin EventsOf(t)
    BY <1>1, <1>2, <1>6 DEF EventsOf, Distinct
  <2> QED
    BY <2>1, <2>2
<1>7. ASSUME Ordered(q) PROVE Ordered(t)
  <2> SUFFICES ASSUME NEW i \in DOMAIN t, NEW j \in DOMAIN t, i < j, t[i].key = t[j].key,
                      t[i].attempt = 0, t[j].attempt = 0
               PROVE  t[i].offset < t[j].offset
    BY DEF Ordered
  <2>1. i + 1 < j + 1
    BY <1>1
  <2> QED
    BY <1>1, <1>2, <1>7, <2>1 DEF Ordered
<1> QED
  BY <1>3, <1>4, <1>5, <1>6, <1>7 DEF t

\* The entries of a partition can be counted.
LEMMA EntriesAreFinite ==
    ASSUME NEW l \in Seq(Messages), NEW p
    PROVE  /\ IsFiniteSet(Entries(l, p))
           /\ Cardinality(Entries(l, p)) \in 0 .. Len(l)
<1>1. DOMAIN l = 1 .. Len(l) /\ Len(l) \in Nat
  BY LenProperties
<1>2. IsFiniteSet(1 .. Len(l)) /\ Cardinality(1 .. Len(l)) = Len(l)
  <2> DEFINE n == Len(l)
  <2>1. n \in Nat
    BY <1>1
  <2> HIDE DEF n
  <2>2. IsFiniteSet(1 .. n) /\ Cardinality(1 .. n) = IF 1 > n THEN 0 ELSE n - 1 + 1
    BY <2>1, FS_Interval
  <2>3. Cardinality(1 .. n) = n
    BY <2>1, <2>2
  <2> QED
    BY <2>2, <2>3 DEF n
<1>3. Entries(l, p) \in SUBSET (1 .. Len(l))
  BY <1>1 DEF Entries
<1> DEFINE S == Entries(l, p)
           T == 1 .. Len(l)
<1> HIDE DEF S, T
<1>4. IsFiniteSet(S) /\ Cardinality(S) <= Cardinality(T)
  BY <1>2, <1>3, FS_Subset DEF S, T
<1>5. Cardinality(S) \in Nat
  BY <1>4, FS_CardinalityType
<1>6. Cardinality(T) = Len(l)
  BY <1>2 DEF T
<1>7. Cardinality(S) \in 0 .. Len(l)
  BY <1>1, <1>4, <1>5, <1>6
<1> QED
  BY <1>4, <1>7 DEF S

\* publish() numbers on: the new event comes after all of its partition.
LEMMA PublishedLogIsNumbered ==
    ASSUME NEW l \in Seq(Messages), Numbered(l), NEW m \in Messages,
           m.attempt = 0, m.partition = PartitionOf[m.key],
           m.offset = Cardinality(Entries(l, m.partition))
    PROVE  /\ Numbered(Append(l, m))
           /\ Event(m) \notin EventsOf(l)
           /\ \A i \in DOMAIN l : l[i].partition = m.partition => l[i].offset < m.offset
<1> DEFINE a == Append(l, m)
<1>1. /\ DOMAIN a = 1 .. Len(l) + 1
      /\ DOMAIN l = 1 .. Len(l)
      /\ \A i \in DOMAIN l : a[i] = l[i]
      /\ a[Len(l) + 1] = m
      /\ Len(l) \in Nat
      /\ \A i \in DOMAIN l : l[i] \in Messages
  BY AppendToQueue, ElementOfSeq
<1> HIDE DEF a
<1>2. \A i \in DOMAIN a : i \in DOMAIN l \/ i = Len(l) + 1
  BY <1>1
<1>3. \A i \in DOMAIN l : l[i].partition = m.partition => l[i].offset < m.offset
  BY DEF Numbered
<1>4. ASSUME NEW p
      PROVE  Entries(a, p) = IF p = m.partition THEN Entries(l, p) \cup {Len(l) + 1}
                                                ELSE Entries(l, p)
  BY <1>1, <1>2 DEF Entries
<1>5. ASSUME NEW p
      PROVE  Cardinality(Entries(a, p)) =
                IF p = m.partition THEN Cardinality(Entries(l, p)) + 1
                                   ELSE Cardinality(Entries(l, p))
  <2>1. Len(l) + 1 \notin Entries(l, p)
    BY <1>1 DEF Entries
  <2>2. Cardinality(Entries(l, p) \cup {Len(l) + 1}) = Cardinality(Entries(l, p)) + 1
    BY <2>1, EntriesAreFinite, FS_AddElement
  <2> QED
    BY <1>4, <2>2
<1>6. \A p : Cardinality(Entries(l, p)) \in Nat
  BY EntriesAreFinite
<1>7. \A i \in DOMAIN a : /\ a[i].attempt = 0
                          /\ a[i].partition = PartitionOf[a[i].key]
                          /\ a[i].offset < Cardinality(Entries(a, a[i].partition))
  <2> SUFFICES ASSUME NEW i \in DOMAIN a
               PROVE  /\ a[i].attempt = 0
                      /\ a[i].partition = PartitionOf[a[i].key]
                      /\ a[i].offset < Cardinality(Entries(a, a[i].partition))
    OBVIOUS
  <2>1. CASE i \in DOMAIN l
    <3>1. a[i] = l[i] /\ l[i].offset < Cardinality(Entries(l, l[i].partition))
          /\ l[i].attempt = 0 /\ l[i].partition = PartitionOf[l[i].key] /\ l[i].offset \in Nat
      BY <2>1, <1>1 DEF Numbered, Messages
    <3> QED
      BY <3>1, <1>5, <1>6
  <2>2. CASE i = Len(l) + 1
    <3>1. a[i] = m
      BY <2>2, <1>1
    <3> QED
      BY <3>1, <1>5, <1>6
  <2> QED
    BY <1>2, <2>1, <2>2
<1>8. \A i, j \in DOMAIN a :
          (i < j /\ a[i].partition = a[j].partition) => a[i].offset < a[j].offset
  <2> SUFFICES ASSUME NEW i \in DOMAIN a, NEW j \in DOMAIN a, i < j,
                      a[i].partition = a[j].partition
               PROVE  a[i].offset < a[j].offset
    OBVIOUS
  <2>1. i \in DOMAIN l
    BY <1>1
  <2>2. CASE j \in DOMAIN l
    BY <1>1, <2>1, <2>2 DEF Numbered
  <2>3. CASE j = Len(l) + 1
    BY <1>1, <1>3, <2>1, <2>3
  <2> QED
    BY <1>2, <2>2, <2>3
<1>9. Event(m) \notin EventsOf(l)
  <2> SUFFICES ASSUME NEW i \in DOMAIN l, Event(m) = Event(l[i])
               PROVE  FALSE
    BY DEF EventsOf
  <2>1. m.partition = l[i].partition /\ m.offset = l[i].offset
    BY DEF Event
  <2>2. l[i].offset \in Nat
    BY <1>1 DEF Messages
  <2> QED
    BY <2>1, <2>2, <1>3
<1> QED
  BY <1>3, <1>7, <1>8, <1>9 DEF Numbered, a

\* The key of an acknowledgement tells the events of a log apart: partition
\* and offset name one event.
LEMMA AckKeysIdentify ==
    ASSUME NEW l \in Seq(Messages), Numbered(l), NEW e \in EventsOf(l), NEW f \in EventsOf(l),
           NEW g, NEW h, AckKey(e, g) = AckKey(f, h)
    PROVE  e = f /\ g = h
<1>1. PICK i \in DOMAIN l : e = Event(l[i])
  BY DEF EventsOf
<1>2. PICK j \in DOMAIN l : f = Event(l[j])
  BY DEF EventsOf
<1>3. DOMAIN l = 1 .. Len(l) /\ Len(l) \in Nat /\ l[i] \in Messages /\ l[j] \in Messages
  BY LenProperties, ElementOfSeq
<1>4. l[i].partition = l[j].partition /\ l[i].offset = l[j].offset /\ g = h
  BY <1>1, <1>2 DEF AckKey, Event
<1>5. ~(i < j) /\ ~(j < i)
  BY <1>3, <1>4 DEF Numbered, Messages
<1>6. i = j
  BY <1>3, <1>5
<1> QED
  BY <1>1, <1>2, <1>4, <1>6

\* A message is acknowledged as the event it delivers, whatever its attempt.
LEMMA MessageAndEvent ==
    ASSUME NEW m \in Messages, NEW g
    PROVE  /\ AckKey(m, g) = AckKey(Event(m), g)
           /\ Event([m EXCEPT !.attempt = @ + 1]) = Event(m)
BY DEF AckKey, Event, Messages

-----------------------------------------------------------------------------
(* The invariant holds.                                                    *)

USE BusAssumption

\* A consumer that holds a message holds something.
LEMMA MessagesAreSomething == \A m \in Messages : m # Nothing
<1> SUFFICES ASSUME NEW m \in Messages, m = <<>> PROVE FALSE
  BY DEF Nothing
<1>1. "key" \in DOMAIN m
  BY DEF Messages
<1>2. DOMAIN <<>> = {}
  OBVIOUS
<1> QED
  BY <1>1, <1>2

\* A new bus is empty.
LEMMA BusInitially == BusInit => BusInv
<1> SUFFICES ASSUME BusInit PROVE BusInv
  OBVIOUS
<1> USE DEF BusInit
<1>1. EventsOf(<<>>) = {} /\ Numbered(<<>>)
  BY DEF EventsOf, Numbered
<1>2. Types
  <2>1. log \in Seq(Messages) /\ Len(log) = 0 /\ deadLetters \in Seq(Messages)
    BY EmptySeq
  <2>2. queues \in [Groups -> Seq(Messages)]
    BY EmptySeq
  <2>3. \A c \in Consumers : held[c] = Nothing /\ place[c] = "new"
    OBVIOUS
  <2>4. /\ held \in [Consumers -> Messages \cup {Nothing}]
        /\ place \in [Consumers -> {"new", "waiting", "holding", "ended"}]
    OBVIOUS
  <2>5. Len(log) <= MaxPublished
    BY <2>1
  <2>6. subscribed \subseteq Groups /\ closed \in BOOLEAN
    OBVIOUS
  <2> HIDE DEF BusInit
  <2> QED
    BY <2>1, <2>2, <2>3, <2>4, <2>5, <2>6 DEF Types
<1>3. Sourced
  BY <1>1 DEF Sourced
<1>4. \A g \in Groups : Distinct(queues[g]) /\ Ordered(queues[g])
  BY DEF Distinct, Ordered
<1> QED
  BY <1>1, <1>2, <1>3, <1>4 DEF BusInv, Single, Separate, Present, InOrder

\* A new event joins the queue of every group that has one.
LEMMA PublishKeepsInv ==
    ASSUME BusInv, NEW k \in Keys, Publish(k)
    PROVE  BusInv'
<1> DEFINE m == [key |-> k, partition |-> PartitionOf[k], offset |-> OffsetOf(k), attempt |-> 0]
           e0 == Event(m)
<1> USE DEF BusInv
<1>1. OffsetOf(k) = Cardinality(Entries(log, PartitionOf[k]))
  BY DEF OffsetOf, Entries
<1>2. m \in Messages
  <2>1. OffsetOf(k) \in 0 .. Len(log) /\ Len(log) \in Nat /\ Len(log) < MaxPublished
    BY <1>1, EntriesAreFinite, LenProperties DEF Types, Publish
  <2>2. OffsetOf(k) \in 0 .. MaxPublished
    BY <2>1
  <2> QED
    BY <2>2 DEF Messages
<1>3. /\ log' = Append(log, m)
      /\ queues' = [g \in Groups |-> IF g \in subscribed THEN Append(queues[g], m) ELSE queues[g]]
      /\ UNCHANGED <<subscribed, acknowledged, held, place, deadLetters, dropped, closed>>
      /\ Len(log) < MaxPublished
  BY DEF Publish
<1>4. m.attempt = 0 /\ m.partition = PartitionOf[m.key] /\ m.key = k
      /\ m.offset = Cardinality(Entries(log, m.partition))
  BY <1>1
<1> HIDE DEF m
<1>5. /\ Numbered(log')
      /\ e0 \notin EventsOf(log)
      /\ \A i \in DOMAIN log : log[i].partition = m.partition => log[i].offset < m.offset
  BY <1>2, <1>3, <1>4, PublishedLogIsNumbered DEF Types
<1>6. EventsOf(log') = EventsOf(log) \cup {e0}
  BY <1>2, <1>3, AppendedEvents DEF Types
<1>7. ASSUME NEW g \in Groups
      PROVE  /\ g \in subscribed => EventsOf(queues'[g]) = EventsOf(queues[g]) \cup {e0}
             /\ g \notin subscribed => queues'[g] = queues[g]
             /\ Distinct(queues'[g])
             /\ queues'[g] \in Seq(Messages)
  <2>1. queues[g] \in Seq(Messages) /\ e0 \notin EventsOf(queues[g]) /\ Distinct(queues[g])
    BY <1>5 DEF Types, Sourced, Single
  <2> QED
    BY <1>2, <1>3, <2>1, AppendedEvents, AppendToQueue
<1>8. Types'
  <2>1. log' \in Seq(Messages) /\ Len(log') <= MaxPublished
    BY <1>2, <1>3, AppendToQueue DEF Types
  <2>2. queues' \in [Groups -> Seq(Messages)]
    BY <1>3, <1>7
  <2> QED
    BY <1>3, <2>1, <2>2 DEF Types
<1>9. Sourced'
  <2>1. \A g \in Groups : EventsOf(queues'[g]) \subseteq EventsOf(log')
    BY <1>6, <1>7 DEF Sourced
  <2>2. \A g \in Groups \ subscribed' : queues'[g] = <<>>
    BY <1>3, <1>7 DEF Sourced
  <2> QED
    BY <1>3, <1>6, <2>1, <2>2 DEF Sourced
<1>10. \A h \in Groups : ~Acked(h, e0) /\ ~Dropped(h, e0) /\ ~InHand(h, e0)
  <2>1. ASSUME NEW h \in Groups, AckKey(e0, h) \in acknowledged PROVE FALSE
    <3>1. PICK g \in subscribed, e \in EventsOf(log) : AckKey(e0, h) = AckKey(e, g)
      BY <2>1 DEF Sourced
    <3>2. log' \in Seq(Messages) /\ e0 \in EventsOf(log') /\ e \in EventsOf(log')
      BY <1>6, <1>8 DEF Types
    <3>3. e0 = e
      BY <1>5, <3>1, <3>2, AckKeysIdentify
    <3> QED
      BY <1>5, <3>3
  <2>2. \A h \in Groups : <<h, e0>> \notin dropped
    BY <1>5 DEF Sourced
  <2> QED
    BY <1>5, <2>1, <2>2 DEF Sourced, Acked, Dropped, InHand, Holds
<1>11. Single'
  <2>1. \A g \in Groups : Distinct(queues'[g])
    BY <1>7
  <2>2. \A g \in Groups, e \in EventsOf(log') : \A c, d \in Consumers :
          Holds(c, g, e) /\ Holds(d, g, e) => c = d
    BY <1>6, <1>10 DEF Single, InHand
  <2> QED
    BY <1>3, <2>1, <2>2 DEF Single, Holds
<1>12. Separate' /\ Present'
  <2>1. ASSUME NEW g \in Groups, NEW e \in EventsOf(log')
        PROVE  /\ e \in EventsOf(queues'[g]) => ~InHand(g, e) /\ ~Acked(g, e) /\ ~Dropped(g, e)
               /\ InHand(g, e) => ~Acked(g, e) /\ ~Dropped(g, e)
               /\ Acked(g, e) => ~Dropped(g, e)
               /\ g \in subscribed =>
                    e \in EventsOf(queues'[g]) \/ InHand(g, e) \/ Acked(g, e) \/ Dropped(g, e)
    <3>1. CASE e = e0
      BY <1>7, <1>10, <3>1
    <3>2. CASE e # e0
      BY <1>6, <1>7, <3>2 DEF Separate, Present, Queued, Types
    <3> QED
      BY <3>1, <3>2
  <2>2. \A g, e : /\ InHand(g, e)' <=> InHand(g, e)
                  /\ Acked(g, e)' <=> Acked(g, e)
                  /\ Dropped(g, e)' <=> Dropped(g, e)
    BY <1>3 DEF InHand, Holds, Acked, Dropped
  <2>3. subscribed' = subscribed /\ subscribed \subseteq Groups
    BY <1>3 DEF Types
  <2> QED
    BY <2>1, <2>2, <2>3 DEF Separate, Present, Queued
<1>13. InOrder'
  <2> SUFFICES ASSUME NEW g \in Groups PROVE Ordered(queues'[g])
    BY DEF InOrder
  <2>1. CASE g \notin subscribed
    BY <1>7, <2>1 DEF InOrder
  <2>2. CASE g \in subscribed
    <3> DEFINE q == queues[g]
               a == Append(q, m)
    <3>1. /\ q \in Seq(Messages)
          /\ queues'[g] = a
          /\ EventsOf(q) \subseteq EventsOf(log)
          /\ Ordered(q)
      BY <1>3, <2>2 DEF Types, Sourced, InOrder
    <3>2. /\ DOMAIN a = 1 .. Len(q) + 1
          /\ DOMAIN q = 1 .. Len(q)
          /\ \A i \in DOMAIN q : a[i] = q[i]
          /\ a[Len(q) + 1] = m
          /\ Len(q) \in Nat
      BY <1>2, <3>1, AppendToQueue
    <3> HIDE DEF a, q
    <3> SUFFICES ASSUME NEW i \in DOMAIN a, NEW j \in DOMAIN a, i < j, a[i].key = a[j].key,
                        a[i].attempt = 0, a[j].attempt = 0
                 PROVE  a[i].offset < a[j].offset
      BY <3>1 DEF Ordered
    <3>3. i \in DOMAIN q
      BY <3>2
    <3>4. CASE j \in DOMAIN q
      BY <3>1, <3>2, <3>3, <3>4 DEF Ordered
    <3>5. CASE j = Len(q) + 1
      <4>1. PICK n \in DOMAIN log : Event(q[i]) = Event(log[n])
        BY <3>1, <3>3 DEF EventsOf
      <4>2. q[i].key = log[n].key /\ q[i].offset = log[n].offset
        BY <4>1 DEF Event
      <4>3. log[n].key = k /\ log[n].partition = PartitionOf[log[n].key]
        BY <1>4, <3>2, <3>3, <3>5, <4>2 DEF Numbered
      <4> QED
        BY <1>4, <1>5, <3>2, <3>3, <3>5, <4>2, <4>3
    <3> QED
      BY <3>2, <3>4, <3>5
  <2> QED
    BY <2>1, <2>2
<1> QED
  BY <1>5, <1>8, <1>9, <1>11, <1>12, <1>13

\* The first consumer of a group gets what was published before.
LEMMA SubscribeKeepsInv ==
    ASSUME BusInv, NEW c \in Consumers, Subscribe(c)
    PROVE  BusInv'
<1> DEFINE g == GroupOf[c]
<1> USE DEF BusInv
<1>1. /\ UNCHANGED <<log, acknowledged, held, deadLetters, dropped, closed>>
      /\ place[c] = "new"
      /\ g \in Groups
      /\ \A d \in Consumers : d # c => place'[d] = place[d]
      /\ place'[c] \in {"waiting", "ended"}
      /\ place' \in [Consumers -> {"new", "waiting", "holding", "ended"}]
  BY DEF Subscribe, Types
<1>2. \A d, h, e : d \in Consumers => (Holds(d, h, e)' <=> Holds(d, h, e))
  BY <1>1 DEF Holds
<1>3. \A h, e : /\ InHand(h, e)' <=> InHand(h, e)
                /\ Acked(h, e)' <=> Acked(h, e)
                /\ Dropped(h, e)' <=> Dropped(h, e)
  BY <1>1, <1>2 DEF InHand, Acked, Dropped
<1>4. CASE queues' = queues /\ subscribed' = subscribed \cup (IF closed THEN {} ELSE {g})
           /\ (closed \/ g \in subscribed)
  <2>1. subscribed' = subscribed
    BY <1>4
  <2>2. Types'
    BY <1>1, <1>4, <2>1 DEF Types
  <2>3. place'[c] = "waiting" => g \in subscribed
    BY <1>4 DEF Subscribe, Types
  <2>4. Sourced'
    BY <1>1, <1>4, <2>1, <2>3 DEF Sourced
  <2> QED
    BY <1>1, <1>2, <1>3, <1>4, <2>1, <2>2, <2>4 DEF Single, Separate, Present, InOrder, Queued
<1>5. CASE ~closed /\ g \notin subscribed /\ queues' = [queues EXCEPT ![g] = log]
           /\ subscribed' = subscribed \cup {g}
  <2>1. /\ queues'[g] = log
        /\ \A h \in Groups : h # g => queues'[h] = queues[h]
        /\ queues' \in [Groups -> Seq(Messages)]
    BY <1>1, <1>5 DEF Types
  <2>2. Types'
    BY <1>1, <1>5, <2>1 DEF Types
  <2>3. Sourced'
    <3>1. \A h \in Groups : EventsOf(queues'[h]) \subseteq EventsOf(log')
      BY <1>1, <2>1 DEF Sourced
    <3>2. \A h \in Groups \ subscribed' : queues'[h] = <<>>
      BY <1>1, <1>5, <2>1 DEF Sourced
    <3>3. \A d \in Consumers : place'[d] \in {"waiting", "holding"} => GroupOf[d] \in subscribed'
      BY <1>1, <1>5 DEF Sourced
    <3>4. /\ \A k \in acknowledged' : \E h \in subscribed', e \in EventsOf(log') : k = AckKey(e, h)
          /\ \A d \in dropped' : \E h \in subscribed', e \in EventsOf(log') : d = <<h, e>>
      BY <1>1, <1>5 DEF Sourced
    <3>5. \A d \in Consumers : place'[d] = "holding" => Event(held'[d]) \in EventsOf(log')
      BY <1>1 DEF Sourced
    <3> QED
      BY <3>1, <3>2, <3>3, <3>4, <3>5 DEF Sourced
  <2>4. \A e \in EventsOf(log) : ~InHand(g, e) /\ ~Acked(g, e) /\ ~Dropped(g, e)
    <3>1. ASSUME NEW e \in EventsOf(log), AckKey(e, g) \in acknowledged PROVE FALSE
      <4>1. PICK h \in subscribed, f \in EventsOf(log) : AckKey(e, g) = AckKey(f, h)
        BY <3>1 DEF Sourced
      <4>2. g = h
        BY <4>1, AckKeysIdentify DEF Types
      <4> QED
        BY <1>5, <4>2
    <3> QED
      BY <1>5, <3>1 DEF Sourced, InHand, Holds, Acked, Dropped
  <2>5. Distinct(log) /\ Ordered(log)
    <3>1. \A i \in DOMAIN log : i \in Nat /\ log[i] \in Messages
      BY LenProperties, ElementOfSeq DEF Types
    <3>2. Distinct(log)
      <4> SUFFICES ASSUME NEW i \in DOMAIN log, NEW j \in DOMAIN log, Event(log[i]) = Event(log[j])
                   PROVE  i = j
        BY DEF Distinct
      <4>1. log[i].partition = log[j].partition /\ log[i].offset = log[j].offset
        BY DEF Event
      <4>2. log[i].offset \in Nat /\ log[j].offset \in Nat
        BY <3>1 DEF Messages
      <4>3. Numbered(log)
        OBVIOUS
      <4>4. ~(log[i].offset < log[j].offset) /\ ~(log[j].offset < log[i].offset)
        BY <4>1, <4>2
      <4>5. ~(i < j) /\ ~(j < i)
        BY <4>1, <4>3, <4>4 DEF Numbered
      <4> QED
        BY <3>1, <4>5
    <3>3. Ordered(log)
      BY DEF Numbered, Ordered
    <3> QED
      BY <3>2, <3>3
  <2>6. Single'
    BY <1>1, <1>2, <2>1, <2>5 DEF Single
  <2>7. Separate'
    <3> SUFFICES ASSUME NEW h \in Groups, NEW e \in EventsOf(log)'
                 PROVE  /\ Queued(h, e)' => ~InHand(h, e)' /\ ~Acked(h, e)' /\ ~Dropped(h, e)'
                        /\ InHand(h, e)' => ~Acked(h, e)' /\ ~Dropped(h, e)'
                        /\ Acked(h, e)' => ~Dropped(h, e)'
      BY DEF Separate
    <3>1. e \in EventsOf(log)
      BY <1>1
    <3> QED
      BY <1>1, <1>3, <2>1, <2>4, <3>1 DEF Separate, Queued
  <2>8. Present'
    BY <1>1, <1>3, <1>5, <2>1 DEF Present, Queued, Types
  <2>9. InOrder'
    BY <2>1, <2>5 DEF InOrder
  <2> QED
    BY <1>1, <2>2, <2>3, <2>6, <2>7, <2>8, <2>9
<1> QED
  BY <1>4, <1>5 DEF Subscribe

\* A consumer takes the oldest message, which its group has not acknowledged.
LEMMA TakeKeepsInv ==
    ASSUME BusInv, NEW c \in Consumers, Take(c)
    PROVE  BusInv'
<1> DEFINE g == GroupOf[c]
           m == Head(queues[g])
           e0 == Event(m)
<1> USE DEF BusInv
<1>1. /\ place[c] = "waiting" /\ queues[g] # <<>>
      /\ queues' = [queues EXCEPT ![g] = Tail(@)]
      /\ UNCHANGED <<log, subscribed, acknowledged, deadLetters, dropped, closed>>
      /\ g \in Groups /\ g \in subscribed
      /\ queues[g] \in Seq(Messages)
  BY DEF Take, Types, Sourced
<1>2. /\ m \in Messages
      /\ e0 \in EventsOf(queues[g])
      /\ e0 \in EventsOf(log)
      /\ EventsOf(queues[g]) \subseteq EventsOf(Tail(queues[g])) \cup {e0}
      /\ EventsOf(Tail(queues[g])) \subseteq EventsOf(queues[g])
      /\ e0 \notin EventsOf(Tail(queues[g]))
      /\ Distinct(Tail(queues[g])) /\ Ordered(Tail(queues[g]))
      /\ Tail(queues[g]) \in Seq(Messages)
  BY <1>1, TakenEvents, TakeFromQueue DEF Sourced, Single, InOrder
<1>3. ~Acked(g, e0) /\ ~InHand(g, e0) /\ ~Dropped(g, e0)
  BY <1>1, <1>2 DEF Separate, Queued
<1>4. AckKey(m, g) \notin acknowledged
  BY <1>2, <1>3, MessageAndEvent DEF Acked
<1>5. /\ held' = [held EXCEPT ![c] = m]
      /\ place' = [place EXCEPT ![c] = "holding"]
  BY <1>4 DEF Take
<1> HIDE DEF m
<1>6. /\ \A h \in Groups : h # g => queues'[h] = queues[h]
      /\ queues'[g] = Tail(queues[g])
      /\ queues' \in [Groups -> Seq(Messages)]
  BY <1>1, <1>2 DEF Types
<1>7. /\ held'[c] = m /\ place'[c] = "holding"
      /\ \A d \in Consumers : d # c => held'[d] = held[d] /\ place'[d] = place[d]
      /\ held' \in [Consumers -> Messages \cup {Nothing}]
      /\ place' \in [Consumers -> {"new", "waiting", "holding", "ended"}]
      /\ m # Nothing
  BY <1>2, <1>5, MessagesAreSomething DEF Types
<1>8. Types'
  BY <1>1, <1>6, <1>7 DEF Types
<1>9. Sourced'
  <2>1. \A h \in Groups : EventsOf(queues'[h]) \subseteq EventsOf(log')
    BY <1>1, <1>2, <1>6 DEF Sourced
  <2>2. \A h \in Groups \ subscribed' : queues'[h] = <<>>
    BY <1>1, <1>6 DEF Sourced
  <2>3. \A d \in Consumers : /\ place'[d] \in {"waiting", "holding"} => GroupOf[d] \in subscribed'
                             /\ place'[d] = "holding" => Event(held'[d]) \in EventsOf(log')
    BY <1>1, <1>2, <1>7 DEF Sourced
  <2> QED
    BY <1>1, <2>1, <2>2, <2>3 DEF Sourced
<1>10. \A d, h, e : d \in Consumers =>
          (Holds(d, h, e)' <=> Holds(d, h, e) \/ (d = c /\ h = g /\ e = e0))
  BY <1>1, <1>7 DEF Holds
<1>11. \A h, e : InHand(h, e)' <=> InHand(h, e) \/ (h = g /\ e = e0)
  BY <1>10 DEF InHand
<1>12. \A h, e : /\ Acked(h, e)' <=> Acked(h, e)
                 /\ Dropped(h, e)' <=> Dropped(h, e)
  BY <1>1 DEF Acked, Dropped
<1>13. \A h, e : h \in Groups => (Queued(h, e)' <=> Queued(h, e) /\ ~(h = g /\ e = e0))
  BY <1>2, <1>6 DEF Queued
<1>14. Single'
  <2>1. \A h \in Groups : Distinct(queues'[h])
    BY <1>2, <1>6 DEF Single
  <2>2. \A h \in Groups, e \in EventsOf(log) : \A d, f \in Consumers :
            Holds(d, h, e)' /\ Holds(f, h, e)' => d = f
    BY <1>3, <1>10 DEF Single, InHand
  <2> QED
    BY <1>1, <2>1, <2>2 DEF Single
<1>15. Separate' /\ Present'
  BY <1>1, <1>3, <1>11, <1>12, <1>13 DEF Separate, Present, Types
<1>16. InOrder'
  BY <1>2, <1>6 DEF InOrder
<1> QED
  BY <1>1, <1>8, <1>9, <1>14, <1>15, <1>16

\* What holds when a consumer is rid of the message it worked on.
LEMMA Released ==
    ASSUME BusInv, NEW c \in Consumers, place[c] = "holding", NEW next \in {"waiting", "ended"},
           held' = [held EXCEPT ![c] = Nothing], place' = [place EXCEPT ![c] = next],
           log' = log, subscribed' = subscribed
    PROVE  /\ GroupOf[c] \in Groups /\ GroupOf[c] \in subscribed
           /\ held[c] \in Messages
           /\ Event(held[c]) \in EventsOf(log)
           /\ InHand(GroupOf[c], Event(held[c]))
           /\ held' \in [Consumers -> Messages \cup {Nothing}]
           /\ place' \in [Consumers -> {"new", "waiting", "holding", "ended"}]
           /\ \A d \in Consumers : place'[d] = "holding" <=> held'[d] # Nothing
           /\ \A d \in Consumers : place'[d] = "holding" => Event(held'[d]) \in EventsOf(log)
           /\ \A d \in Consumers : place'[d] \in {"waiting", "holding"} => GroupOf[d] \in subscribed
           /\ \A h, e : h \in Groups /\ e \in EventsOf(log) =>
                 (InHand(h, e)' <=> InHand(h, e) /\ ~(h = GroupOf[c] /\ e = Event(held[c])))
           /\ \A h \in Groups, e \in EventsOf(log) : \A d, f \in Consumers :
                 Holds(d, h, e)' /\ Holds(f, h, e)' => d = f
<1> USE DEF BusInv
<1>1. /\ held'[c] = Nothing /\ place'[c] = next
      /\ \A d \in Consumers : d # c => held'[d] = held[d] /\ place'[d] = place[d]
      /\ held' \in [Consumers -> Messages \cup {Nothing}]
      /\ place' \in [Consumers -> {"new", "waiting", "holding", "ended"}]
      /\ next # "holding"
  BY DEF Types
<1>2. /\ GroupOf[c] \in Groups /\ GroupOf[c] \in subscribed
      /\ held[c] \in Messages
      /\ Event(held[c]) \in EventsOf(log)
      /\ Holds(c, GroupOf[c], Event(held[c]))
  BY DEF Types, Sourced, Holds
<1>3. \A d, h, e : d \in Consumers => (Holds(d, h, e)' <=> Holds(d, h, e) /\ d # c)
  BY <1>1 DEF Holds
<1>4. \A d \in Consumers : /\ place'[d] = "holding" <=> held'[d] # Nothing
                           /\ place'[d] = "holding" => Event(held'[d]) \in EventsOf(log)
                           /\ place'[d] \in {"waiting", "holding"} => GroupOf[d] \in subscribed
  BY <1>1, <1>2 DEF Types, Sourced
<1>5. \A h, e : h \in Groups /\ e \in EventsOf(log) =>
          (InHand(h, e)' <=> InHand(h, e) /\ ~(h = GroupOf[c] /\ e = Event(held[c])))
  <2> SUFFICES ASSUME NEW h \in Groups, NEW e \in EventsOf(log)
               PROVE  (\E d \in Consumers : Holds(d, h, e)') <=>
                      InHand(h, e) /\ ~(h = GroupOf[c] /\ e = Event(held[c]))
    BY DEF InHand
  <2>1. Holds(c, h, e) => h = GroupOf[c] /\ e = Event(held[c])
    BY DEF Holds
  <2> QED
    BY <1>2, <1>3, <2>1 DEF InHand, Single
<1>6. \A h \in Groups, e \in EventsOf(log) : \A d, f \in Consumers :
          Holds(d, h, e)' /\ Holds(f, h, e)' => d = f
  BY <1>3 DEF Single
<1> QED
  BY <1>1, <1>2, <1>4, <1>5, <1>6 DEF InHand

\* acknowledge(): the group is done with the event, by itself or as part of
\* dead_letter().
LEMMA AcknowledgingKeepsInv ==
    ASSUME BusInv, NEW c \in Consumers, Acknowledge(c) \/ DeadLetter(c)
    PROVE  BusInv'
<1> DEFINE g == GroupOf[c]
           e0 == Event(held[c])
<1> USE DEF BusInv
<1>1. /\ place[c] = "holding"
      /\ acknowledged' = acknowledged \cup {AckKey(held[c], g)}
      /\ UNCHANGED <<log, queues, subscribed, dropped, closed>>
      /\ \E next \in {"waiting", "ended"} : place' = [place EXCEPT ![c] = next]
      /\ held' = [held EXCEPT ![c] = Nothing]
      /\ deadLetters' = deadLetters \/ deadLetters' = Append(deadLetters, held[c])
  BY DEF Acknowledge, DeadLetter, Finished, LoopHead
<1>2. /\ g \in Groups /\ g \in subscribed
      /\ held[c] \in Messages
      /\ e0 \in EventsOf(log)
      /\ InHand(g, e0)
      /\ held' \in [Consumers -> Messages \cup {Nothing}]
      /\ place' \in [Consumers -> {"new", "waiting", "holding", "ended"}]
      /\ \A d \in Consumers : place'[d] = "holding" <=> held'[d] # Nothing
      /\ \A d \in Consumers : place'[d] = "holding" => Event(held'[d]) \in EventsOf(log)
      /\ \A d \in Consumers : place'[d] \in {"waiting", "holding"} => GroupOf[d] \in subscribed
      /\ \A h, e : h \in Groups /\ e \in EventsOf(log) =>
            (InHand(h, e)' <=> InHand(h, e) /\ ~(h = g /\ e = e0))
      /\ \A h \in Groups, e \in EventsOf(log) : \A d, f \in Consumers :
            Holds(d, h, e)' /\ Holds(f, h, e)' => d = f
  BY <1>1, Released
<1>3. AckKey(held[c], g) = AckKey(e0, g)
  BY <1>2, MessageAndEvent
<1>4. \A h, e : e \in EventsOf(log) => (Acked(h, e)' <=> Acked(h, e) \/ (h = g /\ e = e0))
  BY <1>1, <1>2, <1>3, AckKeysIdentify DEF Acked, Types
<1>5. Types'
  <2>1. deadLetters' \in Seq(Messages)
    <3>1. deadLetters \in Seq(Messages)
      BY DEF Types
    <3>2. Append(deadLetters, held[c]) \in Seq(Messages)
      BY <1>2, <3>1, AppendToQueue
    <3> QED
      BY <1>1, <3>1, <3>2
  <2> QED
    BY <1>1, <1>2, <2>1 DEF Types
<1>6. Sourced'
  <2>1. \A k \in acknowledged' : \E h \in subscribed, e \in EventsOf(log) : k = AckKey(e, h)
    BY <1>1, <1>2, <1>3 DEF Sourced
  <2> QED
    BY <1>1, <1>2, <2>1 DEF Sourced
<1>7. \A h, e : Queued(h, e)' <=> Queued(h, e)
  BY <1>1 DEF Queued
<1>8. \A h, e : Dropped(h, e)' <=> Dropped(h, e)
  BY <1>1 DEF Dropped
<1>9. Single'
  BY <1>1, <1>2 DEF Single
<1>10. Separate' /\ Present'
  BY <1>1, <1>2, <1>4, <1>7, <1>8 DEF Separate, Present, Types
<1> QED
  BY <1>1, <1>5, <1>6, <1>9, <1>10 DEF InOrder

\* The consumer's task ends: what it held is lost to the group.
LEMMA EndingKeepsInv ==
    ASSUME BusInv, NEW c \in Consumers, Ends(c), place[c] \in {"waiting", "holding"}
    PROVE  BusInv'
<1> DEFINE g == GroupOf[c]
           e0 == Event(held[c])
<1> USE DEF BusInv
<1>1. /\ place' = [place EXCEPT ![c] = "ended"]
      /\ held' = [held EXCEPT ![c] = Nothing]
      /\ UNCHANGED <<log, queues, subscribed, acknowledged, deadLetters, closed>>
  BY DEF Ends
<1>2. \A h, e : /\ Queued(h, e)' <=> Queued(h, e)
                /\ Acked(h, e)' <=> Acked(h, e)
  BY <1>1 DEF Queued, Acked
<1>3. CASE place[c] = "holding"
  <2>1. dropped' = dropped \cup {<<g, e0>>}
    BY <1>3 DEF Ends
  <2>2. /\ g \in Groups /\ g \in subscribed
        /\ e0 \in EventsOf(log)
        /\ InHand(g, e0)
        /\ held' \in [Consumers -> Messages \cup {Nothing}]
        /\ place' \in [Consumers -> {"new", "waiting", "holding", "ended"}]
        /\ \A d \in Consumers : place'[d] = "holding" <=> held'[d] # Nothing
        /\ \A d \in Consumers : place'[d] = "holding" => Event(held'[d]) \in EventsOf(log)
        /\ \A d \in Consumers : place'[d] \in {"waiting", "holding"} => GroupOf[d] \in subscribed
        /\ \A h, e : h \in Groups /\ e \in EventsOf(log) =>
              (InHand(h, e)' <=> InHand(h, e) /\ ~(h = g /\ e = e0))
        /\ \A h \in Groups, e \in EventsOf(log) : \A d, f \in Consumers :
              Holds(d, h, e)' /\ Holds(f, h, e)' => d = f
    BY <1>1, <1>3, Released
  <2>3. \A h, e : Dropped(h, e)' <=> Dropped(h, e) \/ (h = g /\ e = e0)
    BY <2>1 DEF Dropped
  <2>4. Types'
    BY <1>1, <2>2 DEF Types
  <2>5. Sourced'
    BY <1>1, <2>1, <2>2 DEF Sourced
  <2>6. Single'
    BY <1>1, <2>2 DEF Single
  <2>7. Separate' /\ Present'
    BY <1>1, <1>2, <2>2, <2>3 DEF Separate, Present, Types
  <2> QED
    BY <1>1, <2>4, <2>5, <2>6, <2>7 DEF InOrder
<1>4. CASE place[c] = "waiting"
  <2>1. dropped' = dropped
    BY <1>4 DEF Ends
  <2>2. /\ \A d \in Consumers : d # c => held'[d] = held[d] /\ place'[d] = place[d]
        /\ held'[c] = Nothing /\ place'[c] = "ended"
        /\ held' \in [Consumers -> Messages \cup {Nothing}]
        /\ place' \in [Consumers -> {"new", "waiting", "holding", "ended"}]
    BY <1>1 DEF Types
  <2>3. \A d, h, e : d \in Consumers => (Holds(d, h, e)' <=> Holds(d, h, e))
    BY <1>4, <2>2 DEF Holds
  <2>4. \A h, e : /\ InHand(h, e)' <=> InHand(h, e)
                  /\ Dropped(h, e)' <=> Dropped(h, e)
    BY <2>1, <2>3 DEF InHand, Dropped
  <2>5. Types'
    BY <1>1, <2>2 DEF Types
  <2>6. Sourced'
    BY <1>1, <2>1, <2>2 DEF Sourced
  <2>7. Single'
    BY <1>1, <2>3 DEF Single
  <2>8. Separate' /\ Present'
    BY <1>1, <1>2, <2>4 DEF Separate, Present
  <2> QED
    BY <1>1, <2>5, <2>6, <2>7, <2>8 DEF InOrder
<1> QED
  BY <1>3, <1>4

\* retry(): the event goes to the end of its group's queue.
LEMMA RetryKeepsInv ==
    ASSUME BusInv, NEW c \in Consumers, Retry(c)
    PROVE  BusInv'
<1> DEFINE g == GroupOf[c]
           e0 == Event(held[c])
           m == [held[c] EXCEPT !.attempt = @ + 1]
<1> USE DEF BusInv
<1>1. /\ place[c] = "holding"
      /\ queues' = [queues EXCEPT ![g] = Append(@, m)]
      /\ UNCHANGED <<log, subscribed, acknowledged, deadLetters, dropped, closed>>
      /\ \E next \in {"waiting", "ended"} : place' = [place EXCEPT ![c] = next]
      /\ held' = [held EXCEPT ![c] = Nothing]
      /\ held[c].attempt + 1 < MaxAttempts
  BY DEF Retry, Finished, LoopHead
<1>2. /\ g \in Groups /\ g \in subscribed
      /\ held[c] \in Messages
      /\ e0 \in EventsOf(log)
      /\ InHand(g, e0)
      /\ held' \in [Consumers -> Messages \cup {Nothing}]
      /\ place' \in [Consumers -> {"new", "waiting", "holding", "ended"}]
      /\ \A d \in Consumers : place'[d] = "holding" <=> held'[d] # Nothing
      /\ \A d \in Consumers : place'[d] = "holding" => Event(held'[d]) \in EventsOf(log)
      /\ \A d \in Consumers : place'[d] \in {"waiting", "holding"} => GroupOf[d] \in subscribed
      /\ \A h, e : h \in Groups /\ e \in EventsOf(log) =>
            (InHand(h, e)' <=> InHand(h, e) /\ ~(h = g /\ e = e0))
      /\ \A h \in Groups, e \in EventsOf(log) : \A d, f \in Consumers :
            Holds(d, h, e)' /\ Holds(f, h, e)' => d = f
  BY <1>1, Released
<1>3. m \in Messages /\ m.attempt # 0 /\ Event(m) = e0
  <2>1. held[c].attempt + 1 \in 0 .. MaxAttempts - 1 /\ held[c].attempt \in Nat
    BY <1>1, <1>2 DEF Messages
  <2>2. m \in Messages /\ m.attempt = held[c].attempt + 1
    BY <1>2, <2>1 DEF Messages
  <2>3. Event(m) = e0
    BY <1>2, MessageAndEvent
  <2> QED
    BY <2>1, <2>2, <2>3
<1> HIDE DEF m
<1>4. /\ queues[g] \in Seq(Messages)
      /\ e0 \notin EventsOf(queues[g])
      /\ ~Acked(g, e0) /\ ~Dropped(g, e0)
      /\ Distinct(queues[g]) /\ Ordered(queues[g])
      /\ EventsOf(queues[g]) \subseteq EventsOf(log)
  BY <1>2 DEF Types, Separate, Queued, Single, InOrder, Sourced
<1>5. /\ Append(queues[g], m) \in Seq(Messages)
      /\ EventsOf(Append(queues[g], m)) = EventsOf(queues[g]) \cup {e0}
      /\ Distinct(Append(queues[g], m))
  BY <1>3, <1>4, AppendedEvents, AppendToQueue
<1>6. /\ \A h \in Groups : h # g => queues'[h] = queues[h]
      /\ queues'[g] = Append(queues[g], m)
      /\ queues' \in [Groups -> Seq(Messages)]
  BY <1>1, <1>2, <1>5 DEF Types
<1>7. Types'
  BY <1>1, <1>2, <1>6 DEF Types
<1>8. Sourced'
  <2>1. \A h \in Groups : EventsOf(queues'[h]) \subseteq EventsOf(log')
    BY <1>1, <1>2, <1>4, <1>5, <1>6 DEF Sourced
  <2>2. \A h \in Groups \ subscribed' : queues'[h] = <<>>
    BY <1>1, <1>2, <1>6 DEF Sourced
  <2> QED
    BY <1>1, <1>2, <2>1, <2>2 DEF Sourced
<1>9. \A h, e : h \in Groups => (Queued(h, e)' <=> Queued(h, e) \/ (h = g /\ e = e0))
  BY <1>5, <1>6 DEF Queued
<1>10. \A h, e : /\ Acked(h, e)' <=> Acked(h, e)
                 /\ Dropped(h, e)' <=> Dropped(h, e)
  BY <1>1 DEF Acked, Dropped
<1>11. Single'
  <2>1. \A h \in Groups : Distinct(queues'[h])
    BY <1>5, <1>6 DEF Single
  <2> QED
    BY <1>1, <1>2, <2>1 DEF Single
<1>12. Separate' /\ Present'
  BY <1>1, <1>2, <1>4, <1>9, <1>10 DEF Separate, Present, Types
<1>13. Ordered(Append(queues[g], m))
  <2> DEFINE q == queues[g]
             a == Append(q, m)
  <2>1. /\ DOMAIN a = 1 .. Len(q) + 1
        /\ DOMAIN q = 1 .. Len(q)
        /\ \A i \in DOMAIN q : a[i] = q[i]
        /\ a[Len(q) + 1] = m
        /\ Len(q) \in Nat
    BY <1>3, <1>4, AppendToQueue
  <2>2. Ordered(q)
    BY <1>4
  <2> HIDE DEF a, q
  <2>3. Ordered(a)
    BY <1>3, <2>1, <2>2 DEF Ordered
  <2> QED
    BY <2>3 DEF a, q
<1>14. InOrder'
  BY <1>6, <1>13 DEF InOrder
<1> QED
  BY <1>1, <1>7, <1>8, <1>11, <1>12, <1>14

\* close() and steps that change nothing.
LEMMA ClosingKeepsInv ==
    ASSUME BusInv, Close \/ UNCHANGED busVars
    PROVE  BusInv'
<1>1. /\ UNCHANGED <<log, queues, subscribed, acknowledged, held, place, deadLetters, dropped>>
      /\ closed \in BOOLEAN => closed' \in BOOLEAN
  BY DEF Close, busVars
<1> QED
  BY <1>1 DEF BusInv, Types, Sourced, Single, Separate, Present, InOrder, Queued, InHand, Holds,
              Acked, Dropped

\* The invariant of the in-memory bus.
THEOREM BusInvHolds == BusSpec => []BusInv
<1>1. BusInv /\ [BusNext]_busVars => BusInv'
  <2> SUFFICES ASSUME BusInv, [BusNext]_busVars PROVE BusInv'
    OBVIOUS
  <2>1. ASSUME NEW c \in Consumers, ConsumerStep(c) \/ Cancel(c) PROVE BusInv'
    BY <2>1, SubscribeKeepsInv, TakeKeepsInv, AcknowledgingKeepsInv, RetryKeepsInv, EndingKeepsInv
       DEF ConsumerStep, DeadLetterRaises, Cancel
  <2> QED
    BY <2>1, PublishKeepsInv, ClosingKeepsInv DEF BusNext
<1> QED
  BY BusInitially, <1>1, PTL DEF BusSpec

-----------------------------------------------------------------------------
(* The properties.                                                         *)

\* The state of the bus keeps its types, and no delivery has an attempt
\* beyond the bound.
THEOREM BusTypeCorrect == BusSpec => []InMemoryTypeOK
<1>1. BusInv => InMemoryTypeOK
  <2> SUFFICES ASSUME BusInv PROVE InMemoryTypeOK
    OBVIOUS
  <2>1. \A q \in Seq(Messages) : \A i \in DOMAIN q : q[i] \in Messages
    BY LenProperties, ElementOfSeq
  <2> QED
    BY <2>1 DEF BusInv, Types, InMemoryTypeOK
<1> QED
  BY BusInvHolds, <1>1, PTL

\* An event that is in one place is in exactly one.
LEMMA OnePlace ==
    ASSUME BusInv, NEW g \in subscribed, NEW e \in EventsOf(log)
    PROVE  Cardinality(Whereabouts(e, g)) = 1
<1> USE DEF BusInv
<1> DEFINE queued == {<<"queued", i>> : i \in {j \in DOMAIN queues[g] : Event(queues[g][j]) = e}}
           inHand == {<<"held", c>> : c \in {d \in Consumers : Holds(d, g, e)}}
           acked  == IF AckKey(e, g) \in acknowledged THEN {<<"acknowledged">>} ELSE {}
           lost   == IF <<g, e>> \in dropped THEN {<<"dropped">>} ELSE {}
<1>0. g \in Groups
  BY DEF Types
<1>1. Whereabouts(e, g) = queued \cup inHand \cup acked \cup lost
  BY DEF Whereabouts, Holds
<1>2. /\ ~Queued(g, e) => queued = {}
      /\ Queued(g, e) => \E w : queued = {w}
  <2>1. ~Queued(g, e) => queued = {}
    BY DEF Queued, EventsOf
  <2>2. ASSUME Queued(g, e) PROVE \E w : queued = {w}
    <3>1. PICK i \in DOMAIN queues[g] : Event(queues[g][i]) = e
      BY <2>2 DEF Queued, EventsOf
    <3>2. {j \in DOMAIN queues[g] : Event(queues[g][j]) = e} = {i}
      BY <1>0, <3>1 DEF Single, Distinct
    <3>3. queued = {<<"queued", i>>}
      BY <3>2
    <3> QED
      BY <3>3
  <2> QED
    BY <2>1, <2>2
<1>3. /\ ~InHand(g, e) => inHand = {}
      /\ InHand(g, e) => \E w : inHand = {w}
  <2>1. ~InHand(g, e) => inHand = {}
    BY DEF InHand
  <2>2. ASSUME InHand(g, e) PROVE \E w : inHand = {w}
    <3>1. PICK c \in Consumers : Holds(c, g, e)
      BY <2>2 DEF InHand
    <3>2. {d \in Consumers : Holds(d, g, e)} = {c}
      BY <1>0, <3>1 DEF Single
    <3>3. inHand = {<<"held", c>>}
      BY <3>2
    <3> QED
      BY <3>3
  <2> QED
    BY <2>1, <2>2
<1>4. /\ acked = IF Acked(g, e) THEN {<<"acknowledged">>} ELSE {}
      /\ lost = IF Dropped(g, e) THEN {<<"dropped">>} ELSE {}
  BY DEF Acked, Dropped
<1> HIDE DEF queued, inHand, acked, lost
<1>5. \E w : Whereabouts(e, g) = {w}
  BY <1>0, <1>1, <1>2, <1>3, <1>4 DEF Separate, Present
<1> QED
  BY <1>5, FS_Singleton

\* Each group has exactly one copy of each event.
THEOREM GroupsHaveOneCopy == BusSpec => []EachGroupHasOneCopy
<1>1. BusInv => EachGroupHasOneCopy
  BY OnePlace DEF EachGroupHasOneCopy, EventsOf
<1> QED
  BY BusInvHolds, <1>1, PTL

\* First deliveries of one key are in the order of publication.
THEOREM DeliveriesAreOrdered == BusSpec => []FirstDeliveriesInOrder
<1>1. BusInv => FirstDeliveriesInOrder
  BY DEF BusInv, InOrder, Ordered, FirstDeliveriesInOrder
<1> QED
  BY BusInvHolds, <1>1, PTL

-----------------------------------------------------------------------------
(* What the progress of an event rests on.                                 *)

\* A delivery that a group has before it.
Unfinished(g, m) ==
    \/ \E i \in DOMAIN queues[g] : queues[g][i] = m
    \/ \E c \in Consumers : GroupOf[c] = g /\ place[c] = "holding" /\ held[c] = m

\* An event the group is through with.
Over(g, e) == Acked(g, e) \/ Dropped(g, e)

\* Publications, retries, replay and restarts of consumers never set an event
\* back: what is over for a group is not delivered to it again, and the
\* attempt of what is not over never falls.
EventsMoveForward ==
    [][\A g \in Groups : \A m, n \in Messages :
        (Event(m) = Event(n) /\ Unfinished(g, n)') =>
            /\ ~Over(g, Event(m))
            /\ Unfinished(g, m) => m.attempt <= n.attempt]_busVars

\* An event that is not over stems from the log, and is delivered once.
LEMMA UnfinishedOnce ==
    ASSUME BusInv, NEW g \in Groups, NEW m, Unfinished(g, m)
    PROVE  /\ Event(m) \in EventsOf(log)
           /\ ~Over(g, Event(m))
           /\ \A n : Unfinished(g, n) /\ Event(n) = Event(m) => n = m
<1> USE DEF BusInv
<1>1. \A n : Unfinished(g, n) =>
          \/ Queued(g, Event(n)) /\ \E i \in DOMAIN queues[g] : queues[g][i] = n
          \/ \E c \in Consumers : Holds(c, g, Event(n)) /\ held[c] = n
  BY DEF Unfinished, Queued, EventsOf, Holds
<1>2. Event(m) \in EventsOf(log)
  BY <1>1 DEF Sourced, Queued, Holds
<1>3. ~Over(g, Event(m))
  BY <1>1, <1>2 DEF Separate, Over, InHand
<1>4. ASSUME NEW n, Unfinished(g, n), Event(n) = Event(m) PROVE n = m
  <2>1. CASE Queued(g, Event(m))
    <3>1. \A c \in Consumers : ~Holds(c, g, Event(m))
      BY <1>2, <2>1 DEF Separate, InHand
    <3>2. PICK i \in DOMAIN queues[g], j \in DOMAIN queues[g] : queues[g][i] = m /\ queues[g][j] = n
      BY <1>1, <1>4, <3>1
    <3> QED
      BY <1>4, <3>2 DEF Single, Distinct
  <2>2. CASE ~Queued(g, Event(m))
    <3>1. PICK c \in Consumers, d \in Consumers :
              Holds(c, g, Event(m)) /\ held[c] = m /\ Holds(d, g, Event(m)) /\ held[d] = n
      BY <1>1, <1>4, <2>2
    <3> QED
      BY <1>2, <3>1 DEF Single
  <2> QED
    BY <2>1, <2>2
<1> QED
  BY <1>2, <1>3, <1>4

\* A delivery after a step was there before, or is that of a new event, or one
\* more attempt at an old one.
DeliveryIsExplained(g, n) ==
    \/ Unfinished(g, n)
    \/ \A m : Unfinished(g, m) => Event(m) # Event(n)
    \/ \E m \in Messages : Unfinished(g, m) /\ Event(m) = Event(n) /\ n.attempt = m.attempt + 1

\* publish() and the replay for a new group deliver new events.
LEMMA FirstDeliveries ==
    ASSUME BusInv, NEW g \in Groups, NEW n, Unfinished(g, n)',
           (\E k \in Keys : Publish(k)) \/ (\E c \in Consumers : Subscribe(c))
    PROVE  DeliveryIsExplained(g, n)
<1> USE DEF BusInv
<1>1. ASSUME NEW k \in Keys, Publish(k) PROVE DeliveryIsExplained(g, n)
  <2> DEFINE m == [key |-> k, partition |-> PartitionOf[k], offset |-> OffsetOf(k), attempt |-> 0]
  <2>1. OffsetOf(k) = Cardinality(Entries(log, PartitionOf[k]))
    BY DEF OffsetOf, Entries
  <2>2. m \in Messages
    <3>1. OffsetOf(k) \in 0 .. Len(log) /\ Len(log) \in Nat /\ Len(log) < MaxPublished
      BY <1>1, <2>1, EntriesAreFinite, LenProperties DEF Types, Publish
    <3>2. OffsetOf(k) \in 0 .. MaxPublished
      BY <3>1
    <3> QED
      BY <3>2 DEF Messages
  <2>3. /\ queues' = [h \in Groups |-> IF h \in subscribed THEN Append(queues[h], m) ELSE queues[h]]
        /\ UNCHANGED <<held, place>>
    BY <1>1 DEF Publish
  <2>4. m.attempt = 0 /\ m.partition = PartitionOf[m.key] /\ m.key = k
        /\ m.offset = Cardinality(Entries(log, m.partition))
    BY <2>1
  <2> HIDE DEF m
  <2>5. Event(m) \notin EventsOf(log)
    BY <2>2, <2>4, PublishedLogIsNumbered DEF Types
  <2>6. Unfinished(g, n) \/ n = m
    <3>1. CASE \E i \in DOMAIN queues'[g] : queues'[g][i] = n
      <4>1. queues[g] \in Seq(Messages)
        BY DEF Types
      <4>2. queues'[g] = queues[g] \/ queues'[g] = Append(queues[g], m)
        BY <2>3
      <4>3. n = m \/ \E i \in DOMAIN queues[g] : queues[g][i] = n
        <5>1. CASE queues'[g] = queues[g]
          BY <3>1, <5>1
        <5>2. CASE queues'[g] = Append(queues[g], m)
          BY <2>2, <3>1, <4>1, <5>2, EntriesOfAppend
        <5> QED
          BY <4>2, <5>1, <5>2
      <4> QED
        BY <4>3 DEF Unfinished
    <3>2. CASE \E c \in Consumers : GroupOf[c] = g /\ place'[c] = "holding" /\ held'[c] = n
      BY <2>3, <3>2 DEF Unfinished
    <3> QED
      BY <3>1, <3>2 DEF Unfinished
  <2> QED
    BY <2>5, <2>6, UnfinishedOnce DEF DeliveryIsExplained
<1>2. ASSUME NEW c \in Consumers, Subscribe(c) PROVE DeliveryIsExplained(g, n)
  <2>1. /\ UNCHANGED held
        /\ \A d \in Consumers : place'[d] = "holding" => place[d] = "holding"
    BY <1>2 DEF Subscribe, Types
  <2>2. queues'[g] = queues[g] \/ g \notin subscribed
    BY <1>2 DEF Subscribe, Types
  <2>3. CASE queues'[g] = queues[g]
    BY <2>1, <2>3 DEF Unfinished, DeliveryIsExplained
  <2>4. CASE g \notin subscribed
    <3>1. queues[g] = <<>> /\ \A d \in Consumers : GroupOf[d] = g => place[d] # "holding"
      BY <2>4 DEF Sourced
    <3>2. \A m : ~Unfinished(g, m)
      BY <3>1, EmptySeq DEF Unfinished
    <3> QED
      BY <3>2 DEF DeliveryIsExplained
  <2> QED
    BY <2>2, <2>3, <2>4
<1> QED
  BY <1>1, <1>2

\* The other steps deliver what there was, retry() with one attempt more.
LEMMA LaterDeliveries ==
    ASSUME BusInv, NEW g \in Groups, NEW n, Unfinished(g, n)', NEW c \in Consumers,
           \/ Take(c) \/ Acknowledge(c) \/ Retry(c) \/ DeadLetter(c)
           \/ DeadLetterRaises(c) \/ Cancel(c)
    PROVE  DeliveryIsExplained(g, n)
<1> USE DEF BusInv
<1> DEFINE h == GroupOf[c]
<1>1. h \in Groups /\ queues[h] \in Seq(Messages) /\ queues[g] \in Seq(Messages)
  BY DEF Types
<1>2. CASE Take(c)
  <2>1. /\ place[c] = "waiting" /\ queues[h] # <<>>
        /\ queues' = [queues EXCEPT ![h] = Tail(@)]
        /\ \A d \in Consumers : d # c => held'[d] = held[d] /\ place'[d] = place[d]
        /\ place'[c] = "holding" => held'[c] = Head(queues[h])
    BY <1>2 DEF Take, Types, LoopHead
  <2>2. \A i \in DOMAIN Tail(queues[h]) : \E j \in DOMAIN queues[h] :
            Tail(queues[h])[i] = queues[h][j]
    BY <1>1, <2>1, TakeFromQueue
  <2>3. \E j \in DOMAIN queues[h] : Head(queues[h]) = queues[h][j]
    BY <1>1, <2>1, TakeFromQueue
  <2>4. CASE \E i \in DOMAIN queues'[g] : queues'[g][i] = n
    <3>1. queues'[g] = queues[g] \/ (g = h /\ queues'[g] = Tail(queues[h]))
      BY <1>1, <2>1 DEF Types
    <3>2. \E j \in DOMAIN queues[g] : queues[g][j] = n
      <4>1. CASE queues'[g] = queues[g]
        BY <2>4, <4>1
      <4>2. CASE g = h /\ queues'[g] = Tail(queues[h])
        BY <2>2, <2>4, <4>2
      <4> QED
        BY <3>1, <4>1, <4>2
    <3> QED
      BY <3>2 DEF Unfinished, DeliveryIsExplained
  <2>5. CASE \E d \in Consumers : GroupOf[d] = g /\ place'[d] = "holding" /\ held'[d] = n
    <3>1. PICK d \in Consumers : GroupOf[d] = g /\ place'[d] = "holding" /\ held'[d] = n
      BY <2>5
    <3>2. CASE d = c
      BY <2>1, <2>3, <3>1, <3>2 DEF Unfinished, DeliveryIsExplained
    <3>3. CASE d # c
      BY <2>1, <3>1, <3>3 DEF Unfinished, DeliveryIsExplained
    <3> QED
      BY <3>2, <3>3
  <2> QED
    BY <2>4, <2>5 DEF Unfinished
<1>3. CASE Acknowledge(c) \/ Retry(c) \/ DeadLetter(c) \/ DeadLetterRaises(c) \/ Cancel(c)
  <2>1. \A d \in Consumers : place'[d] = "holding" => place[d] = "holding" /\ held'[d] = held[d]
    BY <1>3 DEF Acknowledge, Retry, DeadLetter, DeadLetterRaises, Cancel, Ends, Finished, LoopHead, Types
  <2>2. CASE \E d \in Consumers : GroupOf[d] = g /\ place'[d] = "holding" /\ held'[d] = n
    BY <2>1, <2>2 DEF Unfinished, DeliveryIsExplained
  <2>3. CASE ~Retry(c) /\ \E i \in DOMAIN queues'[g] : queues'[g][i] = n
    <3>1. queues' = queues
      BY <1>3, <2>3 DEF Acknowledge, DeadLetter, DeadLetterRaises, Cancel, Ends
    <3> QED
      BY <2>3, <3>1 DEF Unfinished, DeliveryIsExplained
  <2>4. CASE Retry(c) /\ \E i \in DOMAIN queues'[g] : queues'[g][i] = n
    <3> DEFINE m == [held[c] EXCEPT !.attempt = @ + 1]
    <3>1. /\ place[c] = "holding" /\ held[c] \in Messages /\ held[c].attempt + 1 < MaxAttempts
          /\ queues' = [queues EXCEPT ![h] = Append(@, m)]
      BY <2>4 DEF Retry, Types
    <3>2. m \in Messages /\ m.attempt = held[c].attempt + 1 /\ Event(m) = Event(held[c])
      <4>1. held[c].attempt + 1 \in 0 .. MaxAttempts - 1 /\ held[c].attempt \in Nat
        BY <3>1 DEF Messages
      <4>2. m \in Messages /\ m.attempt = held[c].attempt + 1
        BY <3>1, <4>1 DEF Messages
      <4> QED
        BY <3>1, <4>2, MessageAndEvent
    <3> HIDE DEF m
    <3>3. queues'[g] = queues[g] \/ (g = h /\ queues'[g] = Append(queues[h], m))
      BY <1>1, <3>1 DEF Types
    <3>4. (\E i \in DOMAIN queues[g] : queues[g][i] = n) \/ (g = h /\ n = m)
      <4>1. CASE queues'[g] = queues[g]
        BY <2>4, <4>1
      <4>2. CASE g = h /\ queues'[g] = Append(queues[h], m)
        BY <1>1, <2>4, <3>2, <4>2, EntriesOfAppend
      <4> QED
        BY <3>3, <4>1, <4>2
    <3>5. Unfinished(h, held[c])
      BY <3>1 DEF Unfinished
    <3> QED
      BY <3>1, <3>2, <3>4, <3>5 DEF Unfinished, DeliveryIsExplained
  <2> QED
    BY <1>3, <2>2, <2>3, <2>4 DEF Unfinished
<1> QED
  BY <1>2, <1>3

\* No step sets an event back: the attempts of an event are finitely many,
\* and the event is over for good after them.
THEOREM EventsOnlyMoveForward == BusSpec => EventsMoveForward
<1>1. ASSUME BusInv, BusInv', BusNext, NEW g \in Groups, NEW m \in Messages, NEW n \in Messages,
             Event(m) = Event(n), Unfinished(g, n)'
      PROVE  ~Over(g, Event(m)) /\ (Unfinished(g, m) => m.attempt <= n.attempt)
  <2>1. acknowledged \subseteq acknowledged' /\ dropped \subseteq dropped'
    BY <1>1 DEF BusNext, ConsumerStep, Publish, Subscribe, Take, Acknowledge, Retry, DeadLetter,
                DeadLetterRaises, Cancel, Ends, Close
  <2>2. ~Over(g, Event(n))'
    <3>1. Queued(g, Event(n))' \/ InHand(g, Event(n))'
      BY <1>1 DEF Unfinished, Queued, EventsOf, InHand, Holds
    <3>2. (Event(n) \in EventsOf(log))'
      BY <1>1, <3>1 DEF BusInv, Sourced, Queued, InHand, Holds
    <3> QED
      BY <1>1, <3>1, <3>2 DEF BusInv, Separate, Over
  <2>3. ~Over(g, Event(m))
    BY <1>1, <2>1, <2>2 DEF Over, Acked, Dropped
  <2>4. DeliveryIsExplained(g, n)
    <3>1. CASE Close
      BY <1>1, <3>1 DEF Close, Unfinished, DeliveryIsExplained
    <3>2. CASE ~Close
      BY <1>1, <3>2, FirstDeliveries, LaterDeliveries DEF BusNext, ConsumerStep
    <3> QED
      BY <3>1, <3>2
  <2>5. ASSUME Unfinished(g, m) PROVE m.attempt <= n.attempt
    <3>1. n = m \/ \E k \in Messages : k = m /\ n.attempt = k.attempt + 1
      BY <1>1, <2>4, <2>5, UnfinishedOnce DEF DeliveryIsExplained
    <3>2. m.attempt \in Nat
      BY DEF Messages
    <3> QED
      BY <3>1, <3>2
  <2> QED
    BY <2>3, <2>5
<1>2. BusInv /\ BusInv' /\ [BusNext]_busVars
        => [\A g \in Groups : \A m, n \in Messages :
              (Event(m) = Event(n) /\ Unfinished(g, n)') =>
                  /\ ~Over(g, Event(m))
                  /\ Unfinished(g, m) => m.attempt <= n.attempt]_busVars
  BY <1>1
<1> QED
  BY <1>2, BusInvHolds, PTL DEF BusSpec, EventsMoveForward
=============================================================================
