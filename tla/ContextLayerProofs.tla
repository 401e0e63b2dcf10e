------------------------- MODULE ContextLayerProofs -------------------------
(***************************************************************************)
(* References and contexts, for any number of runs, deployments, files,    *)
(* contents and edits.                                                     *)
(*                                                                         *)
(* ContextInv is the inductive invariant.  Its parts give the state its    *)
(* types (ContextTypes), say what a run has indexed and dispatched when it *)
(* is at a node (Indexing), what a request is (Requests) and what workers  *)
(* have made of the requests (Answers).                                    *)
(***************************************************************************)
EXTENDS ContextLayer, FiniteSetTheorems, TLAPS

Listings == UNION {[1 .. n -> Deployments] : n \in Nat}

RunNodes == {"discover", "build_registry", "index", "put", "dispatch", "wait", "failed"}

\* What index() may have read of some files, and the histories of a deployment's files.
Readings == UNION {[F -> Contents] : F \in SUBSET UNION {FilesOf[d] : d \in Deployments}}
Histories(d) == [FilesOf[d] -> SUBSET Contents]

ContextTypes ==
  /\ optedIn \in SUBSET Deployments
  /\ source \in [Deployments -> UNION {Sources(d) : d \in Deployments}]
  /\ \A d \in Deployments : source[d] \in Sources(d)
  /\ putAt \in [Refs -> Nat]
  /\ puts \in Nat
  /\ node \in [Runs -> RunNodes]
  /\ services \in [Runs -> Listings]
  /\ next \in [Runs -> Nat \ {0}]
  /\ read \in [Runs -> Readings]
  /\ contexts \in [Runs -> [ServiceIds -> Refs \cup {NoContext}]]
  /\ during \in [Runs -> [Deployments -> UNION {Histories(d) : d \in Deployments}]]
  /\ \A r \in Runs, d \in Deployments : during[r][d] \in Histories(d)

\* What content says of each file of d is in its history.
Fits(content, d, history) ==
  content \in Sources(d) /\ \A f \in FilesOf[d] : content[f] \in history[f]

\* What has been read of the files of d so far is in their histories.
FitsSoFar(reading, d, history) ==
  DOMAIN reading \subseteq FilesOf[d] /\ \A f \in DOMAIN reading : reading[f] \in history[f]

\* A stored context of a service that has been true of it since a run began.
Describes(ref, service, r) ==
  /\ ref \in Refs
  /\ ref[1] = service
  /\ putAt[ref] > 0
  /\ \E d \in Deployments : ServiceIdOf[d] = service /\ Fits(ref[2], d, during[r][d])

\* The context a run has for the i-th service of its list.
ContextOf(r, i) == contexts[r][ServiceIdOf[services[r][i]]]

Described(r, i) == Describes(ContextOf(r, i), ServiceIdOf[services[r][i]], r)

Requested(r, i) == \E t \in tasks : t.run = r /\ t.deployment = services[r][i]

IndexingOf(r) ==
  /\ node[r] # "discover" => \A d \in Deployments : Fits(source[d], d, during[r][d])
  /\ node[r] \in {"discover", "build_registry"} => next[r] = 1 /\ read[r] = <<>>
  /\ node[r] = "index" /\ HasCurrent(r) => FitsSoFar(read[r], Current(r), during[r][Current(r)])
  /\ node[r] = "put" => HasCurrent(r) /\ Fits(read[r], Current(r), during[r][Current(r)])
  /\ node[r] \in {"index", "put"} =>
        \A i \in DOMAIN services[r] : i < next[r] => Described(r, i)
  /\ node[r] \in {"dispatch", "wait"} => \A i \in DOMAIN services[r] : Described(r, i)
  /\ node[r] = "dispatch" => \A i \in DOMAIN services[r] : i < next[r] => Requested(r, i)
  /\ node[r] = "wait" => \A i \in DOMAIN services[r] : Requested(r, i)

Indexing == \A r \in Runs : IndexingOf(r)

Requests ==
  \A t \in tasks :
    /\ t.run \in Runs
    /\ node[t.run] \in {"dispatch", "wait", "failed"}
    /\ t.deployment \in Deployments
    /\ t.id = TaskId(t.run, t.deployment)
    /\ t.workload = ServiceIdOf[t.deployment]
    /\ Describes(t.ref, t.workload, t.run)

\* A task id has a result exactly if one deployment of its service has been
\* optimized in its run.
Answers ==
  /\ rejected = {}
  /\ answered \subseteq tasks
  /\ \A t \in answered : t.id \in completed
  /\ optimized \in SUBSET (Runs \X Deployments)
  /\ \A r \in Runs, d \in Deployments : <<r, d>> \in optimized => TaskId(r, d) \in completed
  /\ \A id \in completed :
        \E r \in Runs, d \in Deployments : id = TaskId(r, d) /\ <<r, d>> \in optimized
  /\ \A r \in Runs, d, e \in Deployments :
        (<<r, d>> \in optimized /\ <<r, e>> \in optimized /\ SameService(d, e)) => d = e

ContextInv == ContextTypes /\ Indexing /\ Requests /\ Answers

-----------------------------------------------------------------------------

\* DeploymentOrder lists finitely many deployments.
LEMMA DeploymentsAreFinite == IsFiniteSet(Deployments)
<1> DEFINE n == Len(DeploymentOrder)
           all == 1 .. n
           listed == {DeploymentOrder[i] : i \in all}
           f == [i \in all |-> DeploymentOrder[i]]
<1>1. n \in Nat /\ DOMAIN DeploymentOrder = all
  BY ContextAssumption
<1>2. f \in Surjection(all, listed)
  BY DEF Surjection
<1>3. IsFiniteSet(listed)
  BY <1>1, <1>2, FS_Interval, FS_Surjection
<1>4. Deployments \subseteq listed
  BY <1>1, ContextAssumption
<1> QED
  BY <1>3, <1>4, FS_Subset

\* What discover() finds is a list of deployments.
LEMMA FoundIsAListing ==
    ASSUME NEW S \in SUBSET Deployments, NEW found \in [1 .. Cardinality(S) -> S]
    PROVE  found \in Listings
<1>1. Cardinality(S) \in Nat
  BY DeploymentsAreFinite, FS_Subset, FS_CardinalityType
<1>2. found \in [1 .. Cardinality(S) -> Deployments]
  OBVIOUS
<1> QED
  BY <1>1, <1>2 DEF Listings

\* The reference made for a deployment is one of its service.
LEMMA ReferenceOfDeployment ==
    ASSUME NEW d \in Deployments, NEW content \in Sources(d)
    PROVE  /\ ContextRef(d, content) \in Refs
           /\ ContextRef(d, content)[1] = ServiceIdOf[d]
           /\ ContextRef(d, content)[2] = content
BY DEF ContextRef, Refs, ServiceIds

\* No file has been read.
LEMMA NothingRead == <<>> \in Readings /\ DOMAIN <<>> = {}
<1>1. DOMAIN <<>> = {} /\ <<>> \in [{} -> Contents]
  BY SMT
<1> QED
  BY <1>1 DEF Readings

\* One more file has been read.
LEMMA ReadOneMore ==
    ASSUME NEW had \in Readings, NEW d \in Deployments, NEW f \in FilesOf[d],
           NEW content \in Contents
    PROVE  [g \in DOMAIN had \cup {f} |-> IF g = f THEN content ELSE had[g]] \in Readings
<1> DEFINE files == UNION {FilesOf[e] : e \in Deployments}
<1>1. PICK F \in SUBSET files : had \in [F -> Contents]
  BY DEF Readings
<1>2. F \cup {f} \in SUBSET files
  OBVIOUS
<1>3. [g \in DOMAIN had \cup {f} |-> IF g = f THEN content ELSE had[g]] \in [F \cup {f} -> Contents]
  BY <1>1
<1> HIDE DEF files
<1> QED
  BY <1>2, <1>3 DEF Readings, files

\* A listing holds deployments at consecutive positions from 1 on.
LEMMA ListingPositions ==
    ASSUME NEW list \in Listings
    PROVE  /\ \A i \in DOMAIN list : i \in Nat \ {0} /\ list[i] \in Deployments
                                      /\ ServiceIdOf[list[i]] \in ServiceIds
           /\ \A k \in Nat \ {0} : k \notin DOMAIN list => \A i \in DOMAIN list : i < k
BY DEF Listings, ServiceIds

\* The service a run is at.
LEMMA CurrentDeployment ==
    ASSUME ContextTypes, NEW r \in Runs, HasCurrent(r)
    PROVE  Current(r) \in Deployments /\ ServiceIdOf[Current(r)] \in ServiceIds
BY ListingPositions DEF ContextTypes, Current, HasCurrent

\* What index() has done once it has returned a context.
LEMMA IndexedEffect ==
    ASSUME ContextTypes, NEW r \in Runs, HasCurrent(r), NEW ref \in Refs, Indexed(r, ref)
    PROVE  /\ contexts' \in [Runs -> [ServiceIds -> Refs \cup {NoContext}]]
           /\ next' \in [Runs -> Nat \ {0}]
           /\ read' \in [Runs -> Readings]
           /\ node' \in [Runs -> RunNodes]
           /\ node'[r] = "index" /\ next'[r] = next[r] + 1 /\ read'[r] = <<>>
           /\ \A s \in ServiceIds :
                 contexts'[r][s] = IF s = ServiceIdOf[Current(r)] THEN ref ELSE contexts[r][s]
           /\ \A other \in Runs \ {r} :
                 /\ contexts'[other] = contexts[other] /\ next'[other] = next[other]
                 /\ read'[other] = read[other] /\ node'[other] = node[other]
<1> DEFINE here == ServiceIdOf[Current(r)]
           row == [contexts[r] EXCEPT ![here] = ref]
<1>1. here \in ServiceIds
  BY CurrentDeployment
<1>2. /\ row \in [ServiceIds -> Refs \cup {NoContext}]
      /\ \A s \in ServiceIds : row[s] = IF s = here THEN ref ELSE contexts[r][s]
  BY <1>1 DEF ContextTypes
<1>3. contexts' = [contexts EXCEPT ![r] = row]
  BY DEF Indexed
<1>4. /\ contexts' \in [Runs -> [ServiceIds -> Refs \cup {NoContext}]]
      /\ contexts'[r] = row
      /\ \A other \in Runs \ {r} : contexts'[other] = contexts[other]
  <2> HIDE DEF row
  <2> QED
    BY <1>2, <1>3 DEF ContextTypes
<1> QED
  BY <1>2, <1>4, NothingRead DEF Indexed, ContextTypes, RunNodes

\* What an edit does to the sources and to the histories of the runs.
LEMMA EditEffect ==
    ASSUME ContextTypes, NEW d \in Deployments, NEW f \in FilesOf[d], Edit(d, f)
    PROVE  /\ ContextTypes'
           /\ UNCHANGED <<optedIn, tableVars, runVars, workVars>>
           /\ \A r \in Runs, e \in Deployments : \A g \in FilesOf[e] :
                /\ during[r][e][g] \subseteq during'[r][e][g]
                /\ source'[e][g] = source[e][g] \/ node[r] = "discover"
                     \/ source'[e][g] \in during'[r][e][g]
<1>1. PICK content \in Contents :
        /\ source' = [source EXCEPT ![d][f] = content]
        /\ during' = [r \in Runs |-> IF node[r] = "discover" THEN during[r]
                                     ELSE [during[r] EXCEPT ![d][f] = @ \cup {content}]]
  BY DEF Edit
<1>2. UNCHANGED <<optedIn, tableVars, runVars, workVars>>
  BY DEF Edit
<1> DEFINE edited == [source[d] EXCEPT ![f] = content]
           seen(r) == [during[r][d] EXCEPT ![f] = @ \cup {content}]
<1>3. /\ edited \in Sources(d)
      /\ \A g \in FilesOf[d] : edited[g] = IF g = f THEN content ELSE source[d][g]
  BY DEF ContextTypes, Sources
<1>4. ASSUME NEW r \in Runs
      PROVE  /\ seen(r) \in Histories(d)
             /\ \A g \in FilesOf[d] : during[r][d][g] \subseteq seen(r)[g]
             /\ content \in seen(r)[f]
  <2>1. during[r][d] \in [FilesOf[d] -> SUBSET Contents]
    BY DEF ContextTypes, Histories
  <2>2. PICK old : old = during[r][d]
    OBVIOUS
  <2>3. seen(r) = [old EXCEPT ![f] = @ \cup {content}]
    BY <2>2
  <2> HIDE DEF seen
  <2> QED
    BY <2>1, <2>2, <2>3 DEF Histories
<1>5. source' = [source EXCEPT ![d] = edited]
  BY <1>1
<1>6. during' = [r \in Runs |-> IF node[r] = "discover" THEN during[r]
                               ELSE [during[r] EXCEPT ![d] = seen(r)]]
  BY <1>1
<1> HIDE DEF edited, seen
<1>7. /\ source' \in [Deployments -> UNION {Sources(e) : e \in Deployments}]
      /\ \A e \in Deployments : source'[e] = IF e = d THEN edited ELSE source[e]
  BY <1>3, <1>5 DEF ContextTypes
<1>8. /\ during' \in [Runs -> [Deployments -> UNION {Histories(e) : e \in Deployments}]]
      /\ \A r \in Runs, e \in Deployments :
           during'[r][e] = IF node[r] # "discover" /\ e = d THEN seen(r) ELSE during[r][e]
  <2> DEFINE Every == UNION {Histories(e) : e \in Deployments}
             row(r) == IF node[r] = "discover" THEN during[r]
                       ELSE [during[r] EXCEPT ![d] = seen(r)]
  <2>1. ASSUME NEW r \in Runs
        PROVE  /\ row(r) \in [Deployments -> Every]
               /\ \A e \in Deployments :
                    row(r)[e] = IF node[r] # "discover" /\ e = d THEN seen(r) ELSE during[r][e]
    BY <1>4 DEF ContextTypes
  <2>2. during' = [r \in Runs |-> row(r)]
    BY <1>6
  <2> HIDE DEF Every, row
  <2>3. during' \in [Runs -> [Deployments -> Every]] /\ \A r \in Runs : during'[r] = row(r)
    BY <2>1, <2>2
  <2> QED
    BY <2>1, <2>3 DEF Every
<1>9. /\ \A e \in Deployments : source'[e] \in Sources(e)
      /\ \A r \in Runs, e \in Deployments : during'[r][e] \in Histories(e)
  BY <1>3, <1>4, <1>7, <1>8 DEF ContextTypes
<1>10. ContextTypes'
  BY <1>2, <1>7, <1>8, <1>9 DEF ContextTypes, tableVars, runVars
<1>11. ASSUME NEW r \in Runs, NEW e \in Deployments, NEW g \in FilesOf[e]
       PROVE  /\ during[r][e][g] \subseteq during'[r][e][g]
              /\ source'[e][g] = source[e][g] \/ node[r] = "discover"
                   \/ source'[e][g] \in during'[r][e][g]
  BY <1>3, <1>4, <1>7, <1>8
<1> QED
  BY <1>2, <1>10, <1>11

\* A run that begins knows the sources as they are.
LEMMA DiscoverEffect ==
    ASSUME ContextTypes, NEW r \in Runs, Discover(r)
    PROVE  /\ during' \in [Runs -> [Deployments -> UNION {Histories(d) : d \in Deployments}]]
           /\ \A q \in Runs, d \in Deployments : during'[q][d] \in Histories(d)
           /\ \A d \in Deployments : Fits(source'[d], d, during'[r][d])
           /\ \A q \in Runs \ {r} : during'[q] = during[q]
<1> DEFINE now(d) == [f \in FilesOf[d] |-> {source[d][f]}]
           start == [d \in Deployments |-> now(d)]
<1>1. ASSUME NEW d \in Deployments
      PROVE  now(d) \in Histories(d) /\ \A f \in FilesOf[d] : source[d][f] \in now(d)[f]
  <2>1. \A f \in FilesOf[d] : source[d][f] \in Contents
    BY DEF ContextTypes, Sources
  <2> QED
    BY <2>1 DEF Histories
<1>2. during' = [during EXCEPT ![r] = start] /\ source' = source
  BY DEF Discover
<1>3. start \in [Deployments -> UNION {Histories(d) : d \in Deployments}]
  BY <1>1
<1>4. \A d \in Deployments : start[d] = now(d)
  OBVIOUS
<1> HIDE DEF now, start
<1>5. /\ during' \in [Runs -> [Deployments -> UNION {Histories(d) : d \in Deployments}]]
      /\ \A q \in Runs : during'[q] = IF q = r THEN start ELSE during[q]
  BY <1>2, <1>3 DEF ContextTypes
<1> QED
  BY <1>1, <1>2, <1>4, <1>5 DEF Fits, ContextTypes

\* A file of the service has been read.
LEMMA ReadEffect ==
    ASSUME ContextTypes, NEW r \in Runs, NEW f, ReadFile(r, f)
    PROVE  /\ read' \in [Runs -> Readings]
           /\ Current(r) \in Deployments /\ f \in FilesOf[Current(r)]
           /\ \A q \in Runs \ {r} : read'[q] = read[q]
           /\ DOMAIN read'[r] = DOMAIN read[r] \cup {f}
           /\ \A g \in DOMAIN read'[r] :
                read'[r][g] = IF g = f THEN source[Current(r)][f] ELSE read[r][g]
<1> DEFINE d == Current(r)
           content == source[d][f]
           more == [g \in DOMAIN read[r] \cup {f} |-> IF g = f THEN content ELSE read[r][g]]
<1>1. d \in Deployments /\ f \in FilesOf[d] /\ read' = [read EXCEPT ![r] = more]
  BY CurrentDeployment DEF ReadFile
<1>2. content \in Contents /\ read[r] \in Readings
  BY <1>1 DEF ContextTypes, Sources
<1>3. more \in Readings
  BY <1>1, <1>2, ReadOneMore
<1>4. /\ DOMAIN more = DOMAIN read[r] \cup {f}
      /\ \A g \in DOMAIN more : more[g] = IF g = f THEN content ELSE read[r][g]
  OBVIOUS
<1> HIDE DEF more, content
<1>5. read' \in [Runs -> Readings] /\ read'[r] = more /\ \A q \in Runs \ {r} : read'[q] = read[q]
  BY <1>1, <1>3 DEF ContextTypes
<1> QED
  BY <1>1, <1>4, <1>5 DEF content

-----------------------------------------------------------------------------

\* Before any run has begun nothing is indexed, requested or answered.
LEMMA ContextInitEstablishesInv == ContextInit => ContextInv
<1> SUFFICES ASSUME ContextInit PROVE ContextInv
  OBVIOUS
<1> USE DEF ContextInit
<1>1. <<>> \in Listings
  <2>1. <<>> \in [1 .. 0 -> Deployments] /\ 0 \in Nat
    OBVIOUS
  <2> QED
    BY <2>1 DEF Listings
<1>2. ContextTypes
  <2>1. /\ optedIn \in SUBSET Deployments
        /\ source \in [Deployments -> UNION {Sources(d) : d \in Deployments}]
        /\ \A d \in Deployments : source[d] \in Sources(d)
        /\ putAt \in [Refs -> Nat] /\ puts \in Nat
    OBVIOUS
  <2>2. /\ node \in [Runs -> RunNodes] /\ services \in [Runs -> Listings]
        /\ next \in [Runs -> Nat \ {0}] /\ read \in [Runs -> Readings]
    BY <1>1, NothingRead DEF RunNodes
  <2>3. contexts \in [Runs -> [ServiceIds -> Refs \cup {NoContext}]]
    OBVIOUS
  <2>4. /\ during \in [Runs -> [Deployments -> UNION {Histories(d) : d \in Deployments}]]
        /\ \A r \in Runs, d \in Deployments : during[r][d] \in Histories(d)
    <3> DEFINE nothing(d) == [f \in FilesOf[d] |-> {}]
    <3>1. \A d \in Deployments : nothing(d) \in Histories(d)
      BY DEF Histories
    <3>2. during = [r \in Runs |-> [d \in Deployments |-> nothing(d)]]
      OBVIOUS
    <3> DEFINE Every == UNION {Histories(d) : d \in Deployments}
    <3>3. \A d \in Deployments : nothing(d) \in Every
      BY <3>1
    <3> HIDE DEF nothing, Every, ContextInit
    <3>4. during \in [Runs -> [Deployments -> Every]]
      BY <3>2, <3>3
    <3>5. \A r \in Runs, d \in Deployments : during[r][d] = nothing(d)
      BY <3>2
    <3> QED
      BY <3>1, <3>4, <3>5 DEF Every
  <2> QED
    BY <2>1, <2>2, <2>3, <2>4 DEF ContextTypes
<1>3. Indexing
  BY DEF Indexing, IndexingOf
<1>4. Requests /\ Answers
  BY DEF Requests, Answers
<1> QED
  BY <1>2, <1>3, <1>4 DEF ContextInv

\* Every step keeps the types; what is put for a service is a reference of it.
LEMMA ContextTypesArePreserved ==
    ASSUME ContextTypes, Indexing, [ContextNext]_contextVars
    PROVE  ContextTypes'
<1> USE DEF ContextTypes, tableVars, runVars, workVars, RunNodes
<1>1. ASSUME NEW d \in Deployments, NEW f \in FilesOf[d], Edit(d, f)
      PROVE  ContextTypes'
  BY <1>1, EditEffect
<1>2. ASSUME NEW r \in Runs, Discover(r)
      PROVE  ContextTypes'
  <2>1. PICK found \in [1 .. Cardinality(optedIn) -> optedIn] :
          services' = [services EXCEPT ![r] = found]
    BY <1>2 DEF Discover
  <2>2. found \in Listings
    BY <2>1, FoundIsAListing
  <2> QED
    BY <1>2, <2>1, <2>2, DiscoverEffect DEF Discover
<1>3. ASSUME NEW r \in Runs, BuildRegistry(r) \/ MustPut(r) \/ IndexDone(r)
                             \/ Dispatch(r) \/ DispatchDone(r)
      PROVE  ContextTypes'
  <2>1. UNCHANGED <<optedIn, source, putAt, puts, services, read, contexts, during>>
    BY <1>3 DEF BuildRegistry, MustPut, IndexDone, Dispatch, DispatchDone
  <2>2. node' \in [Runs -> RunNodes]
    BY <1>3 DEF BuildRegistry, MustPut, IndexDone, Dispatch, DispatchDone
  <2>3. next' \in [Runs -> Nat \ {0}]
    <3>1. \/ next' = [next EXCEPT ![r] = 1] \/ next' = [next EXCEPT ![r] = @ + 1] \/ next' = next
      BY <1>3 DEF BuildRegistry, MustPut, IndexDone, Dispatch, DispatchDone
    <3>2. next[r] + 1 \in Nat \ {0} /\ 1 \in Nat \ {0}
      OBVIOUS
    <3> QED
      BY <3>1, <3>2
  <2> QED
    BY <2>1, <2>2, <2>3
<1>4. ASSUME NEW r \in Runs, NEW f, ReadFile(r, f)
      PROVE  ContextTypes'
  <2>1. read' \in [Runs -> Readings]
    BY <1>4, ReadEffect
  <2> QED
    BY <1>4, <2>1 DEF ReadFile
<1>5. ASSUME NEW r \in Runs, Reuse(r)
      PROVE  ContextTypes'
  <2>1. HasCurrent(r)
    BY <1>5 DEF Reuse, Hashed
  <2>2. PICK ref \in Refs : Indexed(r, ref)
    BY <1>5 DEF Reuse
  <2> QED
    BY <1>5, <2>1, <2>2, IndexedEffect DEF Reuse
<1>6. ASSUME NEW r \in Runs, Put(r)
      PROVE  ContextTypes'
  <2>1. HasCurrent(r) /\ read[r] \in Sources(Current(r))
    BY <1>6 DEF Put, Indexing, IndexingOf, Fits
  <2> DEFINE ref == ContextRef(Current(r), read[r])
  <2>2. ref \in Refs
    BY <2>1, CurrentDeployment, ReferenceOfDeployment
  <2> HIDE DEF ref
  <2>3. /\ Indexed(r, ref) /\ Stored(ref) /\ puts' = puts + 1
        /\ UNCHANGED <<optedIn, source, services, during>>
    BY <1>6 DEF Put, ref
  <2> QED
    BY <2>1, <2>2, <2>3, IndexedEffect DEF Stored
<1>7. ASSUME NEW t \in tasks, Process(t)
      PROVE  ContextTypes'
  BY <1>7 DEF Process
<1>8. CASE UNCHANGED contextVars
  BY <1>8 DEF contextVars
<1>9. ASSUME NEW r \in Runs, IndexRaises(r) \/ DispatchRaises(r)
      PROVE  ContextTypes'
  <2>1. /\ Fails(r)
        /\ UNCHANGED <<optedIn, source, putAt, puts, services, during>>
    BY <1>9 DEF IndexRaises, DispatchRaises
  <2> QED
    BY <2>1, NothingRead DEF Fails
<1> QED
  BY <1>1, <1>2, <1>3, <1>4, <1>5, <1>6, <1>7, <1>8, <1>9 DEF ContextNext

-----------------------------------------------------------------------------

\* What no step takes back: rows of the store, the history of a run that has
\* begun, its list of services, and requests.
Grows ==
  /\ \A f \in Refs : putAt[f] > 0 => putAt'[f] > 0
  /\ tasks \subseteq tasks'
  /\ \A r \in Runs : node[r] # "discover" =>
        /\ node'[r] # "discover"
        /\ services'[r] = services[r]
        /\ \A d \in Deployments : \A f \in FilesOf[d] : during[r][d][f] \subseteq during'[r][d][f]

\* The store and the histories only grow, whoever takes a step.
LEMMA NothingIsTakenBack ==
    ASSUME ContextTypes, Indexing, [ContextNext]_contextVars
    PROVE  Grows
<1> USE DEF Grows, ContextTypes, tableVars, runVars, workVars, RunNodes
<1>1. ASSUME NEW d \in Deployments, NEW f \in FilesOf[d], Edit(d, f)
      PROVE  Grows
  BY <1>1, EditEffect
<1>2. ASSUME NEW r \in Runs, Discover(r)
      PROVE  Grows
  BY <1>2 DEF Discover
<1>3. ASSUME NEW r \in Runs, BuildRegistry(r) \/ IndexRaises(r) \/ MustPut(r) \/ IndexDone(r)
                             \/ Dispatch(r) \/ DispatchDone(r) \/ DispatchRaises(r)
                             \/ \E f : ReadFile(r, f)
      PROVE  Grows
  BY <1>3 DEF BuildRegistry, ReadFile, IndexRaises, MustPut, IndexDone, Dispatch, DispatchDone,
              DispatchRaises, Fails
<1>4. ASSUME NEW r \in Runs, Reuse(r)
      PROVE  Grows
  BY <1>4 DEF Reuse, Indexed
<1>5. ASSUME NEW r \in Runs, Put(r)
      PROVE  Grows
  BY <1>5 DEF Put, Stored, Indexed
<1>6. ASSUME NEW t \in tasks, Process(t)
      PROVE  Grows
  BY <1>6 DEF Process
<1>7. CASE UNCHANGED contextVars
  BY <1>7 DEF contextVars
<1> QED
  BY <1>1, <1>2, <1>3, <1>4, <1>5, <1>6, <1>7 DEF ContextNext

\* A context that describes a service goes on describing it.
LEMMA StillDescribes ==
    ASSUME ContextTypes, Grows, NEW r \in Runs, node[r] # "discover",
           NEW ref, NEW service, Describes(ref, service, r)
    PROVE  /\ ref \in Refs /\ ref[1] = service
           /\ putAt'[ref] > 0
           /\ \E d \in Deployments : ServiceIdOf[d] = service /\ Fits(ref[2], d, during'[r][d])
<1>1. \A d \in Deployments : Fits(ref[2], d, during[r][d]) => Fits(ref[2], d, during'[r][d])
  BY DEF Grows, Fits
<1> QED
  BY <1>1 DEF Grows, Describes

\* The invariant of a run that does not take part in a step.
LEMMA UntouchedRun ==
    ASSUME ContextTypes, Grows, NEW r \in Runs, IndexingOf(r),
           node'[r] = node[r], services'[r] = services[r], next'[r] = next[r],
           read'[r] = read[r], contexts'[r] = contexts[r],
           node[r] # "discover" => \A d \in Deployments : Fits(source'[d], d, during'[r][d])
    PROVE  IndexingOf(r)'
<1>1. CASE node[r] = "discover"
  BY <1>1 DEF IndexingOf
<1>2. CASE node[r] # "discover"
  <2>1. ASSUME NEW i \in DOMAIN services[r], Described(r, i)
        PROVE  Described(r, i)'
    <3> DEFINE ref == ContextOf(r, i)
               service == ServiceIdOf[services[r][i]]
    <3>1. /\ ref \in Refs /\ ref[1] = service
          /\ putAt'[ref] > 0
          /\ \E d \in Deployments : ServiceIdOf[d] = service /\ Fits(ref[2], d, during'[r][d])
      BY <1>2, <2>1, StillDescribes DEF Described
    <3>2. ContextOf(r, i)' = ref /\ ServiceIdOf[services'[r][i]] = service
      BY DEF ContextOf
    <3> QED
      BY <3>1, <3>2 DEF Described, Describes
  <2>2. ASSUME NEW i \in DOMAIN services[r], Requested(r, i)
        PROVE  Requested(r, i)'
    BY <2>2 DEF Requested, Grows
  <2>3. /\ HasCurrent(r)' <=> HasCurrent(r)
        /\ Current(r)' = Current(r)
        /\ HasCurrent(r) => Current(r) \in Deployments
    BY CurrentDeployment DEF HasCurrent, Current
  <2>4. HasCurrent(r) =>
          /\ FitsSoFar(read[r], Current(r), during[r][Current(r)])
               => FitsSoFar(read'[r], Current(r)', during'[r][Current(r)'])
          /\ Fits(read[r], Current(r), during[r][Current(r)])
               => Fits(read'[r], Current(r)', during'[r][Current(r)'])
    BY <1>2, <2>3 DEF Grows, FitsSoFar, Fits
  <2> QED
    BY <1>2, <2>1, <2>2, <2>3, <2>4 DEF IndexingOf
<1> QED
  BY <1>1, <1>2

\* The steps of a run.
RunStep(r) ==
  \/ Discover(r) \/ BuildRegistry(r) \/ IndexRaises(r) \/ Reuse(r) \/ MustPut(r) \/ Put(r)
  \/ IndexDone(r) \/ Dispatch(r) \/ DispatchDone(r) \/ DispatchRaises(r)
  \/ \E f : ReadFile(r, f)

\* A run's step leaves the other runs alone.
LEMMA OtherRunsKeep ==
    ASSUME ContextTypes, NEW r \in Runs, RunStep(r), NEW q \in Runs \ {r}
    PROVE  /\ node'[q] = node[q] /\ services'[q] = services[q] /\ next'[q] = next[q]
           /\ read'[q] = read[q] /\ contexts'[q] = contexts[q] /\ during'[q] = during[q]
           /\ source' = source
BY DEF RunStep, ContextTypes, runVars, tableVars, workVars, Indexed, Discover, BuildRegistry,
       ReadFile, IndexRaises, Reuse, MustPut, Put, IndexDone, Dispatch, DispatchDone,
       DispatchRaises, Fails

\* Every step keeps what the runs know: a run that reuses or puts a context has
\* hashed a source that was in force since it began.
LEMMA IndexingIsPreserved ==
    ASSUME ContextTypes, Indexing, [ContextNext]_contextVars
    PROVE  Indexing'
<1>0. Grows
  BY NothingIsTakenBack
<1>1. ASSUME NEW d \in Deployments, NEW f \in FilesOf[d], Edit(d, f), NEW r \in Runs
      PROVE  IndexingOf(r)'
  <2>1. /\ node' = node /\ services' = services /\ next' = next
        /\ read' = read /\ contexts' = contexts
    BY <1>1, EditEffect DEF runVars
  <2>2. ASSUME node[r] # "discover", NEW e \in Deployments
        PROVE  Fits(source'[e], e, during'[r][e])
    <3>1. Fits(source[e], e, during[r][e])
      BY <2>2 DEF Indexing, IndexingOf
    <3>2. source'[e] \in Sources(e)
      BY <1>1, EditEffect DEF ContextTypes
    <3> QED
      BY <1>1, <2>2, <3>1, <3>2, EditEffect DEF Fits
  <2> QED
    BY <1>0, <2>1, <2>2, UntouchedRun DEF Indexing
<1>2. ASSUME NEW r \in Runs, RunStep(r), NEW q \in Runs \ {r}
      PROVE  IndexingOf(q)'
  BY <1>0, <1>2, OtherRunsKeep, UntouchedRun DEF Indexing, IndexingOf
<1>3. ASSUME NEW r \in Runs, RunStep(r)
      PROVE  IndexingOf(r)'
  <2> DEFINE Positions == DOMAIN services[r]
  <2>1. CASE Discover(r)
    <3>1. /\ node'[r] = "build_registry" /\ next'[r] = next[r] /\ read'[r] = read[r]
          /\ node[r] = "discover"
      BY <2>1 DEF Discover, ContextTypes
    <3> QED
      BY <2>1, <3>1, DiscoverEffect DEF Indexing, IndexingOf
  <2>2. CASE BuildRegistry(r)
    <3>1. \A i \in DOMAIN services'[r] : ~(i < next'[r])
      BY <2>2, ListingPositions DEF BuildRegistry, Indexing, IndexingOf, ContextTypes
    <3>2. /\ node[r] = "build_registry" /\ node'[r] = "index" /\ read'[r] = <<>>
          /\ source' = source /\ during' = during
      BY <2>2 DEF BuildRegistry, ContextTypes, Indexing, IndexingOf
    <3>3. \A d \in Deployments : Fits(source'[d], d, during'[r][d])
      BY <3>2 DEF Indexing, IndexingOf, Fits
    <3>4. FitsSoFar(read'[r], Current(r)', during'[r][Current(r)'])
      BY <3>2, NothingRead DEF FitsSoFar
    <3> QED
      BY <3>1, <3>2, <3>3, <3>4 DEF IndexingOf
  <2> SUFFICES ASSUME node[r] # "discover", source' = source, services' = services,
                      IndexingOf(r), node'[r] # "build_registry"
               PROVE  IndexingOf(r)'
    <3>1. CASE \E f : ReadFile(r, f)
      BY <3>1 DEF ReadFile, Indexing
    <3>2. CASE IndexRaises(r) \/ DispatchRaises(r)
      BY <3>2 DEF IndexRaises, DispatchRaises, Fails, ContextTypes, Indexing
    <3>3. CASE Reuse(r) \/ MustPut(r) \/ Put(r)
      BY <3>3 DEF Reuse, MustPut, Put, Indexed, Hashed, ContextTypes, Indexing
    <3>4. CASE IndexDone(r) \/ Dispatch(r) \/ DispatchDone(r)
      BY <3>4 DEF IndexDone, Dispatch, DispatchDone, ContextTypes, Indexing
    <3> QED
      BY <1>3, <2>1, <2>2, <3>1, <3>2, <3>3, <3>4 DEF RunStep
  <2>0. /\ node'[r] # "discover"
        /\ \A d \in Deployments : Fits(source'[d], d, during'[r][d])
        /\ \A d \in Deployments : \A content : Fits(content, d, during[r][d]) =>
             /\ content \in Sources(d)
             /\ \A f \in FilesOf[d] : content[f] \in during'[r][d][f]
        /\ \A d \in Deployments : \A f \in FilesOf[d] : during[r][d][f] \subseteq during'[r][d][f]
    BY <1>0 DEF Grows, IndexingOf, Fits
  <2>a. ASSUME NEW i \in Positions, Described(r, i), ContextOf(r, i)' = ContextOf(r, i)
        PROVE  Described(r, i)'
    BY <1>0, <2>a, StillDescribes DEF Described, Describes
  <2>b. ASSUME NEW i \in Positions, Requested(r, i)
        PROVE  Requested(r, i)'
    BY <1>0, <2>b DEF Requested, Grows
  <2>c. HasCurrent(r) => Current(r) \in Deployments
    BY CurrentDeployment
  <2>3. ASSUME NEW f, ReadFile(r, f)
        PROVE  IndexingOf(r)'
    <3>1. /\ contexts' = contexts /\ next' = next /\ node' = node
          /\ node[r] = "index" /\ HasCurrent(r)
      BY <2>3 DEF ReadFile
    <3>2. HasCurrent(r)' /\ Current(r)' = Current(r)
      BY <3>1 DEF HasCurrent, Current
    <3>3. source[Current(r)][f] \in during'[r][Current(r)][f]
      BY <2>0, <2>3, <2>c, <3>1, ReadEffect DEF IndexingOf, Fits
    <3>4. FitsSoFar(read[r], Current(r), during[r][Current(r)])
      BY <3>1 DEF IndexingOf
    <3>5. FitsSoFar(read'[r], Current(r)', during'[r][Current(r)'])
      BY <2>0, <2>3, <2>c, <3>1, <3>2, <3>3, <3>4, ReadEffect DEF FitsSoFar
    <3> QED
      BY <2>0, <2>a, <3>1, <3>5 DEF IndexingOf, ContextOf
  <2>4. CASE IndexRaises(r) \/ DispatchRaises(r)
    BY <2>0, <2>4 DEF IndexRaises, DispatchRaises, Fails, ContextTypes, IndexingOf
  <2>h. ASSUME Hashed(r)
        PROVE  Fits(read[r], Current(r), during[r][Current(r)])
    <3>1. /\ FitsSoFar(read[r], Current(r), during[r][Current(r)]) /\ DOMAIN read[r] = FilesOf[Current(r)]
          /\ Current(r) \in Deployments /\ read[r] \in Readings
      BY <2>c, <2>h DEF IndexingOf, Hashed, ContextTypes
    <3>2. read[r] \in Sources(Current(r))
      BY <3>1 DEF Readings, Sources
    <3> QED
      BY <3>1, <3>2 DEF FitsSoFar, Fits
  <2>5. CASE MustPut(r)
    <3>1. /\ contexts' = contexts /\ next' = next /\ read' = read
          /\ node'[r] = "put" /\ node[r] = "index" /\ HasCurrent(r) /\ Hashed(r)
      BY <2>5 DEF MustPut, Hashed, ContextTypes
    <3>2. HasCurrent(r)' /\ Current(r)' = Current(r)
      BY <3>1 DEF HasCurrent, Current
    <3>3. Fits(read'[r], Current(r)', during'[r][Current(r)'])
      BY <2>0, <2>c, <2>h, <3>1, <3>2 DEF Fits
    <3> QED
      BY <2>0, <2>a, <3>1, <3>2, <3>3 DEF IndexingOf, ContextOf
  <2>6. ASSUME node[r] \in {"index", "put"}, HasCurrent(r),
               Fits(read[r], Current(r), during[r][Current(r)]),
               NEW ref \in Refs, Indexed(r, ref), ref[1] = ServiceIdOf[Current(r)],
               ref[2] = read[r], putAt'[ref] > 0
        PROVE  IndexingOf(r)'
    <3>1. Current(r) \in Deployments /\ HasCurrent(r)
      BY <2>6, <2>c
    <3>2. \E d \in Deployments :
             ServiceIdOf[d] = ServiceIdOf[Current(r)] /\ Fits(ref[2], d, during'[r][d])
      BY <2>0, <2>6, <3>1 DEF Fits
    <3>3. ASSUME NEW i \in Positions, i < next'[r]
          PROVE  Described(r, i)'
      <4>1. /\ i \in Nat /\ next[r] \in Nat /\ next'[r] = next[r] + 1
            /\ ServiceIdOf[services[r][i]] \in ServiceIds
        BY <2>6, <3>1, IndexedEffect, ListingPositions DEF ContextTypes
      <4>2. CASE ServiceIdOf[services[r][i]] = ServiceIdOf[Current(r)]
        <5>1. ContextOf(r, i)' = ref
          BY <2>6, <3>1, <4>1, <4>2, IndexedEffect DEF ContextOf
        <5> QED
          BY <2>6, <3>2, <4>2, <5>1 DEF Described, Describes
      <4>3. CASE ServiceIdOf[services[r][i]] # ServiceIdOf[Current(r)]
        <5>1. ContextOf(r, i)' = ContextOf(r, i)
          BY <2>6, <3>1, <4>1, <4>3, IndexedEffect DEF ContextOf
        <5>2. i # next[r]
          BY <4>3 DEF Current
        <5>3. Described(r, i)
          BY <2>6, <3>3, <4>1, <5>2 DEF IndexingOf
        <5> QED
          BY <2>a, <5>1, <5>3
      <4> QED
        BY <4>2, <4>3
    <3>4. node'[r] = "index" /\ read'[r] = <<>>
      BY <2>6, <3>1, IndexedEffect
    <3>5. FitsSoFar(read'[r], Current(r)', during'[r][Current(r)'])
      BY <3>4, NothingRead DEF FitsSoFar
    <3> QED
      BY <2>0, <3>3, <3>4, <3>5 DEF IndexingOf
  <2>7. CASE Reuse(r)
    BY <2>6, <2>7, <2>h DEF Reuse, Reusable, IsLatest, tableVars, Hashed
  <2>8. CASE Put(r)
    <3> DEFINE ref == ContextRef(Current(r), read[r])
    <3>1. /\ node[r] = "put" /\ Stored(ref) /\ Indexed(r, ref)
      BY <2>8 DEF Put
    <3>2. /\ HasCurrent(r) /\ Fits(read[r], Current(r), during[r][Current(r)])
          /\ read[r] \in Sources(Current(r))
      BY <3>1 DEF IndexingOf, Fits
    <3>3. ref \in Refs /\ ref[1] = ServiceIdOf[Current(r)] /\ ref[2] = read[r]
      BY <2>c, <3>2, ReferenceOfDeployment
    <3> HIDE DEF ref
    <3>4. putAt'[ref] > 0
      BY <3>1, <3>3 DEF Stored, ContextTypes
    <3> QED
      BY <2>6, <3>1, <3>2, <3>3, <3>4
  <2>9. CASE IndexDone(r)
    <3>1. /\ contexts' = contexts /\ node[r] = "index" /\ node'[r] = "dispatch"
          /\ next'[r] = 1 /\ next[r] \notin Positions
      BY <2>9 DEF IndexDone, ContextTypes, HasCurrent
    <3>2. \A i \in Positions : i < next[r] /\ ~(i < next'[r])
      BY <3>1, ListingPositions DEF ContextTypes
    <3> QED
      BY <2>0, <2>a, <3>1, <3>2 DEF IndexingOf, ContextOf
  <2>10. CASE Dispatch(r)
    <3> DEFINE request == [run |-> r, id |-> TaskId(r, Current(r)), deployment |-> Current(r),
                           workload |-> ServiceIdOf[Current(r)],
                           ref |-> contexts[r][ServiceIdOf[Current(r)]]]
    <3>0. request.run = r /\ request.deployment = Current(r) /\ request \in tasks'
      BY <2>10 DEF Dispatch
    <3>1. /\ contexts' = contexts /\ node[r] = "dispatch" /\ node'[r] = "dispatch"
          /\ next'[r] = next[r] + 1
          /\ \E t \in tasks' : t.run = r /\ t.deployment = Current(r)
      BY <2>10, <3>0 DEF Dispatch, ContextTypes
    <3>2. ASSUME NEW i \in Positions, i < next'[r]
          PROVE  Requested(r, i)'
      <4>1. i \in Nat /\ next[r] \in Nat
        BY ListingPositions DEF ContextTypes
      <4>2. CASE i = next[r]
        BY <3>1, <4>2 DEF Requested, Current
      <4>3. CASE i < next[r]
        BY <2>b, <3>1, <4>3 DEF IndexingOf
      <4> QED
        BY <3>1, <3>2, <4>1, <4>2, <4>3
    <3> QED
      BY <2>0, <2>a, <3>1, <3>2 DEF IndexingOf, ContextOf
  <2>11. CASE DispatchDone(r)
    <3>1. /\ contexts' = contexts /\ node[r] = "dispatch" /\ node'[r] = "wait"
          /\ next[r] \notin Positions
      BY <2>11 DEF DispatchDone, ContextTypes, HasCurrent
    <3>2. \A i \in Positions : i < next[r]
      BY <3>1, ListingPositions DEF ContextTypes
    <3> QED
      BY <2>0, <2>a, <2>b, <3>1, <3>2 DEF IndexingOf, ContextOf
  <2> QED
    BY <1>3, <2>1, <2>2, <2>3, <2>4, <2>5, <2>7, <2>8, <2>9, <2>10, <2>11 DEF RunStep
<1>4. ASSUME NEW r \in Runs,
             \/ \E t \in tasks : Process(t)
             \/ UNCHANGED contextVars
      PROVE  IndexingOf(r)'
  <2>1. /\ UNCHANGED <<node, services, next, read, contexts, source, during>>
    BY <1>4 DEF Process, contextVars, runVars
  <2> QED
    BY <1>0, <2>1, UntouchedRun DEF Indexing, IndexingOf
<1>5. CASE \E d \in Deployments : \E f \in FilesOf[d] : Edit(d, f)
  BY <1>1, <1>5 DEF Indexing
<1>6. CASE \E r \in Runs : RunStep(r)
  BY <1>2, <1>3, <1>6 DEF Indexing
<1>7. CASE (\E t \in tasks : Process(t)) \/ UNCHANGED contextVars
  BY <1>4, <1>7 DEF Indexing
<1> QED
  BY <1>5, <1>6, <1>7 DEF ContextNext, RunStep

\* A request of the coordinator stays one that every worker can resolve.
LEMMA RequestsArePreserved ==
    ASSUME ContextTypes, Indexing, Requests, [ContextNext]_contextVars
    PROVE  Requests'
<1>1. Grows
  BY NothingIsTakenBack
<1>2. \A r \in Runs : node[r] \in {"dispatch", "wait", "failed"} =>
                       node'[r] \in {"dispatch", "wait", "failed"}
  <2>1. ASSUME NEW r \in Runs, \/ Discover(r) \/ BuildRegistry(r) \/ IndexRaises(r)
                               \/ MustPut(r) \/ IndexDone(r) \/ DispatchDone(r)
                               \/ DispatchRaises(r)
        PROVE  /\ \A q \in Runs \ {r} : node'[q] = node[q]
               /\ node[r] # "failed"
               /\ node[r] \in {"dispatch", "wait"} => node'[r] \in {"dispatch", "wait", "failed"}
    BY <2>1 DEF ContextTypes, Discover, BuildRegistry, IndexRaises, MustPut, IndexDone,
                DispatchDone, DispatchRaises, Fails, Hashed
  <2>2. ASSUME NEW r \in Runs, Reuse(r) \/ Put(r)
        PROVE  /\ \A q \in Runs \ {r} : node'[q] = node[q]
               /\ node[r] \in {"index", "put"}
    BY <2>2 DEF ContextTypes, Reuse, Put, Indexed, Hashed
  <2>3. CASE \/ \E d \in Deployments : \E f \in FilesOf[d] : Edit(d, f)
             \/ \E r \in Runs : Dispatch(r) \/ \E f : ReadFile(r, f)
             \/ \E t \in tasks : Process(t)
             \/ UNCHANGED contextVars
    <3>1. node' = node
      BY <2>3 DEF Edit, Dispatch, ReadFile, Process, contextVars, runVars
    <3> QED
      BY <3>1
  <2> QED
    BY <2>1, <2>2, <2>3 DEF ContextNext
<1>3. ASSUME NEW t \in tasks
      PROVE  /\ t.run \in Runs /\ node'[t.run] \in {"dispatch", "wait", "failed"}
             /\ t.deployment \in Deployments /\ t.id = TaskId(t.run, t.deployment)
             /\ t.workload = ServiceIdOf[t.deployment]
             /\ Describes(t.ref, t.workload, t.run)'
  <2>1. node[t.run] # "discover" /\ t.run \in Runs
    BY <1>3 DEF Requests
  <2>2. Describes(t.ref, t.workload, t.run)
    BY <1>3 DEF Requests
  <2>3. Describes(t.ref, t.workload, t.run)'
    BY <1>1, <2>1, <2>2, StillDescribes DEF Describes
  <2> QED
    BY <1>2, <1>3, <2>3 DEF Requests
<1>4. ASSUME NEW r \in Runs, Dispatch(r)
      PROVE  Requests'
  <2> DEFINE d == Current(r)
             request == [run |-> r, id |-> TaskId(r, d), deployment |-> d,
                         workload |-> ServiceIdOf[d], ref |-> contexts[r][ServiceIdOf[d]]]
  <2>1. tasks' = tasks \cup {request} /\ node' = node /\ node[r] = "dispatch" /\ HasCurrent(r)
    BY <1>4 DEF Dispatch
  <2>2. d \in Deployments
    BY <2>1, CurrentDeployment
  <2>3. Describes(contexts[r][ServiceIdOf[d]], ServiceIdOf[d], r)
    BY <2>1 DEF Indexing, IndexingOf, Described, ContextOf, HasCurrent, Current
  <2>4. PICK t : t = request
    OBVIOUS
  <2>5. /\ t.run = r /\ t.id = TaskId(r, d) /\ t.deployment = d
        /\ t.workload = ServiceIdOf[d] /\ t.ref = contexts[r][ServiceIdOf[d]]
    BY <2>4
  <2>6. Describes(t.ref, t.workload, t.run)'
    <3>1. putAt' = putAt /\ during' = during
      BY <1>4 DEF Dispatch, tableVars
    <3> QED
      BY <2>3, <2>5, <3>1 DEF Describes
  <2>7. \A u \in tasks' : u \in tasks \/ u = t
    BY <2>1, <2>4
  <2> HIDE DEF request, d
  <2> QED
    BY <1>3, <2>1, <2>2, <2>5, <2>6, <2>7 DEF Requests
<1>5. CASE tasks' = tasks
  BY <1>3, <1>5 DEF Requests
<1>6. (\E r \in Runs : Dispatch(r)) \/ tasks' = tasks
  BY DEF ContextNext, contextVars, workVars, Edit, Discover, BuildRegistry, ReadFile, IndexRaises,
         Reuse, MustPut, Put, IndexDone, DispatchDone, DispatchRaises, Process
<1> QED
  BY <1>4, <1>5, <1>6

\* A request is valid for the worker that gets it.
LEMMA RequestsAreValid ==
    ASSUME Requests, NEW t \in tasks
    PROVE  IsValid(t)
BY DEF Requests, Describes, IsValid

\* A service of a run is optimized at most once, and answered only then.
LEMMA AnswersArePreserved ==
    ASSUME Requests, Answers, [ContextNext]_contextVars
    PROVE  Answers'
<1>1. ASSUME NEW t \in tasks, Process(t)
      PROVE  Answers'
  <2>1. /\ t.run \in Runs /\ t.deployment \in Deployments
        /\ t.id = TaskId(t.run, t.deployment)
    BY <1>1 DEF Requests
  <2>2. IsValid(t)
    BY <1>1, RequestsAreValid
  <2>3. rejected' = {} /\ tasks' = tasks /\ answered' = answered \cup {t}
    BY <1>1, <2>2 DEF Process, Answers
  <2>4. CASE t.id \in completed
    <3>1. completed' = completed /\ optimized' = optimized
      BY <1>1, <2>4 DEF Process
    <3> QED
      BY <2>3, <2>4, <3>1 DEF Answers
  <2>5. CASE t.id \notin completed
    <3>1. /\ completed' = completed \cup {t.id}
          /\ optimized' = optimized \cup {<<t.run, t.deployment>>}
      BY <1>1, <2>2, <2>5 DEF Process
    <3>2. \A d \in Deployments : SameService(d, t.deployment) => <<t.run, d>> \notin optimized
      BY <2>1, <2>5 DEF Answers, TaskId, SameService
    <3>3. \A r \in Runs, d \in Deployments :
             <<r, d>> \in optimized' => TaskId(r, d) \in completed'
      BY <2>1, <3>1 DEF Answers
    <3>4. \A id \in completed' : \E r \in Runs, d \in Deployments :
             id = TaskId(r, d) /\ <<r, d>> \in optimized'
      BY <2>1, <3>1 DEF Answers
    <3>5. \A r \in Runs, d, e \in Deployments :
             (<<r, d>> \in optimized' /\ <<r, e>> \in optimized' /\ SameService(d, e)) => d = e
      BY <2>1, <3>1, <3>2 DEF Answers, SameService
    <3>6. optimized' \in SUBSET (Runs \X Deployments)
      BY <2>1, <3>1 DEF Answers
    <3>7. answered' \subseteq tasks' /\ \A s \in answered' : s.id \in completed'
      BY <2>3, <3>1 DEF Answers
    <3> QED
      BY <2>3, <3>3, <3>4, <3>5, <3>6, <3>7 DEF Answers
  <2> QED
    BY <2>4, <2>5
<1>2. ASSUME NEW r \in Runs, Dispatch(r)
      PROVE  Answers'
  BY <1>2 DEF Answers, Dispatch
<1>3. CASE UNCHANGED workVars
  BY <1>3 DEF Answers, workVars
<1>4. (\E t \in tasks : Process(t)) \/ (\E r \in Runs : Dispatch(r)) \/ UNCHANGED workVars
  <2>1. \A d \in Deployments : \A f \in FilesOf[d] : Edit(d, f) => UNCHANGED workVars
    BY DEF Edit
  <2>2. \A r \in Runs : RunStep(r) => Dispatch(r) \/ UNCHANGED workVars
    BY DEF RunStep, Discover, BuildRegistry, ReadFile, IndexRaises, Reuse, MustPut, Put,
           IndexDone, DispatchDone, DispatchRaises
  <2> QED
    BY <2>1, <2>2 DEF ContextNext, contextVars, RunStep
<1> QED
  BY <1>1, <1>2, <1>3, <1>4

\* Every step preserves the invariant.
LEMMA ContextNextPreservesInv == ContextInv /\ [ContextNext]_contextVars => ContextInv'
BY ContextTypesArePreserved, IndexingIsPreserved, RequestsArePreserved, AnswersArePreserved
   DEF ContextInv

\* The inductive invariant of runs that share the store.
THEOREM ContextInvHolds == ContextSpec => []ContextInv
BY ContextInitEstablishesInv, ContextNextPreservesInv, PTL DEF ContextSpec

-----------------------------------------------------------------------------

\* _validate never refuses a task of a coordinator, whatever other runs put
\* into the store, of however many runs and edits.
THEOREM TasksFindContexts == ContextSpec => []TasksFindTheirContext
<1>1. ContextInv => TasksFindTheirContext
  BY RequestsAreValid DEF ContextInv, Answers, TasksFindTheirContext
<1> QED
  BY <1>1, ContextInvHolds, PTL

\* The context that index() hands out has been true since its run began.
THEOREM ContextsStayCurrent == ContextSpec => []ContextsAreCurrent
<1>1. ContextInv => ContextsAreCurrent
  BY DEF ContextInv, Requests, Describes, Fits, ContextsAreCurrent, SameService
<1> QED
  BY <1>1, ContextInvHolds, PTL

\* Every service that discovery found is optimized, once, in every run whose
\* requests have been answered.
THEOREM ServicesAreOptimizedOnce == ContextSpec => []EveryServiceIsOptimized
<1>1. ASSUME ContextInv, NEW r \in Runs, node[r] = "wait",
             \A t \in tasks : t.run = r => t \in answered,
             NEW i \in DOMAIN services[r]
      PROVE  \E d \in Deployments :
               /\ <<r, d>> \in optimized
               /\ \A e \in Deployments :
                    (SameService(services[r][i], e) /\ <<r, e>> \in optimized) <=> e = d
  <2> DEFINE here == services[r][i]
  <2>1. PICK t \in tasks : t.run = r /\ t.deployment = here
    BY <1>1 DEF ContextInv, Indexing, IndexingOf, Requested
  <2>2. here \in Deployments /\ t.id = TaskId(r, here) /\ t.id \in completed
    BY <1>1, <2>1 DEF ContextInv, Requests, Answers
  <2>3. PICK q \in Runs, d \in Deployments : TaskId(r, here) = TaskId(q, d) /\ <<q, d>> \in optimized
    BY <1>1, <2>2 DEF ContextInv, Answers
  <2>4. q = r /\ SameService(here, d) /\ <<r, d>> \in optimized
    BY <2>3 DEF TaskId, SameService
  <2>5. \A e \in Deployments : (SameService(here, e) /\ <<r, e>> \in optimized) => e = d
    BY <1>1, <2>4 DEF ContextInv, Answers, SameService
  <2> QED
    BY <2>4, <2>5
<1>2. ContextInv => EveryServiceIsOptimized
  BY <1>1 DEF EveryServiceIsOptimized
<1> QED
  BY <1>2, ContextInvHolds, PTL
=============================================================================
