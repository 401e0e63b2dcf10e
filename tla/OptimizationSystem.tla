------------------------- MODULE OptimizationSystem -------------------------
(***************************************************************************)
(* The whole optimization of a namespace: the coordinator                  *)
(* (agent_layer/graphs/system.py) dispatches one task per workload to the  *)
(* workers, waits for as many results, verifies the system and reports.    *)
(*                                                                         *)
(* Discovery, registry and indexing run before the first task is published *)
(* and are left out.  The result topic outlives a run: it may hold results *)
(* of an earlier run, and every result names its run.                      *)
(***************************************************************************)
EXTENDS OptimizationWorkers, FiniteSets

ASSUME TasksAssumption == IsFiniteSet(Tasks)

VARIABLES
    phase,        \* the coordinator's node
    dispatched,   \* the workloads whose task has been published
    read,         \* the results it has consumed from the topic
    received,     \* result_events, in order
    passed        \* system_passed

coordinatorVars == <<phase, dispatched, read, received, passed>>
vars == <<busVars, workerVars, coordinatorVars>>

Verdicts == {"report", "diagnosis"}
Ended == Verdicts \cup {"failed"}

SystemInit ==
    /\ BusInit
    /\ WorkersInit
    /\ phase = "dispatch"
    /\ dispatched = {}
    /\ read = 0
    /\ received = <<>>
    /\ passed = FALSE

\* dispatch_workload_events, one publication at a time.
Dispatch(t) ==
    /\ phase = "dispatch"
    /\ t \notin dispatched
    /\ PublishRequest(t, 0)
    /\ dispatched' = dispatched \cup {t}
    /\ UNCHANGED <<workerVars, phase, read, received, passed>>

DispatchDone ==
    /\ phase = "dispatch"
    /\ dispatched = Tasks
    /\ phase' = "waiting"
    /\ UNCHANGED <<busVars, workerVars, dispatched, read, received, passed>>

\* wait_for_completion: as many results as tasks, whichever tasks they are of.
StillWaiting == Len(received) < Cardinality(Tasks)

\* Mutant: results of earlier runs are counted.
ReceiveAnyRun ==
    /\ phase = "waiting"
    /\ StillWaiting
    /\ read < Len(results)
    /\ read' = read + 1
    /\ received' = Append(received, results[read + 1])
    /\ UNCHANGED <<busVars, workerVars, phase, dispatched, passed>>

Receive ==
    /\ phase = "waiting"
    /\ StillWaiting
    /\ read < Len(results)
    /\ read' = read + 1
    /\ received' = IF results[read + 1].run = "this"
                   THEN Append(received, results[read + 1]) ELSE received
    /\ UNCHANGED <<busVars, workerVars, phase, dispatched, passed>>

\* The wait times out, or publish, consume or acknowledge raises: the run ends
\* without a verdict, possibly with part of the tasks handed out.  The broker may
\* have the last one although its publication raised (Dispatch comes before).
CoordinatorRaises ==
    /\ phase \in {"dispatch", "waiting"}
    /\ phase' = "failed"
    /\ UNCHANGED <<busVars, workerVars, dispatched, read, received, passed>>

\* verify_system and route_system: the end-to-end check runs, and may fail,
\* only after every result has been accepted.
VerifySystem ==
    /\ phase = "waiting"
    /\ ~StillWaiting
    /\ \E endToEnd \in BOOLEAN :
          passed' = (endToEnd /\ \A i \in 1 .. Len(received) : received[i].accepted)
    /\ phase' = IF passed' THEN "report" ELSE "diagnosis"
    /\ UNCHANGED <<busVars, workerVars, dispatched, read, received>>

\* The command cancels its workers when the coordinator has ended.
WorkersRun ==
    /\ phase \notin Ended
    /\ \/ \E w \in Workers : WorkerStep(w) \/ WorkerFault(w)
       \/ \E t \in Tasks : LeaseExpires(t)
    /\ UNCHANGED coordinatorVars

SystemNext ==
    \/ \E t \in Tasks : Dispatch(t)
    \/ DispatchDone
    \/ Receive
    \/ CoordinatorRaises
    \/ VerifySystem
    \/ WorkersRun

\* Workers and coordinator share an event loop that runs whatever is ready;
\* every external call is bounded by a timeout.  Faults and errors are never forced.
SystemSpec ==
    /\ SystemInit
    /\ [][SystemNext]_vars
    /\ \A t \in Tasks : WF_vars(Dispatch(t))
    /\ WF_vars(DispatchDone)
    /\ WF_vars(Receive)
    /\ WF_vars(VerifySystem)
    /\ \A w \in Workers : WF_vars(phase \notin Ended /\ WorkerStep(w) /\ UNCHANGED coordinatorVars)

-----------------------------------------------------------------------------

SystemTypeOK ==
    /\ \A p \in Partitions :
          /\ committed[p] \in 0 .. Len(requests[p])
          /\ position[p] \in 0 .. Len(requests[p])
          /\ owner[p] \in Workers \cup {NoWorker}
          /\ \A i \in 1 .. Len(requests[p]) :
                requests[p][i] \in [task : Tasks, attempt : 0 .. MaxAttempts - 1]
    /\ \A i \in 1 .. Len(results) : results[i] \in [run : {"this", "earlier"}, task : Tasks, accepted : BOOLEAN]
    /\ deadLetters \in SUBSET Tasks
    /\ lock \in [Tasks -> Workers \cup {NoWorker}]
    /\ completed \in [Tasks -> {"none", "accepted", "rejected"}]
    /\ live \in [Tasks -> {"original", "candidate"}]
    /\ faults \in 0 .. MaxFaults
    /\ dispatched \in SUBSET Tasks
    /\ read \in 0 .. Len(results)

\* No task is lost: until its result or its dead letter is published, some
\* message of it is still to be delivered, through redeliveries, retries,
\* workers that die and cumulative commits of the offsets.
NoTaskIsLost ==
    \A t \in dispatched : ResultsOf(t) # {} \/ t \in deadLetters \/ Pending(t)

\* At most one worker at a time is where it changes a workload's policy.
OneWorkerChangesWorkload ==
    \A w1, w2 \in Workers :
        (w1 # w2 /\ pc[w1] \in Changing /\ pc[w2] \in Changing) => Task(w1) # Task(w2)

\* A system reported as passed, in a run without failures, has a result for
\* every workload and leaves every workload with its verified candidate.
FaultFreeReportIsTrue ==
    (phase = "report" /\ faults = 0) =>
        \A t \in Tasks : ResultsOf(t) # {} /\ live[t] = "candidate"

Ledger == INSTANCE TaskLedger WITH
    run <- IF phase \notin Ended THEN "open"
           ELSE IF phase \in Verdicts THEN "completed" ELSE "broken",
    answers <- [t \in Tasks |-> {results[i].accepted : i \in ResultsOf(t)}],
    abandoned <- deadLetters

\* Bus, workers and coordinator implement TaskLedger while no live worker
\* loses its partition: redelivered messages, retries, failing and dying
\* workers and expired leases never show as a second, different answer, even
\* if a graph is run again after a failure (the deduplication store), as an
\* answer to a task that was not handed out, or as an answer after the
\* coordinator has ended; and a coordinator with a verdict has handed out every
\* task, one that raised as many as it got to.
ImplementsLedger == Ledger!LedgerSpec

\* Every dispatched task ends with a result or a dead letter, unless the
\* coordinator has ended before or no worker is left.
EveryTaskSettles ==
    \A t \in Tasks :
        t \in dispatched ~> \/ ResultsOf(t) # {} \/ t \in deadLetters
                            \/ phase \in Ended \/ Alive = {}

\* system.py: "aggregated results by workload and task".  A system reported
\* as passed has an accepted result of every workload.
PassedMeansEveryWorkload ==
    phase = "report" =>
        \A t \in Tasks : \E i \in 1 .. Len(received) : received[i].task = t

\* workload.py: "verified candidate retained".  A workload reported as
\* accepted is left with its candidate.
AcceptedMeansRetained ==
    phase = "report" =>
        \A i \in 1 .. Len(received) : live[received[i].task] = "candidate"
=============================================================================
