----------------------------- MODULE TaskLedger -----------------------------
(***************************************************************************)
(* What the event layer promises to whoever dispatches tasks, whatever     *)
(* happens to messages, offsets, locks and workers in between.             *)
(*                                                                         *)
(* A task is dispatched once.  Only a dispatched task is answered or       *)
(* abandoned, and only while the run is open.  A run is completed when all *)
(* tasks are dispatched, or breaks before or after that.  All answers to a *)
(* task are the same, however often it is delivered, processed and         *)
(* answered; it may be abandoned before or after it is answered, when what *)
(* fails is not the optimization but the bookkeeping.                      *)
(***************************************************************************)
CONSTANT Tasks

VARIABLES
    run,           \* "open", "completed" or "broken"
    dispatched,    \* the tasks handed out
    answers,       \* per task, the answers that were published
    abandoned      \* the tasks that were given up on

ledgerVars == <<run, dispatched, answers, abandoned>>

LedgerInit ==
    /\ run = "open"
    /\ dispatched = {}
    /\ answers = [t \in Tasks |-> {}]
    /\ abandoned = {}

DispatchTask(t) ==
    /\ run = "open" /\ t \notin dispatched
    /\ dispatched' = dispatched \cup {t}
    /\ UNCHANGED <<run, answers, abandoned>>

\* The first answer of a task; another one must equal it.
AnswerTask(t, accepted) ==
    /\ run = "open" /\ t \in dispatched /\ answers[t] = {}
    /\ answers' = [answers EXCEPT ![t] = {accepted}]
    /\ UNCHANGED <<run, dispatched, abandoned>>

AbandonTask(t) ==
    /\ run = "open" /\ t \in dispatched
    /\ abandoned' = abandoned \cup {t}
    /\ UNCHANGED <<run, dispatched, answers>>

Complete ==
    /\ run = "open" /\ dispatched = Tasks
    /\ run' = "completed"
    /\ UNCHANGED <<dispatched, answers, abandoned>>

Break ==
    /\ run = "open"
    /\ run' = "broken"
    /\ UNCHANGED <<dispatched, answers, abandoned>>

LedgerNext ==
    \/ \E t \in Tasks : DispatchTask(t) \/ AbandonTask(t)
    \/ \E t \in Tasks, accepted \in BOOLEAN : AnswerTask(t, accepted)
    \/ Complete \/ Break

LedgerSpec == LedgerInit /\ [][LedgerNext]_ledgerVars
=============================================================================
