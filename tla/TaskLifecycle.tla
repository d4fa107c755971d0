---------------------------- MODULE TaskLifecycle ----------------------------
(***************************************************************************)
(* What the schedulers together promise about a task, whichever threads    *)
(* and lanes it passes through: it is submitted once, by the task before   *)
(* it in its chain; it is executed once; and only then is it deleted.      *)
(*                                                                         *)
(* This is the abstract specification that module WorkStealing implements. *)
(***************************************************************************)
EXTENDS FiniteSets

CONSTANTS
    Tasks,       \* every task of every chain
    FirstTasks,  \* the tasks main submits
    NextTasks    \* the next tasks of a task

VARIABLES
    waiting,     \* not submitted yet: a task before it has not finished
    queued,      \* submitted, not being executed
    executing,   \* inside process or submitting its next tasks
    deleted      \* executed, all its next tasks submitted, freed

lifecycleVars == <<waiting, queued, executing, deleted>>

LifecycleInit ==
    /\ queued = FirstTasks
    /\ waiting = Tasks \ FirstTasks
    /\ executing = {}
    /\ deleted = {}

Execute(t) ==
    /\ t \in queued
    /\ queued' = queued \ {t}
    /\ executing' = executing \cup {t}
    /\ UNCHANGED <<waiting, deleted>>

\* t submits one of its next tasks.
SubmitNext(t, n) ==
    /\ t \in executing
    /\ n \in NextTasks[t] \cap waiting
    /\ waiting' = waiting \ {n}
    /\ queued' = queued \cup {n}
    /\ UNCHANGED <<executing, deleted>>

\* Only a task that submitted every one of its next tasks is freed.
Delete(t) ==
    /\ t \in executing
    /\ NextTasks[t] \cap waiting = {}
    /\ executing' = executing \ {t}
    /\ deleted' = deleted \cup {t}
    /\ UNCHANGED <<waiting, queued>>

LifecycleNext ==
    \E t \in Tasks :
        \/ Execute(t)
        \/ \E n \in NextTasks[t] : SubmitNext(t, n)
        \/ Delete(t)

LifecycleSpec == LifecycleInit /\ [][LifecycleNext]_lifecycleVars
==============================================================================
