----------------------------- MODULE TaskPriority -----------------------------
(***************************************************************************)
(* How a chain of tasks gets its priorities: Task::updateCpuUtilization    *)
(* and Task::getPriority of task.cc, called by scheduler.cc around the     *)
(* execution of a task and whenever one is submitted, with the clock of    *)
(* the scheduler that executes it.                                         *)
(*                                                                         *)
(* One chain is followed; its tasks are executed one after the other and   *)
(* hand their accounts on.  The other tasks only make the clocks advance:  *)
(* every scheduler has a clock of its own, which counts the time its tasks *)
(* used, and a task that is donated takes its accounts to another clock.   *)
(* All arithmetic is of the widths the code uses.                          *)
(***************************************************************************)
EXTENDS Interactivity

CONSTANTS
    N,              \* number of schedulers
    Second,         \* hz, the ticks of a second
    TickSecs,       \* SCHED_TICK_SECS
    Shift,          \* 2 ^ SCHED_TICK_SHIFT
    UllMod,         \* 2 ^ the width of unsigned long long
    IntMax,         \* 2 ^ the width of int, less one: one more than any int
    PriRange,       \* SCHED_PRI_RANGE
    MaxNice,        \* MAX_NICENESS, and MIN_NICENESS is -MaxNice
    InteractRange,  \* PRI_INTERACT_RANGE
    RunTimes,       \* for how many ticks a task may run
    MaxClock        \* bound on the clocks

Sched == 0 .. N - 1
Targ == Second * TickSecs    \* SCHED_TICK_TARG
TickMax == Targ + Second     \* SCHED_TICK_MAX

ASSUME SizesAssumption ==
    /\ N \in Nat \ {0}
    /\ {Second, TickSecs, Shift, UllMod, IntMax, PriRange, InteractRange} \subseteq Nat \ {0}
    /\ MaxNice \in Nat
    /\ Half >= Thresh + MaxNice
    /\ RunTimes \subseteq Nat
    /\ MaxClock \in 0 .. UllMod - 1

\* Of the widths: ten seconds of ticks are more than an unsigned int holds, and
\* the quotient that getPriority converts to int fits whatever ticks is.
ASSUME WidthsAssumption ==
    /\ 2 * IntMax <= Targ
    /\ TickMax + PriRange <= UllMod
    /\ PriRange <= Second
    /\ ((UllMod - 1) \div Shift) \div (Second \div PriRange) < IntMax

VARIABLES
    clock,     \* getCurrentTicks of each scheduler
    at,        \* the scheduler the task is at
    stage,     \* where it is in its life
    niceness,
    ticks,     \* use of the processor between ftick and ltick
    ftick,
    ltick,
    known,     \* the history of the chain has some time in it
    priority   \* what getPriority returned, while the task is queued

accounts == <<ticks, ftick, ltick>>
vars == <<clock, at, stage, niceness, accounts, known, priority>>

Ull == 0 .. UllMod - 1
Niceness == -MaxNice .. MaxNice

PriMinInteract == 0
PriMaxInteract == InteractRange - 1
PriMinBatch == InteractRange
SchedPriMin == PriMinBatch + MaxNice
PriMaxBatch == PriMinBatch + PriRange + 2 * MaxNice - 1

TypeOK ==
    /\ clock \in [Sched -> 0 .. MaxClock]
    /\ at \in Sched
    /\ stage \in {"submit", "queued", "running", "crashed"}
    /\ niceness \in Niceness
    /\ ticks \in Ull
    /\ ftick \in Ull
    /\ ltick \in Ull
    /\ known \in BOOLEAN
    /\ priority \in PriMinInteract .. PriMaxBatch

Init ==
    /\ clock = [s \in Sched |-> 0]
    /\ at = 0
    /\ stage = "submit"
    /\ niceness \in Niceness
    /\ ticks = 0
    /\ ftick = 0
    /\ ltick = 0
    /\ known = FALSE
    /\ priority = PriMinInteract

------------------------------------------------------------------------------
(* getPriority.                                                             *)

Larger(a, b) == IF a > b THEN a ELSE b
Lesser(a, b) == IF a < b THEN a ELSE b

\* Subtraction of unsigned long long.
Minus(a, b) == (a - b) % UllMod

\* Conversion of an unsigned long long to int.
AsInt(x) ==
    LET low == x % (2 * IntMax) IN IF low < IntMax THEN low ELSE low - 2 * IntMax

\* SCHED_TICK_TOTAL.
TickTotal == Larger(Minus(ltick, ftick), Second)

\* SCHED_PRI_TICKS; roundup and the division by the range are a division
\* rounded up.
PriTicks == (ticks \div Shift) \div ((TickTotal + PriRange - 1) \div PriRange)

\* The bound is one too high.
BatchOffByOne == SchedPriMin + Lesser(AsInt(PriTicks), PriRange) + niceness

\* The priority of a batch task, of which its use of the processor is known.
UsedBatch == SchedPriMin + Lesser(AsInt(PriTicks), PriRange - 1) + niceness

IsInteractive(score) == score < Thresh

\* What getPriority computes of a penalty, before it checks the range.
Computed(penalty) ==
    LET score == Larger(0, penalty + niceness) IN
    CASE IsInteractive(score) -> PriMinInteract + (InteractRange * score) \div Thresh
      [] ~IsInteractive(score) /\ ticks = 0 -> SchedPriMin
      [] OTHER -> UsedBatch

\* The checks, by which getPriority throws.
InRange(penalty, p) ==
    IF IsInteractive(Larger(0, penalty + niceness))
    THEN p \in PriMinInteract .. PriMaxInteract
    ELSE ticks = 0 \/ p \in PriMinBatch .. PriMaxBatch

\* What getInteractivityPenality may return; module History tells which of
\* them for which history.
PenaltiesNow == IF known THEN 0 .. 2 * Half ELSE {Half}

------------------------------------------------------------------------------
(* updateCpuUtilization(t, ran).                                            *)

\* The time since the last update, cut to an unsigned int, which is always
\* less than Targ.
LongIdle(t) == Minus(t, ltick) % (2 * IntMax) >= Targ

WindowOver(t) == ~LongIdle(t) /\ Minus(t, ftick) >= TickMax

\* The average use per tick is divided by the length of the window.
DividesByZero(t) == WindowOver(t) /\ ltick = ftick

\* The use is not scaled down to what is left of the window.
KeptUnscaled(t) == IF LongIdle(t) THEN 0 ELSE ticks

\* What is left of ticks.
Kept(t) ==
    CASE LongIdle(t)   -> 0
      [] WindowOver(t) ->
           ((ticks \div Minus(ltick, ftick)) * Minus(ltick, Minus(t, Targ))) % UllMod
      [] OTHER         -> ticks

\* The window begins anew, and ends where it begins.
NewFtickNow(t) == IF LongIdle(t) \/ WindowOver(t) THEN t ELSE ftick

NewFtick(t) == IF LongIdle(t) \/ WindowOver(t) THEN Minus(t, Targ) ELSE ftick

Update(t, ran) ==
    /\ ~DividesByZero(t)
    /\ ticks' = (Kept(t) + (IF ran THEN Minus(t, ltick) * Shift ELSE 0)) % UllMod
    /\ ftick' = NewFtick(t)
    /\ ltick' = t

------------------------------------------------------------------------------
(* The life of a chain.                                                     *)

\* Scheduler::submit asks for the priority and queues the task.  That the
\* priority is in range, or getPriority would throw, is shown below.
Submit(penalty) ==
    /\ stage = "submit"
    /\ penalty \in PenaltiesNow
    /\ InRange(penalty, Computed(penalty))
    /\ priority' = Computed(penalty)
    /\ stage' = "queued"
    /\ UNCHANGED <<clock, at, niceness, accounts, known>>

\* Another task runs on scheduler s.
OtherRuns(s, d) ==
    /\ stage \in {"submit", "queued"} \/ (stage = "running" /\ s # at)
    /\ clock[s] + d <= MaxClock
    /\ clock' = [clock EXCEPT ![s] = @ + d]
    /\ UNCHANGED <<at, stage, niceness, accounts, known, priority>>

\* The task is donated to scheduler s, which submits it again.
Donated(s) ==
    /\ stage = "queued"
    /\ s # at
    /\ at' = s
    /\ stage' = "submit"
    /\ priority' = PriMinInteract
    /\ UNCHANGED <<clock, niceness, accounts, known>>

\* Before the task is executed.
Start ==
    /\ stage = "queued"
    /\ Update(clock[at], FALSE)
    /\ stage' = "running"
    /\ priority' = PriMinInteract
    /\ UNCHANGED <<clock, at, niceness, known>>

\* The task was executed for d ticks, and hands its accounts on to the next
\* task of the chain, which has niceness n, and by the time it is submitted may
\* have waited for a file.
Finish(d, n) ==
    /\ stage = "running"
    /\ clock[at] + d <= MaxClock
    /\ clock' = [clock EXCEPT ![at] = @ + d]
    /\ Update(clock[at] + d, TRUE)
    /\ niceness' = n
    /\ known' \in {known \/ d > 0, TRUE}
    /\ stage' = "submit"
    /\ UNCHANGED <<at, priority>>

\* The division by zero ends the process.
StartCrashes ==
    /\ stage = "queued"
    /\ DividesByZero(clock[at])
    /\ stage' = "crashed"
    /\ UNCHANGED <<clock, at, niceness, accounts, known, priority>>

FinishCrashes(d) ==
    /\ stage = "running"
    /\ clock[at] + d <= MaxClock
    /\ DividesByZero(clock[at] + d)
    /\ stage' = "crashed"
    /\ UNCHANGED <<clock, at, niceness, accounts, known, priority>>

Next ==
    \/ \E penalty \in 0 .. 2 * Half : Submit(penalty)
    \/ \E s \in Sched : \E d \in RunTimes : OtherRuns(s, d)
    \/ \E s \in Sched : Donated(s)
    \/ Start
    \/ \E d \in RunTimes : \E n \in Niceness : Finish(d, n)
    \/ StartCrashes
    \/ \E d \in RunTimes : FinishCrashes(d)

Spec == Init /\ [][Next]_vars

------------------------------------------------------------------------------
(* Properties.                                                              *)

\* getPriority never throws: the priority is in the range of its class for
\* every niceness and penalty, also when a donated task brings its accounts to
\* a clock that is behind, or one that is so far ahead that the unsigned
\* arithmetic wraps around (task.cc:112-123).
PrioritiesAreInRange ==
    /\ TypeOK
    /\ stage = "submit" => \A penalty \in PenaltiesNow : InRange(penalty, Computed(penalty))

\* What the tasks of a chain use is at most all the time of the window.
Fits == ticks <= Shift * (ltick - ftick)

\* The account of a chain never says that it used more time than there was, as
\* long as it is brought up to date within SCHED_TICK_SECS and by a clock that is
\* not behind it.  A chain that waits, or runs at a stretch, for longer loses
\* that: the branch that would start a new account is never taken, and the old
\* one wraps around (task.cc:94-99).
UseFitsWindow ==
    [][Fits /\ clock'[at] - ltick \in 0 .. Targ => Fits']_vars

\* updateCpuUtilization divides by ltick - ftick.  Once an account was updated
\* at a clock above 0 that is no division by zero any more, unless a donation
\* brings the account to a clock that is behind it (task.cc:97-100): however
\* the window moves on, it never gets empty.
WindowStaysOpen ==
    [][ltick > ftick /\ clock'[at] >= ltick => ltick' > ftick']_vars
==============================================================================
