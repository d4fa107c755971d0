----------------------------- MODULE Interactivity -----------------------------
(***************************************************************************)
(* The interactivity penalty of a chain: Task::getInteractivityPenality    *)
(* of task.cc, of the sums that History keeps, from which TaskPriority     *)
(* computes priorities.                                                    *)
(*                                                                         *)
(* It divides in floating point, first one time by the other and then Half *)
(* by the quotient, and truncates.  Where the exact result is a whole      *)
(* number, the rounding of the first quotient decides whether that number  *)
(* or a neighbour comes out.                                               *)
(***************************************************************************)
EXTENDS Integers

CONSTANTS
    Half,   \* SCHED_INTERACT_HALF
    Thresh  \* SCHED_INTERACT_THRESH

ASSUME InteractivityAssumption ==
    /\ Half \in Nat \ {0}
    /\ Thresh \in 1 .. Half

\* Half * a / b truncated, for a < b.
Scaled(a, b) ==
    LET q == (Half * a) \div b IN
    IF (Half * a) % b = 0 /\ a > 0 THEN {q - 1, q} ELSE {q}

\* Half + (Half - Half * a / b) truncated, for a < b.
ScaledFromAbove(a, b) ==
    LET q == (Half * a) \div b IN
    CASE a = 0                        -> {2 * Half}
      [] a > 0 /\ (Half * a) % b = 0  -> {2 * Half - q - 1, 2 * Half - q}
      [] OTHER                        -> {2 * Half - q - 1}

\* The two times are compared the wrong way round.
PenaltiesSwapped(run, sleep) ==
    CASE run > sleep -> Scaled(sleep, run)
      [] run < sleep -> ScaledFromAbove(run, sleep)
      [] OTHER       -> {Half}

\* What the penalty may be.
Penalties(run, sleep) ==
    CASE sleep > run -> Scaled(run, sleep)
      [] sleep < run -> ScaledFromAbove(sleep, run)
      [] OTHER       -> {Half}
==============================================================================
