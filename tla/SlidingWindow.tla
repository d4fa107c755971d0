---------------------------- MODULE SlidingWindow ----------------------------
(***************************************************************************)
(* What a task's history promises: it knows what the chain of the task did *)
(* in each of the last Threshold milliseconds it accounted for, and        *)
(* nothing older.                                                          *)
(*                                                                         *)
(* This is the abstract specification that module History implements.      *)
(***************************************************************************)
EXTENDS Naturals, Sequences

CONSTANTS
    Threshold,  \* length of the window, in milliseconds
    Durations,  \* how many milliseconds an event may last
    Types       \* what a chain can do in a millisecond

VARIABLE window  \* what was done in each millisecond, oldest first

Latest(seq) ==
    IF Len(seq) <= Threshold THEN seq
    ELSE SubSeq(seq, Len(seq) - Threshold + 1, Len(seq))

WindowInit == window = <<>>

Spend(type, d) == window' = Latest(window \o [i \in 1 .. d |-> type])

WindowNext == \E type \in Types : \E d \in Durations : Spend(type, d)

WindowSpec == WindowInit /\ [][WindowNext]_window
==============================================================================
