--------------------------- MODULE MCWorkStealing ---------------------------
(***************************************************************************)
(* WorkStealing for TLC: the chains of the runs.                           *)
(***************************************************************************)
EXTENDS WorkStealing

CONSTANTS a1, a2, b1, c1

\* a1 is followed by the asynchronous read a2; the other chains have one task
\* each.
Chains == [t \in Tasks |-> IF t = a1 THEN {a2} ELSE {}]

ThreeFirst == <<a1, b1, c1>>
=============================================================================
