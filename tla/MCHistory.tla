------------------------------ MODULE MCHistory ------------------------------
(***************************************************************************)
(* History for TLC.  Events are as long as the window, longer, shorter and *)
(* of no length at all, and there are more of them than fit.               *)
(***************************************************************************)
EXTENDS History
==============================================================================
