---------------------------- MODULE MCTaskPriority ----------------------------
(***************************************************************************)
(* TaskPriority for TLC: all widths and ranges are scaled down, and their  *)
(* proportions kept.  Ten seconds of ticks exceed an unsigned int, the     *)
(* least niceness brings the penalty of an unknown chain to the threshold, *)
(* and the ranges of batch priorities leave no room.  A task runs for less *)
(* than the window, for about as long, and for longer.                     *)
(***************************************************************************)
EXTENDS TaskPriority
==============================================================================
