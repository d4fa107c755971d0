------------------------------ MODULE MCShutdown ------------------------------
(***************************************************************************)
(* Shutdown for TLC.  Two schedulers, so that one is stopped, and later    *)
(* destroyed, before the other; two signals, so that the handler runs on   *)
(* two threads; and two samples, so that more than the last may be lost.   *)
(***************************************************************************)
EXTENDS Shutdown
==============================================================================
