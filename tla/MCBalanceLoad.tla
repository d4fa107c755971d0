---------------------------- MODULE MCBalanceLoad ----------------------------
(***************************************************************************)
(* BalanceLoad for TLC.  Four schedulers give rounds with up to three      *)
(* donors or three recipients, and with two of each; with up to four tasks *)
(* each and MAX_TASKS_TO_STEAL scaled down to three, the cap is met and    *)
(* missed.                                                                 *)
(***************************************************************************)
EXTENDS BalanceLoad
==============================================================================
