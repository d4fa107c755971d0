---------------------------- MODULE MCRunQueues ----------------------------
(***************************************************************************)
(* RunQueues for TLC.                                                      *)
(***************************************************************************)
EXTENDS RunQueues

\* Any time between two submissions.
AnyIncrement == 0 .. NBatch - 1

\* Every priority but the very lowest, PRI_MAX_BATCH, which only a task of
\* niceness MAX_NICENESS that used the processor all the time has.  Its bucket
\* is the one before insq, where it overtakes the others.
AllButLowest == 0 .. NInteractive + NBatch - 2
BatchButLowest == AllButLowest \ Levels
=============================================================================
