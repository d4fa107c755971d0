------------------------------ MODULE MCIoChain ------------------------------
(***************************************************************************)
(* IoChain for TLC.  Two chains share two descriptors, so that one is used *)
(* again as soon as it is closed; with three writes the loop of main makes *)
(* two turns, the second on what the first one forked.  Both write the     *)
(* same file, as the chains of threadMigrationBenchmark do.                *)
(***************************************************************************)
EXTENDS IoChain

SameNumber == [c \in Chains |-> 0]
==============================================================================
