--------------------------- MODULE MCThreadPerChain ---------------------------
(***************************************************************************)
(* ThreadPerChain for TLC.  Benchmarks have one or two threads.  A file of *)
(* three bytes has two blocks, the last one incomplete; sizes of five and  *)
(* eight bytes are negative, and zero, when they are converted to an int.  *)
(***************************************************************************)
EXTENDS ThreadPerChain
===============================================================================
