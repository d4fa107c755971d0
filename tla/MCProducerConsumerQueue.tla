---------------------- MODULE MCProducerConsumerQueue ----------------------
(***************************************************************************)
(* ProducerConsumerQueue for TLC.  Four records wrap around after a few    *)
(* calls, and three values are enough to tell a reordered or repeated      *)
(* value from the right one when three of them are undelivered.            *)
(***************************************************************************)
EXTENDS ProducerConsumerQueue
=============================================================================
