-------------------------- MODULE MCProducerQueue --------------------------
(* Instances of ProducerQueue for TLC; the .cfg files give the constants.   *)
EXTENDS ProducerQueue
=============================================================================
