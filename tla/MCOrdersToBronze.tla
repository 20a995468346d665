-------------------------- MODULE MCOrdersToBronze --------------------------
(* Instances of OrdersToBronze for TLC; the .cfg files give the constants.    *)
EXTENDS OrdersToBronze
=============================================================================
