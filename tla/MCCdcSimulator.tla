--------------------------- MODULE MCCdcSimulator ---------------------------
(* Instances of CdcSimulator for TLC; the .cfg files give the constants.    *)
EXTENDS CdcSimulator, TLC

Symmetry == Permutations(Sims) \cup Permutations(Orders) \cup Permutations(Products)
=============================================================================
