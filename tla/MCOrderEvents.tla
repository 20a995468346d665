---------------------------- MODULE MCOrderEvents ----------------------------
(* An instance of OrderEvents for TLC; the .cfg gives the constants.          *)
EXTENDS OrderEvents
=============================================================================
