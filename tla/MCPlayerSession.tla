--------------------------- MODULE MCPlayerSession ---------------------------
(* A session of the player for TLC: see the configurations for the values of *)
(* the constants.                                                            *)
EXTENDS PlayerSession
=============================================================================
