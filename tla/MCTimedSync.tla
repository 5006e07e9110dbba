----------------------------- MODULE MCTimedSync -----------------------------
(* The ring of CTimedSync for TLC: see the configurations for the values of  *)
(* the constants.                                                            *)
EXTENDS TimedSync
=============================================================================
