----------------------------- MODULE MCPausePlay -----------------------------
(* Pausing and restarting for TLC. *)
EXTENDS PausePlay
=============================================================================
