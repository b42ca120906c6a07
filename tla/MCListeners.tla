---------------------------- MODULE MCListeners ----------------------------
(* An instance of Listeners for TLC. *)
EXTENDS Listeners
=============================================================================
