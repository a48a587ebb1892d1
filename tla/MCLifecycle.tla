---------------------------- MODULE MCLifecycle ----------------------------
(* Lifecycle for TLC: constants come from the .cfg file. *)
EXTENDS Lifecycle
=============================================================================
