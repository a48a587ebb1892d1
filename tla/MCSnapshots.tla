----------------------------- MODULE MCSnapshots -----------------------------
(* Snapshots for TLC: constants come from the .cfg file. *)
EXTENDS Snapshots
==============================================================================
