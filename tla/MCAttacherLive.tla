--------------------------- MODULE MCAttacherLive ---------------------------
(* AttacherLive for TLC: constants come from the .cfg file. *)
EXTENDS AttacherLive
=============================================================================
