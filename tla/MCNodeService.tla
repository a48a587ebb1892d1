--------------------------- MODULE MCNodeService ---------------------------
(* NodeService for TLC: target paths, and slots for calls, are alike. *)
EXTENDS NodeService, TLC

Symmetry == Permutations(Targets) \union Permutations(Calls)

=============================================================================
