------------------------------ MODULE MCSystem ------------------------------
(* System for TLC: target paths and slots for calls are alike. *)
EXTENDS System, TLC

Symmetry == Permutations(Targets) \union Permutations(Calls)

=============================================================================
