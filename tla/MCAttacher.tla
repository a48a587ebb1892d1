----------------------------- MODULE MCAttacher -----------------------------
(* Instances of Attacher for TLC: constants come from the .cfg files. *)
EXTENDS Attacher, TLC

\* Volumes, droplets and call slots are interchangeable.
Symmetry ==
    Permutations(Volumes) \union Permutations(Droplets) \union Permutations(Calls)
=============================================================================
