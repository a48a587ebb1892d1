---------------------------- MODULE MCAttachment ----------------------------
(* Instances of Attachment for TLC: constants come from the .cfg files. *)
EXTENDS Attachment, TLC

\* Volumes, droplets and call slots are interchangeable.
Symmetry ==
    Permutations(Volumes) \union Permutations(Droplets) \union Permutations(Calls)
=============================================================================
