--------------------------- MODULE MCProvisioning ---------------------------
(* Instances of Provisioning for TLC.  Sizes are in halves of a GiB. *)
EXTENDS Provisioning, TLC

\* Whole GiB, as claims usually ask for.
WholeGiB == {[required |-> 4, limit |-> 0]}
Larger == {[required |-> 6, limit |-> 0]}
\* Ranges that are refused or have a limit only, and a required size below the
\* smallest supported one that has a limit.
Mixed == {[required |-> 4, limit |-> 0], [required |-> 0, limit |-> 2],
          [required |-> 4, limit |-> 2], [required |-> 1, limit |-> 4]}
\* The largest supported size and more than that.
Edges == {[required |-> 8, limit |-> 8], [required |-> 9, limit |-> 0]}
\* One and a half GiB.
Fractional == {[required |-> 3, limit |-> 0]}

Symmetry == Permutations(Names) \union Permutations(Calls)
=============================================================================
