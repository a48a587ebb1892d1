------------------------------ MODULE MCPaging ------------------------------
(* Paging for TLC: the clients' listings. *)
EXTENDS Paging

\* The loop of the filter keeps the matching entries in order.
ASSUME FilteredAssumption ==
    \A s \in SeqOf(3..6, 4) : Filtered(s) = SelectSeq(s, LAMBDA i : i \in Matching)

\* From the start, with every MaxEntries up to the API's largest page or none,
\* with and without a source volume, and from tokens in the middle, those that
\* MaxEntries divides among them.
Usual ==
    [rpc : {"volumes"}, maxEntries : 0..4, token : {0}, filter : {FALSE}]
        \union [rpc : {"volumes"}, maxEntries : {1, 4}, token : 1..8, filter : {FALSE}]
        \union [rpc : {"snapshots"}, maxEntries : {0, 1, 3}, token : {0, 3}, filter : BOOLEAN]

\* They meet the condition of the invariant.
ASSUME UsualAssumption == TokensFit
=============================================================================
