------------------------------- MODULE Paging -------------------------------
(***************************************************************************)
(* ListVolumes and ListSnapshots (src/driver/controller.go) and the        *)
(* listResources they share (src/driver/paging.go), which turns a starting *)
(* token and a maximum number of entries into requests for pages, and a    *)
(* client that lists everything response by response.                      *)
(*                                                                         *)
(* Items are numbered in the order of the API's list.  While the client is *)
(* listing, items are added at its end and removed anywhere, and requests  *)
(* fail, upon which the client repeats its call.                           *)
(***************************************************************************)
EXTENDS PageTokens, Sequences, SequencesExt, FiniteSets

CONSTANTS
    Listings,         \* RPC, MaxEntries and first token of a client (0: not given)
    DefaultVolumesPageSize,   \* the flag --default-volumes-page-size
    PageCap,          \* largest page the API returns
    DefaultPerPage,   \* page size of a request that gives none
    Matching,         \* items of the client's source volume, if it gives one
    MaxItems,         \* bound on the items that ever exist
    MaxRemovals       \* bound on the items removed during a listing

ASSUME PagingAssumption ==
    /\ Listings \subseteq [rpc : {"volumes", "snapshots"}, maxEntries : Nat,
                           token : Nat, filter : BOOLEAN]
    /\ DefaultVolumesPageSize \in Nat
    /\ PageCap \in Nat \ {0}
    /\ DefaultPerPage \in 1..PageCap
    /\ MaxItems \in Nat /\ MaxRemovals \in Nat

VARIABLES
    items,             \* the API's list (external)
    created, removed,  \* how many items were ever created and removed
    listing,           \* what the client asks for, the same in all its calls
    token,             \* the token of the client's next or current call
    pc,                \* "idle", "paging" or "end"
    page, skip,        \* listOpts.Page and what is left of startingToken
    remainingEntries,
    resources,         \* what the current call has collected
    listed             \* everything the client has received

apiVars == <<items, created, removed>>
callVars == <<page, skip, remainingEntries, resources>>
clientVars == <<token, pc, listed>>
vars == <<apiVars, listing, callVars, clientVars>>

-----------------------------------------------------------------------------
\* ListVolumes has a default of its own for MaxEntries.
MaxOf(l) ==
    IF l.rpc = "volumes" /\ l.maxEntries = 0 THEN DefaultVolumesPageSize ELSE l.maxEntries
MaxEntries == MaxOf(listing)

\* filterSnapshotEntriesForVolumeID: what its loop has kept of the first n
\* entries, and of all of them.
Filtered(s) ==
    LET kept[n \in 0..Len(s)] ==
            IF n = 0 THEN << >>
            ELSE IF s[n] \in Matching THEN Append(kept[n - 1], s[n]) ELSE kept[n - 1]
    IN  kept[Len(s)]
Entries(s) == IF listing.filter THEN Filtered(s) ELSE s

(* The API (external) *)

Smaller(a, b) == IF a < b THEN a ELSE b
PerPage == IF MaxEntries = 0 THEN DefaultPerPage ELSE Smaller(MaxEntries, PageCap)

\* The items of a page, and whether the response links to another one.
Items(p) == SubSeq(items, (p - 1) * PerPage + 1, Smaller(p * PerPage, Len(items)))
IsLastPage(p) == p * PerPage >= Len(items)

-----------------------------------------------------------------------------
(* listResources *)

\* What still fits into the response.
Kept(wanted, left) ==
    IF MaxEntries > 0 /\ Len(wanted) > left THEN SubSeq(wanted, 1, left) ELSE wanted

ItemType == 1..MaxItems

TypeOK ==
    /\ items \in Seq(ItemType)
    /\ created \in 0..MaxItems /\ removed \in 0..MaxRemovals
    /\ listing \in Listings
    /\ token \in Nat
    /\ pc \in {"idle", "paging", "end"}
    /\ page \in Nat /\ skip \in Nat /\ remainingEntries \in Int
    /\ resources \in Seq(ItemType)
    /\ listed \in Seq(ItemType)

\* The call returns and forgets what it has collected.
EndCall ==
    page' = 0 /\ skip' = 0 /\ remainingEntries' = 0 /\ resources' = <<>>

Init ==
    /\ created \in 0..MaxItems /\ removed = 0
    /\ items = [k \in 1..created |-> k]
    /\ listing \in Listings
    /\ token = listing.token
    /\ pc = "idle"
    /\ page = 0 /\ skip = 0 /\ remainingEntries = 0 /\ resources = <<>>
    /\ listed = <<>>

Begin ==
    /\ pc = "idle"
    /\ pc' = "paging"
    /\ page' = FirstPage(token, MaxEntries)
    /\ skip' = FirstSkip(token, MaxEntries)
    /\ remainingEntries' = MaxEntries
    /\ UNCHANGED <<apiVars, listing, resources, token, listed>>

\* One turn of the loop: ask for a page, drop what precedes the token, keep
\* what still fits, and stop when MaxEntries are collected or the list ends.
\* With the last turn the client gets the response, and the next token if
\* there is more.
FetchPage ==
    LET res == Items(page)
        wanted == SubSeq(res, Skipped(skip, Len(res)) + 1, Len(res))
        kept == Kept(wanted, remainingEntries)
        collected == resources \o kept
        left == remainingEntries - Len(kept)
        hasMore == kept # wanted \/ ~IsLastPage(page)
    IN
    /\ pc = "paging"
    /\ \/ /\ ~IsLastPage(page) /\ ~(MaxEntries > 0 /\ left = 0)
          /\ resources' = collected
          /\ remainingEntries' = left
          /\ skip' = 0
          /\ page' = page + 1
          /\ UNCHANGED clientVars
       \/ /\ IsLastPage(page) \/ (MaxEntries > 0 /\ left = 0)
          /\ listed' = listed \o Entries(collected)
          /\ token' = IF hasMore THEN NextToken(token, MaxEntries) ELSE 0
          /\ pc' = IF hasMore THEN "idle" ELSE "end"
          /\ EndCall
    /\ UNCHANGED <<apiVars, listing>>

\* A request for a page fails: the call fails, and the client repeats it.
FetchFails ==
    /\ pc = "paging"
    /\ pc' = "idle"
    /\ EndCall
    /\ UNCHANGED <<apiVars, listing, token, listed>>

\* Someone creates or removes a volume or a snapshot (external).
Create ==
    /\ created < MaxItems
    /\ created' = created + 1
    /\ items' = Append(items, created + 1)
    /\ UNCHANGED <<removed, listing, callVars, clientVars>>

Delete ==
    /\ removed < MaxRemovals
    /\ removed' = removed + 1
    /\ \E k \in 1..Len(items) : items' = RemoveAt(items, k)
    /\ UNCHANGED <<created, listing, callVars, clientVars>>

\* The client has everything.
Finished == pc = "end" /\ UNCHANGED vars

Next == Begin \/ FetchPage \/ FetchFails \/ Create \/ Delete \/ Finished

Spec == Init /\ [][Next]_vars

-----------------------------------------------------------------------------
(* Properties *)

\* The first item the client wants: a token counts from one, and none means
\* the first.
FirstItem == IF listing.token = 0 THEN 1 ELSE listing.token

\* Response by response, page by page, with calls repeated and items created
\* and removed in between, the client gets no item that precedes its token, none
\* twice, and all of them in order.
InOrderOnce ==
    \A k \in 1..Len(listed) :
        listed[k] >= FirstItem /\ (k > 1 => listed[k - 1] < listed[k])

\* What a client that was given no next token has missed: items from its token
\* on that are there, or, with a source volume, those of that volume.
Missed == {i \in ToSet(Entries(items)) : i >= FirstItem /\ i \notin ToSet(listed)}

\* How far the call for a token starts behind the item it names: by one if
\* MaxEntries divides it, as listResources takes a token without a remainder for
\* the first item of the next page.
Overshoot(t, max) == IF max > 0 /\ t > 0 /\ t % max = 0 THEN 1 ELSE 0

\* Listing to the end misses at most one item for each that is removed meanwhile
\* (tokens are positions, and removals move the items), and one more if the last
\* token overshoots: with MaxEntries 1, or a first token that MaxEntries divides.
\* However many calls there are, the overshoots do not add up.
LossIsBounded ==
    [][pc = "paging" /\ pc' = "end"
          => Cardinality(Missed') <= removed + Overshoot(token, MaxEntries)]_vars

-----------------------------------------------------------------------------
(* The inductive invariant *)

\* The page size the client gets is the MaxEntries it counts in, and a token
\* without MaxEntries lies on the first page.
TokensFit ==
    \A l \in Listings :
        MaxOf(l) <= PageCap /\ (MaxOf(l) = 0 => l.token <= DefaultPerPage)

\* How many items of the list precede the call, and precede its next turn.
Before(n) == IF n = 0 THEN 0 ELSE n - 1
StartOf(t, max, size) == (FirstPage(t, max) - 1) * size + Before(FirstSkip(t, max))
Start == StartOf(token, MaxEntries, PerPage)
Passed == IF pc = "paging" THEN (page - 1) * PerPage + Before(skip) ELSE Start

Increasing(s) == \A i, j \in DOMAIN s : i < j => s[i] < s[j]

\* The items of s are before those of q from position n on.
Precedes(s, q, n) == \A x \in ToSet(s), j \in DOMAIN q : j > n => x < q[j]

\* Every removal moves the items behind it by one.
ListInv ==
    /\ Len(items) = created - removed
    /\ Increasing(items)
    /\ \A k \in DOMAIN items : items[k] \in k..k + removed /\ items[k] <= created

CallInv ==
    /\ pc = "paging" => /\ page >= 1
                        /\ skip \in 0..PerPage /\ (skip # 0 => resources = << >>)
                        /\ Start <= Passed
                        /\ MaxEntries > 0 => /\ remainingEntries >= 1
                                             /\ Passed + remainingEntries = Start + MaxEntries
    /\ pc # "paging" => resources = << >>
    /\ pc # "end" => /\ FirstItem <= Start + 1
                     /\ MaxEntries = 0 => token = listing.token

ReceivedInv ==
    /\ Increasing(listed) /\ Increasing(resources)
    /\ ToSet(listed) \union ToSet(resources) \subseteq FirstItem..created
    /\ pc # "end" => /\ Precedes(listed, items, Start)
                     /\ Precedes(resources, items, Passed)
                     /\ Precedes(listed, resources, 0)

\* Items the client wants, does not have, and will not be shown by going on
\* after the first n of the list: they are among those, or will be once they
\* are created.
Lost(n, got) ==
    {v \in FirstItem..n + removed :
        /\ v \notin got
        /\ listing.filter => v \in Matching
        /\ v > created \/ \E k \in DOMAIN items : k <= n /\ items[k] = v}

\* Going on, whether from the next page or, after a failed call, from the token
\* again, loses at most one item for each removal and the one that is overshot.
LostInv ==
    pc # "end" =>
        LET bound == removed + Overshoot(token, MaxEntries)
        IN  /\ Cardinality(Lost(Start, ToSet(listed))) <= bound
            /\ Cardinality(Lost(Passed, ToSet(listed) \union ToSet(resources))) <= bound

\* Where the call stands in a list that grows and shrinks, what it and the
\* earlier calls have returned, and what they can no longer return.
Inv == TypeOK /\ ListInv /\ CallInv /\ ReceivedInv /\ LostInv

=============================================================================
