-------------------------- MODULE SnapshotsProofs --------------------------
(***************************************************************************)
(* Proofs about Snapshots, for any sets of names and call slots, any size  *)
(* of a page and any bound on the IDs.  Inv is inductive: the lemmas of    *)
(* the first part say what a step does to the API's list, those of the     *)
(* second what a handler, the orchestrator and the environment do to the   *)
(* rest.                                                                   *)
(***************************************************************************)
EXTENDS Snapshots, SequenceTheorems, FiniteSetTheorems, TLAPS

USE DEF Active, Waiting

-----------------------------------------------------------------------------
(* The API's list *)

\* The entries of the list are the snapshots that exist.
LEMMA EntriesExist ==
    ASSUME TypeOK
    PROVE  /\ DOMAIN list = 1..Len(list) /\ Len(list) \in Nat
           /\ \A i \in 1..Len(list) : list[i] \in Existing /\ list[i] \in SnapshotType
           /\ \A s \in Existing : s \in SnapshotType /\ \E i \in 1..Len(list) : list[i] = s
BY DEF TypeOK, Existing, ToSet

\* The part of a sequence after position m up to position n.
LEMMA PartOfSeq ==
    ASSUME NEW S, NEW q \in Seq(S), NEW m \in Nat, NEW n \in Nat, m <= n, n <= Len(q)
    PROVE  /\ SubSeq(q, m + 1, n) \in Seq(S) /\ Len(SubSeq(q, m + 1, n)) = n - m
           /\ \A i \in 1..n - m : SubSeq(q, m + 1, n)[i] = q[m + i]
<1>1. CASE m < n
    BY <1>1
<1>2. CASE m = n
    <2>1. SubSeq(q, m + 1, n) = << >>
        BY <1>2, SubSeqEmpty
    <2>2. QED
        BY <1>2, <2>1
<1>3. QED
    BY <1>1, <1>2

\* A page shows entries of the list, and all of those between its ends.
LEMMA PageIsPart ==
    ASSUME TypeOK, NEW p \in Nat, p >= 1
    PROVE  /\ ToSet(Page(p)) \subseteq Existing
           /\ \A i \in 1..Len(list) :
                (p - 1) * PerPage < i /\ i <= p * PerPage => list[i] \in ToSet(Page(p))
<1> DEFINE low == (p - 1) * PerPage
           high == IF p * PerPage < Len(list) THEN p * PerPage ELSE Len(list)
<1>1. low \in Nat /\ p * PerPage = low + PerPage /\ PerPage \in Nat \ {0}
    BY SnapshotsAssumption
<1>2. Len(list) \in Nat /\ list \in Seq(SnapshotType) /\ DOMAIN list = 1..Len(list)
    BY DEF TypeOK
<1>3. high \in Nat /\ high <= Len(list) /\ (\A i \in 1..Len(list) : i <= p * PerPage => i <= high)
    BY <1>1, <1>2
<1> HIDE DEF low, high
<1>4. Page(p) = SubSeq(list, low + 1, high)
    BY DEF Page, low, high
<1>6. CASE low >= high
    <2>1. Page(p) = << >>
        BY <1>1, <1>3, <1>4, <1>6, <1>2, SubSeqEmpty
    <2>2. ToSet(Page(p)) = {}
        BY <2>1 DEF ToSet
    <2>3. \A i \in 1..Len(list) : ~(low < i /\ i <= p * PerPage)
        BY <1>1, <1>2, <1>3, <1>6
    <2>4. QED
        BY <2>2, <2>3 DEF low
<1>7. CASE low < high
    <2>1. /\ SubSeq(list, low + 1, high) \in Seq(SnapshotType)
          /\ Len(SubSeq(list, low + 1, high)) = high - low
          /\ \A i \in 1..(high - low) : SubSeq(list, low + 1, high)[i] = list[low + i]
        BY <1>1, <1>2, <1>3, <1>7
    <2>1a. DOMAIN Page(p) = 1..(high - low) /\ \A i \in 1..(high - low) : Page(p)[i] = list[low + i]
        BY <1>4, <2>1
    <2>2. ToSet(Page(p)) \subseteq Existing
        BY <1>1, <1>2, <1>3, <2>1a DEF ToSet, Existing
    <2>3. ASSUME NEW i \in 1..Len(list), low < i, i <= p * PerPage
          PROVE  list[i] \in ToSet(Page(p))
        <3>1. i - low \in 1..(high - low) /\ low + (i - low) = i
            BY <1>1, <1>2, <1>3, <2>3
        <3>2. QED
            BY <2>1a, <3>1 DEF ToSet
    <2>4. QED
        BY <2>2, <2>3 DEF low
<1>8. QED
    BY <1>1, <1>3, <1>6, <1>7

\* A search for m from position k on misses nothing.
NotBefore(m, k) == \A i \in DOMAIN list : list[i].name = m => i > k

\* What a new snapshot does to the list.
LEMMA AddToList ==
    ASSUME TypeOK, Distinct, IdsSuffice, NEW n \in Names \union {Other}, nextId <= MaxId,
           Add(n), n \in Names => Named(n) = {}
    PROVE  /\ list' \in Seq(SnapshotType) /\ nextId' = nextId + 1
           /\ Existing' = Existing \union {[id |-> nextId, name |-> n]}
           /\ Distinct'
           /\ \A m, k : k \in Nat /\ m # n /\ NotBefore(m, k) => NotBefore(m, k)'
<1> DEFINE s == [id |-> nextId, name |-> n]
<1>1. /\ list \in Seq(SnapshotType) /\ Len(list) \in Nat /\ DOMAIN list = 1..Len(list)
      /\ \A i \in 1..Len(list) : list[i] \in SnapshotType
      /\ nextId \in Nat /\ nextId >= 1 /\ MaxId \in Nat
    BY SnapshotsAssumption DEF TypeOK
<1>2. s \in SnapshotType
    BY <1>1 DEF SnapshotType, Ids
<1>3. /\ \A i \in 1..Len(list) : list[i].id < nextId /\ list[i].id \in Nat
      /\ \A i \in 1..Len(list) : n \in Names => list[i].name # n
    <2>1. ASSUME NEW i \in 1..Len(list)
          PROVE  list[i].id < nextId /\ list[i].id \in Nat /\ (n \in Names => list[i].name # n)
        <3>1. list[i] \in Existing /\ list[i] \in SnapshotType
            BY <2>1, EntriesExist
        <3>2. list[i].id \in Nat
            BY <1>1, <3>1 DEF SnapshotType, Ids
        <3>3. list[i].id < nextId
            BY <3>1 DEF IdsSuffice
        <3>4. n \in Names => list[i].name # n
            BY <3>1 DEF Named
        <3>5. QED
            BY <3>2, <3>3, <3>4
    <2>2. QED
        BY <2>1
<1>4. s.id = nextId /\ s.name = n
    OBVIOUS
<1>5. nextId' = nextId + 1 /\ (list' = Append(list, s) \/ list' = <<s>> \o list)
    BY DEF Add
<1> HIDE DEF s
<1>6. CASE list' = Append(list, s)
    <2>1. /\ list' \in Seq(SnapshotType) /\ Len(list') = Len(list) + 1
          /\ DOMAIN list' = 1..Len(list) + 1
          /\ \A i \in 1..Len(list) : list'[i] = list[i]
          /\ list'[Len(list) + 1] = s
        BY <1>1, <1>2, <1>6
    <2>2. Existing' = Existing \union {s}
        BY <1>1, <2>1 DEF Existing, ToSet
    <2>3. Distinct'
        BY <1>1, <1>3, <1>4, <2>1 DEF Distinct
    <2>4. ASSUME NEW m, NEW k \in Nat, m # n, NotBefore(m, k)
          PROVE  NotBefore(m, k)'
        BY <1>1, <1>4, <2>1, <2>4 DEF NotBefore
    <2>5. QED
        BY <1>5, <2>1, <2>2, <2>3, <2>4 DEF s
<1>7. CASE list' = <<s>> \o list
    <2>1. /\ list' \in Seq(SnapshotType) /\ Len(list') = Len(list) + 1
          /\ DOMAIN list' = 1..Len(list) + 1
          /\ \A i \in 1..Len(list) : list'[i + 1] = list[i]
          /\ list'[1] = s
        BY <1>1, <1>2, <1>7
    <2>2. \A i \in 2..Len(list) + 1 : i - 1 \in 1..Len(list) /\ list'[i] = list[i - 1]
        BY <1>1, <2>1
    <2>3. Existing' = Existing \union {s}
        <3>1. Existing' \subseteq Existing \union {s}
            BY <1>1, <2>1, <2>2 DEF Existing, ToSet
        <3>2. Existing \union {s} \subseteq Existing'
            BY <1>1, <2>1 DEF Existing, ToSet
        <3>3. QED
            BY <3>1, <3>2
    <2>4. Distinct'
        <3>1. ASSUME NEW i \in DOMAIN list', NEW j \in DOMAIN list',
                     \/ list'[i].id = list'[j].id
                     \/ list'[i].name = list'[j].name /\ list'[i].name \in Names
              PROVE  i = j
            <4>1. ASSUME NEW x \in 2..Len(list) + 1
                  PROVE  /\ list'[x].id # list'[1].id
                         /\ ~(list'[x].name = list'[1].name /\ list'[1].name \in Names)
                <5>1. x - 1 \in 1..Len(list) /\ list'[x] = list[x - 1]
                    BY <2>2
                <5>2. list[x - 1].id # nextId /\ (n \in Names => list[x - 1].name # n)
                    BY <1>1, <1>3, <5>1
                <5>3. QED
                    BY <1>4, <2>1, <5>1, <5>2
            <4>1a. CASE i = 1 \/ j = 1
                BY <1>1, <2>1, <3>1, <4>1, <4>1a
            <4>2. CASE i # 1 /\ j # 1
                <5>1. /\ i \in 2..Len(list) + 1 /\ j \in 2..Len(list) + 1
                      /\ i \in Int /\ j \in Int
                    BY <1>1, <2>1, <3>1, <4>2
                <5>2. /\ i - 1 \in DOMAIN list /\ list'[i] = list[i - 1]
                      /\ j - 1 \in DOMAIN list /\ list'[j] = list[j - 1]
                    BY <1>1, <2>2, <5>1
                <5>3. i - 1 = j - 1
                    BY <3>1, <5>2 DEF Distinct
                <5>4. QED
                    BY <5>1, <5>3
            <4>3. QED
                BY <4>1a, <4>2
        <3>2. QED
            BY <3>1 DEF Distinct
    <2>5. ASSUME NEW m, NEW k \in Nat, m # n, NotBefore(m, k)
          PROVE  NotBefore(m, k)'
        <3>1. ASSUME NEW i \in 1..Len(list) + 1, list'[i].name = m
              PROVE  i > k
            <4>1. i # 1
                BY <1>4, <2>1, <2>5, <3>1
            <4>2. i - 1 \in 1..Len(list) /\ list'[i] = list[i - 1]
                BY <1>1, <2>2, <3>1, <4>1
            <4>3. i - 1 > k
                BY <1>1, <2>5, <3>1, <4>2 DEF NotBefore
            <4>4. QED
                BY <4>2, <4>3
        <3>2. QED
            BY <2>1, <3>1 DEF NotBefore
    <2>6. QED
        BY <1>5, <2>1, <2>3, <2>4, <2>5 DEF s
<1>8. QED
    BY <1>5, <1>6, <1>7

\* What the deletion of a snapshot does to the list.
LEMMA DropFromList ==
    ASSUME TypeOK, Distinct, NEW s \in Existing, Drop(s)
    PROVE  /\ list' \in Seq(SnapshotType) /\ nextId' = nextId
           /\ Existing' = Existing \ {s}
           /\ Distinct'
           /\ shrunk' = shrunk \union {c \in Calls : Active(c)}
<1>1. /\ list \in Seq(SnapshotType) /\ Len(list) \in Nat /\ DOMAIN list = 1..Len(list)
      /\ \A i \in 1..Len(list) : list[i] \in SnapshotType
    BY DEF TypeOK
<1>2. PICK k \in 1..Len(list) : list[k] = s /\ list' = RemoveAt(list, k)
    BY <1>1 DEF Drop
<1> DEFINE before == SubSeq(list, 1, k - 1)
           after == SubSeq(list, k + 1, Len(list))
<1>3. /\ before \in Seq(SnapshotType) /\ Len(before) = k - 1
      /\ \A i \in 1..k - 1 : before[i] = list[i]
    BY <1>1
<1>4. /\ after \in Seq(SnapshotType) /\ Len(after) = Len(list) - k
      /\ \A i \in 1..Len(list) - k : after[i] = list[k + i]
    <2>1. k \in Nat /\ k <= Len(list) /\ Len(list) <= Len(list)
        BY <1>1
    <2>2. QED
        BY <1>1, <2>1, PartOfSeq, Zenon
<1>5. /\ list' \in Seq(SnapshotType) /\ Len(list') = Len(list) - 1
      /\ DOMAIN list' = 1..Len(list) - 1
      /\ \A i \in 1..k - 1 : list'[i] = list[i]
      /\ \A i \in k..Len(list) - 1 : list'[i] = list[i + 1]
    <2>1. list' = before \o after
        BY <1>2 DEF RemoveAt
    <2> HIDE DEF before, after
    <2>2. /\ list' \in Seq(SnapshotType) /\ Len(list') = Len(list) - 1
          /\ \A i \in 1..Len(list) - 1 :
                list'[i] = IF i <= k - 1 THEN before[i] ELSE after[i - (k - 1)]
        <3>1. /\ before \o after \in Seq(SnapshotType)
              /\ Len(before \o after) = Len(before) + Len(after)
              /\ \A i \in 1..Len(before) + Len(after) :
                    (before \o after)[i] = IF i <= Len(before) THEN before[i]
                                           ELSE after[i - Len(before)]
            BY <1>3, <1>4, ConcatProperties, Zenon
        <3>2. Len(before) + Len(after) = Len(list) - 1
            BY <1>1, <1>3, <1>4
        <3>3. QED
            BY <1>3, <2>1, <3>1, <3>2
    <2>3. \A i \in k..Len(list) - 1 : i - (k - 1) \in 1..Len(list) - k /\ k + (i - (k - 1)) = i + 1
        BY <1>1
    <2>4. \A i \in 1..k - 1 : list'[i] = list[i]
        <3>1. TAKE i \in 1..k - 1
        <3>2. i \in 1..Len(list) - 1 /\ i <= k - 1
            BY <1>1
        <3>3. QED
            BY <1>3, <2>2, <3>2
    <2>5. \A i \in k..Len(list) - 1 : list'[i] = list[i + 1]
        <3>1. TAKE i \in k..Len(list) - 1
        <3>2. i \in 1..Len(list) - 1 /\ ~(i <= k - 1)
            BY <1>1
        <3>3. list'[i] = after[i - (k - 1)]
            BY <2>2, <3>2
        <3>4. QED
            BY <1>4, <2>3, <3>3
    <2>6. QED
        BY <2>2, <2>4, <2>5
<1> HIDE DEF before, after
<1>6. Distinct'
    <2> DEFINE old(i) == IF i < k THEN i ELSE i + 1
    <2>1. ASSUME NEW i \in DOMAIN list'
          PROVE  i \in Int /\ old(i) \in DOMAIN list /\ list'[i] = list[old(i)]
        BY <1>1, <1>5, <2>1
    <2>2. \A i, j \in Int : old(i) = old(j) => i = j
        BY <1>1
    <2> HIDE DEF old
    <2>3. ASSUME NEW i \in DOMAIN list', NEW j \in DOMAIN list',
                 \/ list'[i].id = list'[j].id
                 \/ list'[i].name = list'[j].name /\ list'[i].name \in Names
          PROVE  i = j
        <3>1. old(i) = old(j)
            BY <2>1, <2>3 DEF Distinct
        <3>2. QED
            BY <2>1, <2>2, <3>1
    <2>4. QED
        BY <2>3 DEF Distinct
<1>7. Existing' = Existing \ {s}
    <2>1. \A i \in 1..Len(list) : i # k => list[i] # s
        BY <1>1, <1>2 DEF Distinct
    <2>2. Existing' \subseteq Existing \ {s}
        BY <1>1, <1>5, <2>1 DEF Existing, ToSet
    <2>3. ASSUME NEW i \in 1..Len(list), i # k
          PROVE  list[i] \in Existing'
        <3>1. CASE i < k
            BY <1>1, <1>5, <3>1 DEF Existing, ToSet
        <3>2. CASE i > k
            <4>1. i - 1 \in k..Len(list) - 1 /\ list'[i - 1] = list[i] /\ i - 1 \in DOMAIN list'
                BY <1>1, <1>5, <3>2
            <4>2. QED
                BY <4>1 DEF Existing, ToSet
        <3>3. QED
            BY <2>3, <3>1, <3>2
    <2>4. Existing \ {s} \subseteq Existing'
        BY <1>1, <1>2, <2>3 DEF Existing, ToSet
    <2>5. QED
        BY <2>2, <2>4
<1>8. QED
    BY <1>5, <1>6, <1>7 DEF Drop

-----------------------------------------------------------------------------
(* Claims and calls while the list changes *)

\* Nothing of call d changes.
Stays(d) ==
    /\ pc'[d] = pc[d] /\ result'[d] = result[d] /\ page'[d] = page[d] /\ resp'[d] = resp[d]
    /\ req'[d] = req[d] /\ expired'[d] = expired[d]

\* A step that changes only what the handlers know of themselves.
LeavesRest == UNCHANGED <<req, expired, coVars, stable>>

\* The snapshots of one claim, and the claims that await one, are finite.
LEMMA OutstandingFinite ==
    ASSUME TypeOK
    PROVE  /\ IsFiniteSet(Outstanding) /\ Cardinality(Outstanding) \in Nat
           /\ Cardinality(Outstanding) <= Cardinality(Names) /\ Cardinality(Names) \in Nat
<1>1. Outstanding \in SUBSET Names
    BY DEF Outstanding
<1>2. QED
    BY <1>1, SnapshotsAssumption, FS_Subset, FS_CardinalityType

\* A snapshot made for someone else, or for a claim that awaits one and has none,
\* disturbs no claim.
LEMMA AddKeepsClaims ==
    ASSUME Inv, NEW n \in Names \union {Other}, nextId <= MaxId, Add(n), UNCHANGED coVars,
           n \in Names => Named(n) = {} /\ phase[n] = "creating",
           nextId + 1 + Cardinality(Outstanding') <= MaxId + 1
    PROVE  /\ list' \in Seq(SnapshotType) /\ nextId' \in 1..MaxId + 1
           /\ Existing' = Existing \union {[id |-> nextId, name |-> n]}
           /\ Distinct' /\ IdsSuffice' /\ \A m \in Names : ClaimInv(m)'
           /\ \A m \in Names : m # n => Named(m)' = Named(m)
           /\ \A m, k : k \in Nat /\ m # n /\ NotBefore(m, k) => NotBefore(m, k)'
<1>1. TypeOK /\ Distinct /\ IdsSuffice
    BY DEF Inv
<1>2. /\ list' \in Seq(SnapshotType) /\ nextId' = nextId + 1
      /\ Existing' = Existing \union {[id |-> nextId, name |-> n]}
      /\ Distinct'
      /\ \A m, k : k \in Nat /\ m # n /\ NotBefore(m, k) => NotBefore(m, k)'
    BY <1>1, AddToList
<1>3. nextId \in Nat /\ nextId >= 1 /\ MaxId \in Nat
    BY <1>1, SnapshotsAssumption DEF TypeOK
<1>4. \A s \in Existing : s.id \in Nat /\ s.id < nextId
    BY <1>1, EntriesExist DEF IdsSuffice, SnapshotType, Ids
<1>5. IdsSuffice'
    BY <1>2, <1>3, <1>4 DEF IdsSuffice
<1>6. \A m \in Names : m # n => Named(m)' = Named(m)
    BY <1>2 DEF Named
<1>7. ASSUME NEW m \in Names
      PROVE  ClaimInv(m)'
    <2>1. ClaimInv(m) /\ UNCHANGED <<phase, bound>> /\ bound[m] \in Nat
        BY <1>1 DEF Inv, coVars, TypeOK, Ids
    <2>2. bound'[m] < nextId' /\ \A s \in Existing' : s.id = bound'[m] => s.name = m
        BY <1>2, <1>3, <2>1 DEF ClaimInv
    <2>3. CASE m # n
        BY <1>6, <2>1, <2>2, <2>3 DEF ClaimInv
    <2>4. CASE m = n
        BY <2>1, <2>2, <2>4 DEF ClaimInv
    <2>5. QED
        BY <2>3, <2>4
<1>8. QED
    BY <1>2, <1>3, <1>5, <1>6, <1>7

\* Nor does it disturb a call for another claim.
LEMMA AddKeepsCalls ==
    ASSUME Inv, NEW n \in Names \union {Other}, UNCHANGED <<coVars, shrunk>>,
           n \in Names => phase[n] = "creating",
           Existing' = Existing \union {[id |-> nextId, name |-> n]},
           \A m \in Names : m # n => Named(m)' = Named(m),
           \A m, k : k \in Nat /\ m # n /\ NotBefore(m, k) => NotBefore(m, k)',
           NEW d \in Calls, Stays(d), Waiting(d) => req[d].name # n
    PROVE  Consistent(d)' /\ CallInv(d)' /\ SearchInv(d)'
<1>1. Consistent(d) /\ CallInv(d) /\ SearchInv(d) /\ page[d] \in Nat /\ UNCHANGED <<phase, bound>>
    BY DEF Inv, TypeOK, coVars
<1>2. Consistent(d)'
    BY <1>1 DEF Consistent, Stays
<1>3. CASE ~Waiting(d)
    BY <1>2, <1>3 DEF CallInv, SearchInv, Stays
<1>4. CASE Waiting(d)
    <2>1. req[d] \in Requests /\ req[d].name \in Names /\ req[d].name # n
        BY <1>1, <1>4 DEF Consistent, Requests
    <2>2. Named(req[d].name)' = Named(req[d].name)
        BY <2>1 DEF Stays, Named
    <2>3. CallInv(d)'
        BY <1>1, <1>4, <2>1, <2>2 DEF CallInv, Stays, Named
    <2>4. ASSUME pc[d] = "ListSnapshots", d \notin shrunk
          PROVE  NotBefore(req[d].name, (page[d] - 1) * PerPage)'
        <3>1. page[d] - 1 \in Nat /\ PerPage \in Nat
            BY <1>1, <2>4, SnapshotsAssumption DEF Consistent
        <3>2. (page[d] - 1) * PerPage \in Nat
            BY <3>1
        <3>3. NotBefore(req[d].name, (page[d] - 1) * PerPage)
            BY <1>1, <1>4, <2>4 DEF SearchInv, NotBefore
        <3>4. \A k : k \in Nat /\ NotBefore(req[d].name, k) => NotBefore(req[d].name, k)'
            BY <2>1 DEF Stays, NotBefore
        <3>5. QED
            BY <3>2, <3>3, <3>4 DEF NotBefore, Stays
    <2>5. SearchInv(d)'
        BY <1>1, <1>4, <2>2, <2>4 DEF SearchInv, Stays, NotBefore
    <2>6. QED
        BY <1>2, <2>3, <2>5
<1>5. QED
    BY <1>3, <1>4

\* The deletion of someone else's snapshot, or of the one of a claim that is
\* being deleted, disturbs no claim.
LEMMA DropKeepsClaims ==
    ASSUME Inv, NEW s \in Existing, Drop(s), UNCHANGED coVars,
           s.name \in Names => phase[s.name] = "deleting"
    PROVE  /\ list' \in Seq(SnapshotType) /\ nextId' \in 1..MaxId + 1
           /\ Existing' = Existing \ {s} /\ shrunk' \in SUBSET Calls
           /\ Distinct' /\ IdsSuffice' /\ \A m \in Names : ClaimInv(m)'
<1>1. TypeOK /\ Distinct /\ IdsSuffice /\ UNCHANGED <<phase, bound>>
    BY DEF Inv, coVars
<1>2. /\ list' \in Seq(SnapshotType) /\ nextId' = nextId
      /\ Existing' = Existing \ {s} /\ Distinct'
      /\ shrunk' = shrunk \union {c \in Calls : Active(c)}
    BY <1>1, DropFromList
<1>3. Outstanding' = Outstanding
    BY <1>1, <1>2 DEF Outstanding, Named
<1>4. IdsSuffice'
    BY <1>1, <1>2, <1>3 DEF IdsSuffice
<1>5. ASSUME NEW m \in Names
      PROVE  ClaimInv(m)'
    <2>1. ClaimInv(m)
        BY DEF Inv
    <2>2. Named(m)' \subseteq Named(m) /\ (m # s.name => Named(m)' = Named(m))
        BY <1>2 DEF Named
    <2>3. CASE m # s.name
        BY <1>1, <1>2, <2>1, <2>2, <2>3 DEF ClaimInv
    <2>4. CASE m = s.name
        BY <1>1, <1>2, <2>1, <2>2, <2>4 DEF ClaimInv
    <2>5. QED
        BY <2>3, <2>4
<1>6. QED
    BY <1>1, <1>2, <1>4, <1>5 DEF TypeOK

\* Every search under way is disturbed by it, and no other call.
LEMMA DropKeepsCalls ==
    ASSUME Inv, NEW s \in Existing, Drop(s), UNCHANGED coVars,
           s.name \in Names => phase[s.name] = "deleting",
           Existing' = Existing \ {s}, NEW d \in Calls, Stays(d)
    PROVE  Consistent(d)' /\ CallInv(d)' /\ SearchInv(d)'
<1>1. Consistent(d) /\ CallInv(d) /\ UNCHANGED <<phase, bound>>
    BY DEF Inv, coVars
<1>2. Consistent(d)'
    BY <1>1 DEF Consistent, Stays
<1>3. SearchInv(d)'
    BY DEF SearchInv, Stays, Drop
<1>4. CASE ~Waiting(d)
    BY <1>2, <1>3, <1>4 DEF CallInv, Stays
<1>5. CASE Waiting(d)
    <2>1. req[d] \in Requests /\ req[d].name \in Names
        BY <1>1, <1>5 DEF Consistent, Requests
    <2>2. Named(req[d].name)' \subseteq Named(req[d].name)
        BY DEF Stays, Named
    <2>3. ASSUME req[d].op = "create", result[d] = "OK"
          PROVE  [id |-> resp[d], name |-> req[d].name] \in Existing'
        <3>1. /\ phase[req[d].name] = "creating"
              /\ [id |-> resp[d], name |-> req[d].name] \in Existing
            BY <1>1, <1>5, <2>3 DEF CallInv
        <3>2. s # [id |-> resp[d], name |-> req[d].name]
            BY <2>1, <3>1
        <3>3. QED
            BY <3>1, <3>2
    <2>4. CallInv(d)'
        BY <1>1, <1>5, <2>2, <2>3 DEF CallInv, Stays
    <2>5. QED
        BY <1>2, <1>3, <2>4
<1>6. QED
    BY <1>4, <1>5

-----------------------------------------------------------------------------
(* Steps of a handler *)

\* A handler answers, or goes on.
LEMMA AnswerStep ==
    ASSUME TypeOK, NEW c \in Calls, NEW code \in Codes, NEW id \in Ids \union {0},
           Answer(c, code, id)
    PROVE  /\ pc' \in [Calls -> ApiSteps \union {"idle", "done"}]
           /\ result' \in [Calls -> Codes \union {"none"}]
           /\ resp' \in [Calls -> Ids \union {0}]
           /\ pc'[c] = "done" /\ result'[c] = code /\ resp'[c] = id
           /\ \A d \in Calls \ {c} : pc'[d] = pc[d] /\ result'[d] = result[d] /\ resp'[d] = resp[d]
BY DEF Answer, TypeOK

LEMMA GotoStep ==
    ASSUME TypeOK, NEW c \in Calls, NEW label \in ApiSteps, Goto(c, label)
    PROVE  /\ pc' \in [Calls -> ApiSteps \union {"idle", "done"}]
           /\ result' \in [Calls -> Codes \union {"none"}]
           /\ resp' \in [Calls -> Ids \union {0}]
           /\ pc'[c] = label /\ result'[c] = result[c] /\ resp'[c] = resp[c]
           /\ \A d \in Calls \ {c} : pc'[d] = pc[d] /\ result'[d] = result[d] /\ resp'[d] = resp[d]
BY DEF Goto, TypeOK

\* While a handler moves, the same calls are waited for.
LEMMA SameWaiting ==
    ASSUME Inv, NEW c \in Calls, pc[c] # "idle", pc'[c] # "idle",
           \A d \in Calls \ {c} : pc'[d] = pc[d], UNCHANGED <<req, expired>>
    PROVE  OneCallPerClaim'
BY DEF Inv, OneCallPerClaim

\* A step of one handler that leaves the list alone.
LEMMA HandlerMoves ==
    ASSUME Inv, TypeOK', NEW c \in Calls, pc[c] # "idle", pc'[c] # "idle",
           LeavesRest, UNCHANGED <<apiVars, shrunk>>,
           \A d \in Calls \ {c} :
                pc'[d] = pc[d] /\ result'[d] = result[d] /\ page'[d] = page[d] /\ resp'[d] = resp[d],
           Consistent(c)', CallInv(c)', SearchInv(c)'
    PROVE  Inv'
<1>1. UNCHANGED <<req, expired, phase, bound, list, nextId, shrunk>>
    BY DEF LeavesRest, coVars, apiVars
<1>2. OneCallPerClaim'
    BY <1>1, SameWaiting
<1>3. Existing' = Existing /\ \A n : Named(n)' = Named(n)
    BY <1>1 DEF Existing, Named
<1>4. Distinct' /\ IdsSuffice'
    BY <1>1, <1>3 DEF Inv, Distinct, IdsSuffice, Outstanding
<1>5. \A n \in Names : ClaimInv(n)'
    BY <1>1, <1>3 DEF Inv, ClaimInv
<1>6. ASSUME NEW d \in Calls, d # c
      PROVE  Consistent(d)' /\ CallInv(d)' /\ SearchInv(d)'
    <2>1. Consistent(d) /\ CallInv(d) /\ SearchInv(d)
        BY DEF Inv
    <2>2. Stays(d)
        BY <1>1, <1>6 DEF Stays
    <2>3. QED
        BY <1>1, <1>3, <2>1, <2>2 DEF Stays, Consistent, CallInv, SearchInv
<1>7. QED
    BY <1>2, <1>4, <1>5, <1>6 DEF Inv

\* A handler that answers with an error tells its caller nothing.
LEMMA ErrorAnswer ==
    ASSUME Inv, NEW c \in Calls, pc[c] # "idle", NEW code \in Codes \ {"OK", "AlreadyExists"},
           Return(c, code), LeavesRest, UNCHANGED <<apiVars, shrunk, page>>
    PROVE  Inv'
<1>1. TypeOK /\ Consistent(c) /\ CallInv(c)
    BY DEF Inv
<1>2. code \in Codes /\ Answer(c, code, 0) /\ code # "OK" /\ code # "AlreadyExists"
    BY DEF Return
<1>3. /\ pc' \in [Calls -> ApiSteps \union {"idle", "done"}]
      /\ result' \in [Calls -> Codes \union {"none"}]
      /\ resp' \in [Calls -> Ids \union {0}]
      /\ pc'[c] = "done" /\ result'[c] = code /\ resp'[c] = 0
      /\ \A d \in Calls \ {c} : pc'[d] = pc[d] /\ result'[d] = result[d] /\ resp'[d] = resp[d]
    BY <1>1, <1>2, AnswerStep
<1>4. TypeOK'
    BY <1>1, <1>3 DEF TypeOK, LeavesRest, apiVars, coVars
<1>5. Consistent(c)' /\ CallInv(c)' /\ SearchInv(c)'
    BY <1>1, <1>2, <1>3 DEF Consistent, CallInv, SearchInv, ApiSteps, LeavesRest, coVars
<1>6. QED
    BY <1>3, <1>4, <1>5, HandlerMoves

LEMMA ApiErrorKeeps ==
    ASSUME Inv, NEW c \in Calls, ApiError(c)
    PROVE  Inv'
<1>1. /\ pc[c] # "idle" /\ LeavesRest /\ UNCHANGED <<apiVars, shrunk, page>>
      /\ Return(c, ErrorCode(pc[c])) \/ Return(c, "Unknown")
    BY DEF ApiError, ApiSteps, LeavesRest
<1>2. ErrorCode(pc[c]) \in Codes \ {"OK", "AlreadyExists"}
    BY DEF ErrorCode, Codes
<1>3. "Unknown" \in Codes \ {"OK", "AlreadyExists"}
    BY DEF Codes
<1>4. QED
    BY <1>1, <1>2, <1>3, ErrorAnswer

LEMMA GetSnapshotKeeps ==
    ASSUME Inv, NEW c \in Calls, GetSnapshot(c)
    PROVE  Inv'
<1>1. TypeOK /\ Consistent(c) /\ CallInv(c) /\ pc[c] = "GetSnapshot" /\ ~expired[c]
    BY DEF Inv, GetSnapshot, At
<1>2. /\ req[c].op = "list" /\ req[c].name \in Names /\ req[c].id \in Ids /\ "OK" \in Codes
      /\ phase[req[c].name] = "ready" /\ req[c].id = bound[req[c].name]
    BY <1>1 DEF Consistent, CallInv, Requests, Codes
<1>3. [id |-> req[c].id, name |-> req[c].name] \in Existing
    BY <1>2 DEF Inv, ClaimInv, Named
<1>4. Answer(c, "OK", req[c].id)
    BY <1>3 DEF GetSnapshot
<1>5. /\ pc' \in [Calls -> ApiSteps \union {"idle", "done"}]
      /\ result' \in [Calls -> Codes \union {"none"}]
      /\ resp' \in [Calls -> Ids \union {0}]
      /\ pc'[c] = "done" /\ result'[c] = "OK" /\ resp'[c] = req[c].id
      /\ \A d \in Calls \ {c} : pc'[d] = pc[d] /\ result'[d] = result[d] /\ resp'[d] = resp[d]
    BY <1>1, <1>2, <1>4, AnswerStep
<1>6. LeavesRest /\ UNCHANGED <<apiVars, shrunk, page>>
    BY DEF GetSnapshot, LeavesRest
<1>7. TypeOK'
    BY <1>1, <1>5, <1>6 DEF TypeOK, LeavesRest, apiVars, coVars
<1>8. Consistent(c)' /\ CallInv(c)' /\ SearchInv(c)'
    BY <1>1, <1>2, <1>5, <1>6 DEF Consistent, CallInv, SearchInv, ApiSteps, LeavesRest, coVars
<1>9. QED
    BY <1>1, <1>5, <1>6, <1>7, <1>8, HandlerMoves

\* A turn of the search finds a snapshot of the claim, or passes none by.
LEMMA ListSnapshotsKeeps ==
    ASSUME Inv, NEW c \in Calls, ListSnapshots(c)
    PROVE  Inv'
<1> DEFINE n == req[c].name
           p == page[c]
           found == {s \in ToSet(Page(p)) : Matches(s, n)}
<1>1. /\ TypeOK /\ Consistent(c) /\ CallInv(c) /\ SearchInv(c)
      /\ pc[c] = "ListSnapshots" /\ ~expired[c] /\ "OK" \in Codes
    BY DEF Inv, ListSnapshots, At, Codes
<1>2. /\ req[c] \in Requests /\ req[c].op = "create" /\ n \in Names /\ phase[n] = "creating"
      /\ p \in Nat /\ p >= 1 /\ result[c] = "none"
    BY <1>1 DEF Consistent, CallInv, Requests, TypeOK, ApiSteps
<1>3. /\ ToSet(Page(p)) \subseteq Existing
      /\ \A i \in 1..Len(list) :
            (p - 1) * PerPage < i /\ i <= p * PerPage => list[i] \in ToSet(Page(p))
    BY <1>1, <1>2, PageIsPart
<1>4. LeavesRest /\ UNCHANGED <<apiVars, shrunk>>
    BY DEF ListSnapshots, LeavesRest
<1>5. /\ Len(list) \in Nat /\ DOMAIN list = 1..Len(list) /\ PerPage \in Nat \ {0}
      /\ p * PerPage \in Nat /\ (p - 1) * PerPage \in Nat
    BY <1>1, <1>2, SnapshotsAssumption DEF TypeOK
<1>6. ASSUME found = {}, c \notin shrunk
      PROVE  NotBefore(n, p * PerPage)
    <2>1. NotBefore(n, (p - 1) * PerPage)
        BY <1>1, <1>6 DEF SearchInv, NotBefore
    <2>2. \A i \in 1..Len(list) : list[i] \in ToSet(Page(p)) => list[i].name # n
        BY <1>6 DEF Matches
    <2>3. QED
        BY <1>3, <1>5, <2>1, <2>2 DEF NotBefore
<1>7. \/ (\E s \in found : Answer(c, "OK", s.id)) /\ UNCHANGED page
      \/ found = {} /\ Searched(p) /\ Goto(c, "CreateSnapshot") /\ UNCHANGED page
      \/ /\ found = {}
         /\ page' = [page EXCEPT ![c] = NextPage(@)]
         /\ UNCHANGED <<pc, result, resp>>
    BY DEF ListSnapshots
<1>8. CASE (\E s \in found : Answer(c, "OK", s.id)) /\ UNCHANGED page
    <2>1. PICK s \in found : Answer(c, "OK", s.id)
        BY <1>8
    <2>2. s \in Existing /\ s \in SnapshotType /\ s.name = n
        BY <1>1, <1>3, EntriesExist DEF Matches
    <2>3. s.id \in Ids \union {0} /\ s = [id |-> s.id, name |-> n]
        BY <2>2 DEF SnapshotType
    <2>4. /\ pc' \in [Calls -> ApiSteps \union {"idle", "done"}]
          /\ result' \in [Calls -> Codes \union {"none"}]
          /\ resp' \in [Calls -> Ids \union {0}]
          /\ pc'[c] = "done" /\ result'[c] = "OK" /\ resp'[c] = s.id
          /\ \A d \in Calls \ {c} : pc'[d] = pc[d] /\ result'[d] = result[d] /\ resp'[d] = resp[d]
        BY <1>1, <2>1, <2>3, AnswerStep
    <2>5. TypeOK'
        BY <1>1, <1>4, <1>8, <2>4 DEF TypeOK, LeavesRest, apiVars, coVars
    <2>6. [id |-> resp'[c], name |-> req'[c].name] \in Existing'
        BY <1>4, <2>2, <2>3, <2>4 DEF LeavesRest, apiVars, Existing
    <2>7. Consistent(c)' /\ CallInv(c)' /\ SearchInv(c)'
        BY <1>1, <1>2, <1>4, <2>4, <2>6
           DEF Consistent, CallInv, SearchInv, ApiSteps, LeavesRest, coVars
    <2>8. QED
        BY <1>1, <1>4, <1>8, <2>4, <2>5, <2>7, HandlerMoves
<1>9. CASE found = {} /\ Searched(p) /\ Goto(c, "CreateSnapshot") /\ UNCHANGED page
    <2>1. /\ pc' \in [Calls -> ApiSteps \union {"idle", "done"}]
          /\ result' \in [Calls -> Codes \union {"none"}]
          /\ resp' \in [Calls -> Ids \union {0}]
          /\ pc'[c] = "CreateSnapshot" /\ result'[c] = result[c] /\ resp'[c] = resp[c]
          /\ \A d \in Calls \ {c} : pc'[d] = pc[d] /\ result'[d] = result[d] /\ resp'[d] = resp[d]
        BY <1>1, <1>9, GotoStep DEF ApiSteps
    <2>2. TypeOK'
        BY <1>1, <1>4, <1>9, <2>1 DEF TypeOK, LeavesRest, apiVars, coVars
    <2>3. ASSUME c \notin shrunk
          PROVE  Named(n)' = {}
        <3>1. NotBefore(n, p * PerPage) /\ p * PerPage >= Len(list)
            BY <1>6, <1>9, <2>3 DEF Searched, IsLastPage
        <3>2. \A i \in 1..Len(list) : list[i].name # n
            BY <1>5, <3>1 DEF NotBefore
        <3>3. Named(n) = {}
            BY <1>1, <3>2, EntriesExist DEF Named
        <3>4. QED
            BY <1>4, <3>3 DEF Named, Existing, LeavesRest, apiVars
    <2>4. Consistent(c)' /\ CallInv(c)' /\ SearchInv(c)'
        BY <1>1, <1>2, <1>4, <2>1, <2>3
           DEF Consistent, CallInv, SearchInv, ApiSteps, LeavesRest, coVars, Named
    <2>5. QED
        BY <1>1, <1>4, <1>9, <2>1, <2>2, <2>4, HandlerMoves
<1>10. CASE /\ found = {}
            /\ page' = [page EXCEPT ![c] = NextPage(@)]
            /\ UNCHANGED <<pc, result, resp>>
    <2>1. page' \in [Calls -> Nat] /\ page'[c] = p + 1 /\ \A d \in Calls \ {c} : page'[d] = page[d]
        BY <1>1, <1>2, <1>10 DEF TypeOK, NextPage
    <2>2. TypeOK'
        BY <1>1, <1>4, <1>10, <2>1 DEF TypeOK, LeavesRest, apiVars, coVars
    <2>3. (page'[c] - 1) * PerPage = p * PerPage
        BY <1>2, <1>5, <2>1
    <2>4. ASSUME c \notin shrunk
          PROVE  NotBefore(n, (page'[c] - 1) * PerPage)
        BY <1>6, <1>10, <2>3, <2>4
    <2>5. SearchInv(c)'
        BY <1>1, <1>2, <1>4, <1>10, <2>4 DEF SearchInv, NotBefore, LeavesRest, apiVars
    <2>6. Consistent(c)' /\ CallInv(c)'
        BY <1>1, <1>2, <1>4, <1>10, <2>1 DEF Consistent, CallInv, LeavesRest, coVars
    <2>7. QED
        BY <1>1, <1>4, <1>10, <2>1, <2>2, <2>5, <2>6, HandlerMoves
<1>11. QED
    BY <1>7, <1>8, <1>9, <1>10

\* The API makes a snapshot of a name at most once, and an undisturbed search
\* that ended has not missed one.
LEMMA CreateSnapshotKeeps ==
    ASSUME Inv, NEW c \in Calls, CreateSnapshot(c)
    PROVE  Inv'
<1> DEFINE n == req[c].name
<1>1. /\ TypeOK /\ Consistent(c) /\ CallInv(c) /\ SearchInv(c)
      /\ pc[c] = "CreateSnapshot" /\ ~expired[c]
      /\ "OK" \in Codes /\ "Internal" \in Codes /\ "AlreadyExists" \in Codes
    BY DEF Inv, CreateSnapshot, At, Codes
<1>2. /\ req[c] \in Requests /\ req[c].op = "create" /\ n \in Names /\ phase[n] = "creating"
    BY <1>1 DEF Consistent, CallInv, Requests
<1>3. LeavesRest /\ UNCHANGED <<shrunk, page>>
    BY DEF CreateSnapshot, LeavesRest
<1>4. CASE Named(n) # {} /\ Return(c, "AlreadyExists") /\ UNCHANGED apiVars
    <2>1. /\ pc' \in [Calls -> ApiSteps \union {"idle", "done"}]
          /\ result' \in [Calls -> Codes \union {"none"}]
          /\ resp' \in [Calls -> Ids \union {0}]
          /\ pc'[c] = "done" /\ result'[c] = "AlreadyExists" /\ resp'[c] = 0
          /\ \A d \in Calls \ {c} : pc'[d] = pc[d] /\ result'[d] = result[d] /\ resp'[d] = resp[d]
        BY <1>1, <1>4, AnswerStep DEF Return
    <2>2. TypeOK'
        BY <1>1, <1>3, <1>4, <2>1 DEF TypeOK, LeavesRest, apiVars, coVars
    <2>3. c \in shrunk
        BY <1>1, <1>4 DEF SearchInv
    <2>4. Consistent(c)' /\ CallInv(c)' /\ SearchInv(c)'
        BY <1>1, <1>2, <1>3, <2>1, <2>3
           DEF Consistent, CallInv, SearchInv, ApiSteps, LeavesRest, coVars
    <2>5. QED
        BY <1>1, <1>3, <1>4, <2>1, <2>2, <2>4, HandlerMoves
<1>5. CASE /\ Named(n) = {} /\ Add(n)
           /\ Answer(c, "OK", nextId) \/ Return(c, "Internal")
    <2>1. n \in Outstanding /\ nextId \in Nat /\ nextId >= 1 /\ MaxId \in Nat
        BY <1>1, <1>2, <1>5, SnapshotsAssumption DEF Outstanding, TypeOK
    <2>2. /\ Cardinality(Outstanding) \in Nat /\ IsFiniteSet(Outstanding)
          /\ IsFiniteSet(Outstanding \ {n})
          /\ Cardinality(Outstanding \ {n}) = Cardinality(Outstanding) - 1
        BY <1>1, <2>1, OutstandingFinite, FS_RemoveElement
    <2>3. Cardinality(Outstanding) >= 1
        BY <2>1, <2>2, FS_CardinalityType, FS_EmptySet
    <2>4. nextId <= MaxId /\ nextId + Cardinality(Outstanding) <= MaxId + 1
        BY <2>1, <2>2, <2>3 DEF Inv, IdsSuffice
    <2>5. UNCHANGED coVars /\ UNCHANGED <<phase, bound>>
        BY <1>3 DEF LeavesRest, coVars
    <2>6. Existing' = Existing \union {[id |-> nextId, name |-> n]}
        BY <1>1, <1>2, <1>5, <2>4, AddToList DEF Inv
    <2>7. Outstanding' \in SUBSET (Outstanding \ {n})
        <3>1. ASSUME NEW m \in Outstanding'
              PROVE  m \in Outstanding /\ m # n
            <4>1. m \in Names /\ phase[m] \in {"absent", "creating"} /\ \A s \in Existing' : s.name # m
                BY <2>5 DEF Outstanding, Named
            <4>2. m # n
                <5>1. [id |-> nextId, name |-> n] \in Existing' /\ [id |-> nextId, name |-> n].name = n
                    BY <2>6
                <5>2. QED
                    BY <4>1, <5>1
            <4>3. QED
                BY <2>6, <4>1, <4>2 DEF Outstanding, Named
        <3>2. QED
            BY <3>1
    <2>8. /\ Cardinality(Outstanding') <= Cardinality(Outstanding \ {n})
          /\ Cardinality(Outstanding') \in Nat
        BY <2>2, <2>7, FS_Subset, FS_CardinalityType
    <2>9. nextId + 1 + Cardinality(Outstanding') <= MaxId + 1
        BY <2>1, <2>2, <2>4, <2>8
    <2>10. /\ list' \in Seq(SnapshotType) /\ nextId' \in 1..MaxId + 1
           /\ Distinct' /\ IdsSuffice' /\ \A m \in Names : ClaimInv(m)'
           /\ \A m \in Names : m # n => Named(m)' = Named(m)
           /\ \A m, k : k \in Nat /\ m # n /\ NotBefore(m, k) => NotBefore(m, k)'
        BY <1>2, <1>5, <2>4, <2>5, <2>9, AddKeepsClaims
    <2>11. nextId \in Ids \union {0} /\ 0 \in Ids \union {0}
        BY <2>1, <2>4 DEF Ids
    <2>12. /\ pc' \in [Calls -> ApiSteps \union {"idle", "done"}]
           /\ result' \in [Calls -> Codes \union {"none"}]
           /\ resp' \in [Calls -> Ids \union {0}]
           /\ pc'[c] = "done"
           /\ (result'[c] = "OK" /\ resp'[c] = nextId) \/ result'[c] = "Internal"
           /\ \A d \in Calls \ {c} : pc'[d] = pc[d] /\ result'[d] = result[d] /\ resp'[d] = resp[d]
        BY <1>1, <1>5, <2>11, AnswerStep DEF Return
    <2>13. TypeOK'
        BY <1>1, <1>3, <2>10, <2>12 DEF TypeOK, LeavesRest, coVars
    <2>14. Consistent(c)' /\ CallInv(c)' /\ SearchInv(c)'
        <3>1. result'[c] = "OK" => [id |-> resp'[c], name |-> n] \in Existing'
            BY <2>6, <2>12
        <3>2. QED
            BY <1>1, <1>2, <1>3, <2>5, <2>12, <3>1
               DEF Consistent, CallInv, SearchInv, ApiSteps, LeavesRest
    <2>15. ASSUME NEW d \in Calls, d # c
           PROVE  Consistent(d)' /\ CallInv(d)' /\ SearchInv(d)'
        <3>1. Stays(d)
            BY <1>3, <2>12, <2>15 DEF Stays, LeavesRest
        <3>2. Waiting(d) => req[d].name # n
            BY <1>1, <2>15 DEF Inv, OneCallPerClaim
        <3>3. QED
            BY <1>2, <1>3, <2>5, <2>6, <2>10, <3>1, <3>2, AddKeepsCalls
    <2>16. OneCallPerClaim'
        BY <1>1, <1>3, <2>12, SameWaiting DEF LeavesRest
    <2>17. QED
        BY <2>10, <2>13, <2>14, <2>15, <2>16 DEF Inv
<1>6. QED
    BY <1>4, <1>5 DEF CreateSnapshot

\* DeleteSnapshot removes the snapshot of the claim and no other.
LEMMA DeleteSnapshotKeeps ==
    ASSUME Inv, NEW c \in Calls, DeleteSnapshot(c)
    PROVE  Inv'
<1> DEFINE n == req[c].name
<1>1. /\ TypeOK /\ Consistent(c) /\ CallInv(c)
      /\ pc[c] = "DeleteSnapshot" /\ ~expired[c]
      /\ "OK" \in Codes /\ "Unknown" \in Codes
    BY DEF Inv, DeleteSnapshot, At, Codes
<1>2. /\ req[c] \in Requests /\ req[c].op = "delete" /\ n \in Names /\ phase[n] = "deleting"
      /\ req[c].id = bound[n] /\ ClaimInv(n)
    BY <1>1 DEF Consistent, CallInv, Requests, Inv
<1>3. LeavesRest /\ UNCHANGED page
    BY DEF DeleteSnapshot, LeavesRest
<1>4. UNCHANGED coVars /\ UNCHANGED <<phase, bound>>
    BY <1>3 DEF LeavesRest, coVars
<1>5. Named(n) \subseteq {[id |-> req[c].id, name |-> n]}
    BY <1>2 DEF ClaimInv
<1>6. \E code \in {"OK", "Unknown"} : Answer(c, code, 0)
    BY DEF DeleteSnapshot, Return
<1>7. /\ pc' \in [Calls -> ApiSteps \union {"idle", "done"}]
      /\ result' \in [Calls -> Codes \union {"none"}]
      /\ resp' \in [Calls -> Ids \union {0}]
      /\ pc'[c] = "done" /\ result'[c] \in {"OK", "Unknown"}
      /\ \A d \in Calls \ {c} : pc'[d] = pc[d] /\ result'[d] = result[d] /\ resp'[d] = resp[d]
    BY <1>1, <1>6, AnswerStep
<1>8. ASSUME Named(n)' = {}
      PROVE  Consistent(c)' /\ CallInv(c)' /\ SearchInv(c)'
    BY <1>1, <1>2, <1>3, <1>4, <1>7, <1>8
       DEF Consistent, CallInv, SearchInv, ApiSteps, LeavesRest
<1>9. CASE (\A s \in Existing : s.id # req[c].id) /\ UNCHANGED <<apiVars, shrunk>>
    <2>1. Named(n) = {}
        BY <1>5, <1>9 DEF Named
    <2>2. Named(n)' = {}
        BY <1>3, <1>9, <2>1 DEF Named, Existing, apiVars, LeavesRest
    <2>3. TypeOK'
        BY <1>1, <1>3, <1>7, <1>9 DEF TypeOK, LeavesRest, apiVars, coVars
    <2>4. QED
        BY <1>1, <1>3, <1>7, <1>8, <1>9, <2>2, <2>3, HandlerMoves
<1>10. CASE \E s \in Existing : s.id = req[c].id /\ Drop(s)
    <2>1. PICK s \in Existing : s.id = req[c].id /\ Drop(s)
        BY <1>10
    <2>2. s.name = n
        BY <1>2, <2>1 DEF ClaimInv
    <2>3. s \in SnapshotType /\ s = [id |-> req[c].id, name |-> n]
        BY <1>1, <2>1, <2>2, EntriesExist DEF SnapshotType
    <2>4. /\ list' \in Seq(SnapshotType) /\ nextId' \in 1..MaxId + 1
          /\ Existing' = Existing \ {s} /\ shrunk' \in SUBSET Calls
          /\ Distinct' /\ IdsSuffice' /\ \A m \in Names : ClaimInv(m)'
        BY <1>2, <1>4, <2>1, <2>2, DropKeepsClaims
    <2>5. Named(n)' = {}
        BY <1>3, <1>5, <2>3, <2>4 DEF Named, LeavesRest
    <2>6. TypeOK'
        BY <1>1, <1>3, <1>7, <2>4 DEF TypeOK, LeavesRest, coVars
    <2>7. ASSUME NEW d \in Calls, d # c
          PROVE  Consistent(d)' /\ CallInv(d)' /\ SearchInv(d)'
        <3>1. Stays(d)
            BY <1>3, <1>7, <2>7 DEF Stays, LeavesRest
        <3>2. QED
            BY <1>2, <1>4, <2>1, <2>2, <2>4, <3>1, DropKeepsCalls
    <2>8. OneCallPerClaim'
        BY <1>1, <1>3, <1>7, SameWaiting DEF LeavesRest
    <2>9. QED
        BY <1>8, <2>4, <2>5, <2>6, <2>7, <2>8 DEF Inv
<1>11. QED
    BY <1>9, <1>10 DEF DeleteSnapshot

-----------------------------------------------------------------------------
(* Steps of the environment *)

\* The list and what is believed of the claims stay as they are.
LEMMA ClaimsStay ==
    ASSUME Inv, UNCHANGED <<list, nextId, phase, bound>>
    PROVE  /\ Distinct' /\ IdsSuffice' /\ \A n \in Names : ClaimInv(n)'
           /\ Existing' = Existing /\ \A n : Named(n)' = Named(n)
<1>1. Existing' = Existing /\ \A n : Named(n)' = Named(n)
    BY DEF Existing, Named
<1>2. Distinct' /\ IdsSuffice' /\ \A n \in Names : ClaimInv(n)'
    BY <1>1 DEF Inv, Distinct, IdsSuffice, Outstanding, ClaimInv
<1>3. QED
    BY <1>1, <1>2

LEMMA ExpireKeeps ==
    ASSUME Inv, NEW c \in Calls, Expire(c)
    PROVE  Inv'
<1>1. /\ UNCHANGED <<list, nextId, phase, bound, pc, req, result, page, resp, shrunk, stable>>
      /\ TypeOK /\ pc[c] # "idle"
    BY DEF Expire, apiVars, coVars, Inv
<1>2. /\ expired' \in [Calls -> BOOLEAN] /\ expired'[c] = TRUE
      /\ \A d \in Calls \ {c} : expired'[d] = expired[d]
    BY <1>1 DEF Expire, TypeOK
<1>3. TypeOK'
    BY <1>1, <1>2 DEF TypeOK
<1>4. /\ Distinct' /\ IdsSuffice' /\ \A n \in Names : ClaimInv(n)'
      /\ Existing' = Existing /\ \A n : Named(n)' = Named(n)
    BY <1>1, ClaimsStay
<1>5. OneCallPerClaim'
    BY <1>1, <1>2 DEF Inv, OneCallPerClaim
<1>6. ASSUME NEW d \in Calls
      PROVE  Consistent(d)' /\ CallInv(d)' /\ SearchInv(d)'
    <2>1. Consistent(d) /\ CallInv(d) /\ SearchInv(d)
        BY DEF Inv
    <2>2. CASE d = c
        BY <1>1, <1>2, <2>1, <2>2 DEF Consistent, CallInv, SearchInv
    <2>3. CASE d # c
        BY <1>1, <1>2, <1>4, <2>1, <2>3 DEF Consistent, CallInv, SearchInv
    <2>4. QED
        BY <2>2, <2>3
<1>7. QED
    BY <1>3, <1>4, <1>5, <1>6 DEF Inv

LEMMA RestartKeeps ==
    ASSUME Inv, Restart
    PROVE  Inv'
<1>1. UNCHANGED <<list, nextId, phase, bound, req, expired, page, resp, shrunk, stable>> /\ TypeOK
    BY DEF Restart, apiVars, coVars, Inv
<1>2. /\ pc' \in [Calls -> ApiSteps \union {"idle", "done"}]
      /\ result' \in [Calls -> Codes \union {"none"}]
      /\ \A d \in Calls : pc[d] # "idle" => pc'[d] = "done" /\ result'[d] = "Unavailable"
      /\ \A d \in Calls : pc[d] = "idle" => pc'[d] = "idle" /\ result'[d] = "none"
    BY <1>1 DEF Restart, TypeOK, Codes
<1>3. TypeOK'
    BY <1>1, <1>2 DEF TypeOK
<1>4. Distinct' /\ IdsSuffice' /\ \A n \in Names : ClaimInv(n)'
    BY <1>1, ClaimsStay
<1>5. OneCallPerClaim'
    BY <1>1, <1>2 DEF Inv, OneCallPerClaim
<1>6. ASSUME NEW d \in Calls
      PROVE  Consistent(d)' /\ CallInv(d)' /\ SearchInv(d)'
    <2>1. Consistent(d) /\ CallInv(d)
        BY DEF Inv
    <2>2. CASE pc[d] = "idle"
        BY <1>1, <1>2, <2>1, <2>2 DEF Consistent, CallInv, SearchInv, ApiSteps
    <2>3. CASE pc[d] # "idle"
        BY <1>1, <1>2, <2>1, <2>3 DEF Consistent, CallInv, SearchInv, ApiSteps
    <2>4. QED
        BY <2>2, <2>3
<1>7. QED
    BY <1>3, <1>4, <1>5, <1>6 DEF Inv

LEMMA SettleKeeps ==
    ASSUME Inv, Settle \/ UNCHANGED vars
    PROVE  Inv'
<1>1. /\ UNCHANGED <<list, nextId, phase, bound, pc, req, expired, result, page, resp, shrunk>>
      /\ TypeOK /\ stable' \in BOOLEAN
    BY DEF Settle, vars, apiVars, coVars, Inv, TypeOK
<1>2. TypeOK'
    BY <1>1 DEF TypeOK
<1>3. /\ Distinct' /\ IdsSuffice' /\ \A n \in Names : ClaimInv(n)'
      /\ Existing' = Existing /\ \A n : Named(n)' = Named(n)
    BY <1>1, ClaimsStay
<1>4. OneCallPerClaim' /\ \A d \in Calls : Consistent(d)' /\ CallInv(d)' /\ SearchInv(d)'
    BY <1>1, <1>3 DEF Inv, OneCallPerClaim, Consistent, CallInv, SearchInv
<1>5. QED
    BY <1>2, <1>3, <1>4 DEF Inv

LEMMA OtherCreatesKeeps ==
    ASSUME Inv, OtherCreates
    PROVE  Inv'
<1>1. /\ UNCHANGED <<phase, bound, coVars, pc, req, expired, result, page, resp, shrunk, stable>>
      /\ TypeOK /\ Add(Other) /\ Other \notin Names /\ nextId + Cardinality(Names) <= MaxId
      /\ nextId \in Nat /\ MaxId \in Nat
    BY SnapshotsAssumption DEF OtherCreates, coVars, Inv, TypeOK
<1>2. Cardinality(Names) \in Nat /\ nextId <= MaxId
    BY <1>1, SnapshotsAssumption, FS_CardinalityType
<1>3. Outstanding' \in SUBSET Names
    BY DEF Outstanding
<1>4. Cardinality(Outstanding') \in Nat /\ Cardinality(Outstanding') <= Cardinality(Names)
    BY <1>3, SnapshotsAssumption, FS_Subset, FS_CardinalityType
<1>5. nextId + 1 + Cardinality(Outstanding') <= MaxId + 1
    BY <1>1, <1>2, <1>4
<1>6. /\ list' \in Seq(SnapshotType) /\ nextId' \in 1..MaxId + 1
      /\ Existing' = Existing \union {[id |-> nextId, name |-> Other]}
      /\ Distinct' /\ IdsSuffice' /\ \A m \in Names : ClaimInv(m)'
      /\ \A m \in Names : m # Other => Named(m)' = Named(m)
      /\ \A m, k : k \in Nat /\ m # Other /\ NotBefore(m, k) => NotBefore(m, k)'
    BY <1>1, <1>2, <1>5, AddKeepsClaims
<1>7. TypeOK'
    BY <1>1, <1>6 DEF TypeOK
<1>8. OneCallPerClaim'
    BY <1>1 DEF Inv, OneCallPerClaim
<1>9. ASSUME NEW d \in Calls
      PROVE  Consistent(d)' /\ CallInv(d)' /\ SearchInv(d)'
    <2>1. Stays(d)
        BY <1>1 DEF Stays
    <2>2. Waiting(d) => req[d].name # Other
        BY <1>1 DEF Inv, Consistent, Requests
    <2>3. QED
        BY <1>1, <1>6, <2>1, <2>2, AddKeepsCalls
<1>10. QED
    BY <1>6, <1>7, <1>8, <1>9 DEF Inv

LEMMA OtherDeletesKeeps ==
    ASSUME Inv, OtherDeletes
    PROVE  Inv'
<1>1. /\ UNCHANGED <<phase, bound, coVars, pc, req, expired, result, page, resp, stable>>
      /\ TypeOK /\ Other \notin Names
    BY SnapshotsAssumption DEF OtherDeletes, coVars, Inv
<1>2. PICK s \in Existing : s.name = Other /\ Drop(s)
    BY DEF OtherDeletes, Named
<1>3. /\ list' \in Seq(SnapshotType) /\ nextId' \in 1..MaxId + 1
      /\ Existing' = Existing \ {s} /\ shrunk' \in SUBSET Calls
      /\ Distinct' /\ IdsSuffice' /\ \A m \in Names : ClaimInv(m)'
    BY <1>1, <1>2, DropKeepsClaims
<1>4. TypeOK'
    BY <1>1, <1>3 DEF TypeOK
<1>5. OneCallPerClaim'
    BY <1>1 DEF Inv, OneCallPerClaim
<1>6. ASSUME NEW d \in Calls
      PROVE  Consistent(d)' /\ CallInv(d)' /\ SearchInv(d)'
    <2>1. Stays(d)
        BY <1>1 DEF Stays
    <2>2. QED
        BY <1>1, <1>2, <1>3, <2>1, DropKeepsCalls
<1>7. QED
    BY <1>3, <1>4, <1>5, <1>6 DEF Inv

-----------------------------------------------------------------------------
(* Steps of the orchestrator *)

\* Where a call of this kind starts, and in which phase of its claim.
Starts(op, label, ph) ==
    \/ op = "create" /\ label = "ListSnapshots" /\ ph = "creating"
    \/ op = "list" /\ label = "GetSnapshot" /\ ph = "ready"
    \/ op = "delete" /\ label = "DeleteSnapshot" /\ ph = "deleting"

\* A call begins for a claim for which no other is waited for.
LEMMA BeginKeeps ==
    ASSUME Inv, NEW c \in Calls, NEW n \in Names, NEW op, NEW label, NEW ph,
           Begin(c, op, n, label), Starts(op, label, ph), phase' = [phase EXCEPT ![n] = ph],
           ph = "creating" => phase[n] \in {"absent", "creating"},
           ph = "ready" => phase[n] = "ready",
           ph = "deleting" => phase[n] \in {"ready", "deleting"}
    PROVE  Inv'
<1>1. /\ TypeOK /\ Consistent(c) /\ ClaimInv(n)
      /\ UNCHANGED <<list, nextId, expired, bound, stable>>
      /\ pc[c] = "idle" /\ ~expired[c] /\ result[c] = "none" /\ label \in ApiSteps
      /\ shrunk' = shrunk \ {c} /\ "InvalidArgument" \in Codes
    BY DEF Inv, Begin, apiVars, Consistent, Starts, ApiSteps, Codes
<1> DEFINE r == [op |-> op, name |-> n, id |-> bound[n]]
<1>2. r \in Requests
    <2>1. bound[n] \in Ids \union {0} /\ (phase[n] \in {"absent", "creating"} <=> bound[n] = 0)
        BY <1>1 DEF TypeOK, ClaimInv
    <2>2. CASE op = "create"
        BY <2>1, <2>2 DEF Starts, Requests
    <2>3. CASE op \in {"list", "delete"}
        BY <2>1, <2>3 DEF Starts, Requests
    <2>4. QED
        BY <2>2, <2>3 DEF Starts
<1>3. r.op = op /\ r.name = n /\ r.id = bound[n]
    OBVIOUS
<1>4. req' = [req EXCEPT ![c] = r]
    BY DEF Begin
<1> HIDE DEF r
<1>5. /\ req' \in [Calls -> Requests \union {NoRequest}] /\ req'[c] = r
      /\ \A d \in Calls \ {c} : req'[d] = req[d]
    BY <1>1, <1>2, <1>4 DEF TypeOK
<1>6. /\ page' \in [Calls -> Nat] /\ page'[c] = 1
      /\ \A d \in Calls \ {c} : page'[d] = page[d]
    BY <1>1 DEF TypeOK, Begin
<1>7. /\ pc' \in [Calls -> ApiSteps \union {"idle", "done"}]
      /\ result' \in [Calls -> Codes \union {"none"}]
      /\ resp' \in [Calls -> Ids \union {0}]
      /\ \/ pc'[c] = label /\ result'[c] = "none"
         \/ pc'[c] = "done" /\ result'[c] = "InvalidArgument"
      /\ \A d \in Calls \ {c} : pc'[d] = pc[d] /\ result'[d] = result[d] /\ resp'[d] = resp[d]
    BY <1>1, AnswerStep, GotoStep DEF Begin, Return
<1>8. /\ phase' \in [Names -> {"absent", "creating", "ready", "deleting", "deleted"}]
      /\ phase'[n] = ph /\ \A m \in Names \ {n} : phase'[m] = phase[m]
    BY <1>1 DEF TypeOK, Starts
<1>9. TypeOK'
    BY <1>1, <1>5, <1>6, <1>7, <1>8 DEF TypeOK
<1>10. Existing' = Existing /\ \A m : Named(m)' = Named(m)
    BY <1>1 DEF Existing, Named
<1>11. Outstanding' = Outstanding
    BY <1>8, <1>10 DEF Outstanding, Starts
<1>12. Distinct' /\ IdsSuffice'
    BY <1>1, <1>10, <1>11 DEF Inv, Distinct, IdsSuffice
<1>13. ASSUME NEW m \in Names
       PROVE  ClaimInv(m)'
    <2>1. ClaimInv(m)
        BY DEF Inv
    <2>2. CASE m # n
        BY <1>1, <1>8, <1>10, <2>1, <2>2 DEF ClaimInv
    <2>3. CASE m = n
        BY <1>1, <1>8, <1>10, <2>1, <2>3 DEF ClaimInv, Starts
    <2>4. QED
        BY <2>2, <2>3
<1>14. \A d \in Calls \ {c} : Waiting(d) => req[d].name \in Names \ {n}
    BY DEF Begin, Quiet, Inv, Consistent, Requests
<1>15. OneCallPerClaim'
    BY <1>1, <1>3, <1>5, <1>7, <1>14 DEF Inv, OneCallPerClaim
<1>16. Consistent(c)' /\ CallInv(c)'
    BY <1>1, <1>2, <1>3, <1>5, <1>6, <1>7, <1>8 DEF Consistent, CallInv, Starts, ApiSteps
<1>17. SearchInv(c)'
    <2>1. (page'[c] - 1) * PerPage = 0
        BY <1>6, SnapshotsAssumption
    <2>2. \A i \in DOMAIN list' : i > 0
        BY <1>9 DEF TypeOK
    <2>3. pc'[c] # "CreateSnapshot"
        BY <1>7 DEF Starts
    <2>4. QED
        BY <1>7, <2>1, <2>2, <2>3 DEF SearchInv
<1>18. ASSUME NEW d \in Calls, d # c
       PROVE  Consistent(d)' /\ CallInv(d)' /\ SearchInv(d)'
    <2>1. Consistent(d) /\ CallInv(d) /\ SearchInv(d) /\ Stays(d) /\ (d \in shrunk' <=> d \in shrunk)
        BY <1>1, <1>5, <1>6, <1>7, <1>18 DEF Inv, Stays
    <2>2. Waiting(d) => phase'[req[d].name] = phase[req[d].name]
        BY <1>8, <1>14, <1>18
    <2>3. QED
        BY <1>1, <1>10, <2>1, <2>2 DEF Stays, Consistent, CallInv, SearchInv
<1>19. QED
    BY <1>9, <1>12, <1>13, <1>15, <1>16, <1>17, <1>18 DEF Inv

LEMMA OrchestratorKeeps ==
    ASSUME Inv, NEW c \in Calls, NEW n \in Names, COCreate(c, n) \/ COList(c, n) \/ CODelete(c, n)
    PROVE  Inv'
<1>1. CASE COCreate(c, n)
    BY <1>1, BeginKeeps DEF COCreate, Starts
<1>2. CASE COList(c, n)
    <2>1. phase' = [phase EXCEPT ![n] = "ready"]
        BY <1>2 DEF COList, Inv, TypeOK
    <2>2. QED
        BY <1>2, <2>1, BeginKeeps DEF COList, Starts
<1>3. CASE CODelete(c, n)
    BY <1>3, BeginKeeps DEF CODelete, Starts
<1>4. QED
    BY <1>1, <1>2, <1>3

\* The orchestrator takes a response; it believes one it waited for.
LEMMA CollectKeeps ==
    ASSUME Inv, NEW c \in Calls, COCollect(c)
    PROVE  Inv'
<1>1. /\ TypeOK /\ Consistent(c) /\ CallInv(c) /\ UNCHANGED <<list, nextId, stable>>
      /\ pc[c] = "done" /\ shrunk' = shrunk \ {c}
    BY DEF Inv, COCollect, apiVars
<1>1a. req[c] \in Requests /\ req[c].name \in Names
    BY <1>1 DEF Consistent, Requests
<1>2. PICK n \in Names : n = req[c].name
    BY <1>1a
<1>2a. ClaimInv(n)
    BY DEF Inv
<1>3. /\ pc' \in [Calls -> ApiSteps \union {"idle", "done"}] /\ pc'[c] = "idle"
      /\ req' \in [Calls -> Requests \union {NoRequest}] /\ req'[c] = NoRequest
      /\ expired' \in [Calls -> BOOLEAN] /\ ~expired'[c]
      /\ result' \in [Calls -> Codes \union {"none"}] /\ result'[c] = "none"
      /\ page' \in [Calls -> Nat] /\ resp' \in [Calls -> Ids \union {0}]
      /\ \A d \in Calls \ {c} : Stays(d)
    BY <1>1 DEF COCollect, TypeOK, Stays
<1>4. Existing' = Existing /\ \A m : Named(m)' = Named(m)
    BY <1>1 DEF Existing, Named
<1>5. Consistent(c)' /\ CallInv(c)' /\ SearchInv(c)'
    BY <1>3 DEF Consistent, CallInv, SearchInv, ApiSteps
<1>6. OneCallPerClaim'
    BY <1>3 DEF Inv, OneCallPerClaim, Stays
<1>7. Distinct'
    BY <1>1 DEF Inv, Distinct
\* It is enough to look at the claim of the call.
<1>8. ASSUME NEW ph \in {"absent", "creating", "ready", "deleting", "deleted"},
             NEW b \in Ids \union {0},
             phase' = [phase EXCEPT ![n] = ph], bound' = [bound EXCEPT ![n] = b],
             ph \in {"absent", "creating"} => phase[n] \in {"absent", "creating"},
             (ph = phase[n] /\ b = bound[n]) \/ (pc[c] # "idle" /\ ~expired[c]),
             ClaimInv(n)'
      PROVE  Inv'
    <2>1. /\ phase' \in [Names -> {"absent", "creating", "ready", "deleting", "deleted"}]
          /\ bound' \in [Names -> Ids \union {0}] /\ phase'[n] = ph /\ bound'[n] = b
          /\ \A m \in Names \ {n} : phase'[m] = phase[m] /\ bound'[m] = bound[m]
        BY <1>1, <1>2, <1>8 DEF TypeOK
    <2>2. TypeOK'
        BY <1>1, <1>3, <2>1 DEF TypeOK
    <2>3. Outstanding' \in SUBSET Outstanding
        BY <1>2, <1>4, <1>8, <2>1 DEF Outstanding
    <2>4. /\ Cardinality(Outstanding') <= Cardinality(Outstanding)
          /\ Cardinality(Outstanding) \in Nat /\ Cardinality(Outstanding') \in Nat
        BY <1>1, <2>3, OutstandingFinite, FS_Subset, FS_CardinalityType
    <2>5. IdsSuffice'
        BY <1>1, <1>4, <2>4, SnapshotsAssumption DEF Inv, IdsSuffice, TypeOK
    <2>6. ASSUME NEW m \in Names, m # n
          PROVE  ClaimInv(m)'
        BY <1>1, <1>4, <2>1, <2>6 DEF Inv, ClaimInv
    <2>7. ASSUME NEW d \in Calls, d # c
          PROVE  Consistent(d)' /\ CallInv(d)' /\ SearchInv(d)'
        <3>1. /\ Consistent(d) /\ CallInv(d) /\ SearchInv(d) /\ Stays(d)
              /\ (d \in shrunk' <=> d \in shrunk)
            BY <1>1, <1>3, <2>7 DEF Inv
        <3>2. Waiting(d) => req[d].name \in Names
            BY <3>1 DEF Consistent, Requests
        <3>3. Waiting(d) => /\ phase'[req[d].name] = phase[req[d].name]
                            /\ bound'[req[d].name] = bound[req[d].name]
            <4>1. CASE ph = phase[n] /\ b = bound[n]
                BY <2>1, <3>2, <4>1
            <4>2. CASE pc[c] # "idle" /\ ~expired[c]
                BY <1>2, <2>1, <2>7, <3>2, <4>2 DEF Inv, OneCallPerClaim
            <4>3. QED
                BY <1>8, <4>1, <4>2
        <3>4. QED
            BY <1>1, <1>4, <3>1, <3>3 DEF Stays, Consistent, CallInv, SearchInv
    <2>8. QED
        BY <1>5, <1>6, <1>7, <1>8, <2>2, <2>5, <2>6, <2>7 DEF Inv
<1>9. CASE ~(result[c] = "OK" /\ ~expired[c]) \/ req[c].op = "list"
    <2>1. /\ phase' = [phase EXCEPT ![n] = phase[n]] /\ bound' = [bound EXCEPT ![n] = bound[n]]
        BY <1>2, <1>9 DEF COCollect
    <2>2. UNCHANGED <<phase, bound>>
        BY <1>1, <2>1 DEF TypeOK
    <2>3. /\ phase[n] \in {"absent", "creating", "ready", "deleting", "deleted"}
          /\ bound[n] \in Ids \union {0}
        BY <1>1 DEF TypeOK
    <2>4. ClaimInv(n)'
        BY <1>1, <1>2a, <1>4, <2>2 DEF ClaimInv
    <2>5. QED
        BY <1>8, <2>1, <2>3, <2>4
<1>10. CASE result[c] = "OK" /\ ~expired[c] /\ req[c].op = "create"
    <2> DEFINE s == [id |-> resp[c], name |-> n]
    <2>1. /\ phase' = [phase EXCEPT ![n] = "ready"] /\ bound' = [bound EXCEPT ![n] = resp[c]]
        BY <1>2, <1>10 DEF COCollect
    <2>2. phase'[n] = "ready" /\ bound'[n] = resp[c]
        BY <1>1, <2>1 DEF TypeOK
    <2>3. phase[n] = "creating" /\ s \in Existing
        BY <1>1, <1>2, <1>10 DEF CallInv
    <2>4. s.id = resp[c] /\ s.name = n
        OBVIOUS
    <2>5. s \in SnapshotType /\ s.id \in Ids
        BY <1>1, <2>3, EntriesExist DEF SnapshotType
    <2> HIDE DEF s
    <2>6. \A t \in Existing : t.id = s.id \/ t.name = n => t = s
        BY <1>1, <2>3, <2>4, EntriesExist DEF Inv, Distinct
    <2>7. Named(n) = {s}
        BY <2>3, <2>4, <2>6 DEF Named
    <2>8. resp[c] \in Ids /\ resp[c] # 0 /\ resp[c] < nextId
        BY <2>3, <2>4, <2>5 DEF Ids, Inv, IdsSuffice
    <2>9. ClaimInv(n)'
        BY <1>1, <1>4, <2>2, <2>4, <2>6, <2>7, <2>8 DEF ClaimInv, s
    <2>10. QED
        BY <1>1, <1>8, <1>10, <2>1, <2>8, <2>9
<1>11. CASE result[c] = "OK" /\ ~expired[c] /\ req[c].op = "delete"
    <2>1. /\ phase' = [phase EXCEPT ![n] = "deleted"] /\ bound' = [bound EXCEPT ![n] = bound[n]]
        BY <1>2, <1>11 DEF COCollect
    <2>2. phase'[n] = "deleted" /\ bound'[n] = bound[n] /\ bound[n] \in Ids \union {0}
        BY <1>1, <2>1 DEF TypeOK
    <2>3. phase[n] = "deleting" /\ Named(n) = {}
        BY <1>1, <1>2, <1>11 DEF CallInv
    <2>4. ClaimInv(n)'
        BY <1>1, <1>2a, <1>4, <2>2, <2>3 DEF ClaimInv
    <2>5. QED
        BY <1>1, <1>8, <1>11, <2>1, <2>2, <2>4
<1>12. QED
    BY <1>1a, <1>9, <1>10, <1>11 DEF Requests

-----------------------------------------------------------------------------
(* Theorems *)

LEMMA InitInv == Init => Inv
<1> SUFFICES ASSUME Init PROVE Inv
    OBVIOUS
<1>1. TypeOK
    <2>1. list \in Seq(SnapshotType) /\ nextId \in 1..MaxId + 1
        BY SnapshotsAssumption DEF Init
    <2>2. /\ NoRequest \in Requests \union {NoRequest} /\ 0 \in Ids \union {0} /\ 0 \in Nat
          /\ "none" \in Codes \union {"none"}
        OBVIOUS
    <2>3. /\ req \in [Calls -> Requests \union {NoRequest}] /\ resp \in [Calls -> Ids \union {0}]
          /\ bound \in [Names -> Ids \union {0}] /\ page \in [Calls -> Nat]
          /\ result \in [Calls -> Codes \union {"none"}]
        BY <2>2, Zenon DEF Init
    <2>4. /\ pc \in [Calls -> ApiSteps \union {"idle", "done"}] /\ expired \in [Calls -> BOOLEAN]
          /\ phase \in [Names -> {"absent", "creating", "ready", "deleting", "deleted"}]
          /\ shrunk \in SUBSET Calls /\ stable \in BOOLEAN
        BY DEF Init
    <2>5. QED
        BY <2>1, <2>3, <2>4, Zenon DEF TypeOK
<1>2. Existing = {} /\ DOMAIN list = {} /\ \A n \in Names : Named(n) = {}
    BY DEF Init, Existing, ToSet, Named
<1>3. Distinct /\ OneCallPerClaim
    BY <1>2 DEF Init, Distinct, OneCallPerClaim
<1>4. IdsSuffice
    <2>1. nextId = 1 /\ MaxId \in Nat /\ MaxId >= Cardinality(Names)
        BY SnapshotsAssumption DEF Init
    <2>2. Cardinality(Outstanding) \in Nat /\ Cardinality(Outstanding) <= Cardinality(Names)
          /\ Cardinality(Names) \in Nat
        BY <1>1, OutstandingFinite
    <2>3. QED
        BY <1>2, <2>1, <2>2 DEF IdsSuffice
<1>5. \A n \in Names : ClaimInv(n)
    BY <1>2 DEF Init, ClaimInv
<1>6. \A c \in Calls : Consistent(c) /\ CallInv(c) /\ SearchInv(c)
    BY DEF Init, Consistent, CallInv, SearchInv, ApiSteps
<1>7. QED
    BY <1>1, <1>3, <1>4, <1>5, <1>6 DEF Inv

LEMMA NextInv == Inv /\ [Next]_vars => Inv'
<1> SUFFICES ASSUME Inv, [Next]_vars PROVE Inv'
    OBVIOUS
<1>1. ASSUME NEW c \in Calls, Progress(c)
      PROVE  Inv'
    BY <1>1, ListSnapshotsKeeps, CreateSnapshotKeeps, DeleteSnapshotKeeps, GetSnapshotKeeps,
       ApiErrorKeeps DEF Progress
<1>2. ASSUME NEW c \in Calls, COCollect(c)
      PROVE  Inv'
    BY <1>2, CollectKeeps
<1>3. ASSUME NEW c \in Calls, NEW n \in Names, COCreate(c, n) \/ COList(c, n) \/ CODelete(c, n)
      PROVE  Inv'
    BY <1>3, OrchestratorKeeps
<1>4. CASE Fault
    BY <1>4, ApiErrorKeeps, ExpireKeeps, RestartKeeps DEF Fault
<1>5. CASE Settle \/ Finished \/ UNCHANGED vars
    BY <1>5, SettleKeeps DEF Finished
<1>6. CASE OtherCreates \/ OtherDeletes
    BY <1>6, OtherCreatesKeeps, OtherDeletesKeeps
<1>7. QED
    BY <1>1, <1>2, <1>3, <1>4, <1>5, <1>6 DEF Next

\* Inv holds in every reachable state.
THEOREM SnapshotsInv == Spec => []Inv
<1>1. Init => Inv
    BY InitInv
<1>2. Inv /\ [Next]_vars => Inv'
    BY NextInv
<1>3. QED
    BY <1>1, <1>2, PTL DEF Spec

\* CreateSnapshot, repeated after a lost answer, a timeout or a restart, is
\* refused because of its own snapshot only if one was deleted while it
\* searched: for pages of any size the search misses nothing otherwise.
THEOREM SearchMissesNothing == Spec => []ConflictOnlyIfShrunk
<1>1. Inv => ConflictOnlyIfShrunk
    BY DEF Inv, SearchInv, ConflictOnlyIfShrunk
<1>2. QED
    BY <1>1, SnapshotsInv, PTL

\* What CreateSnapshot answered exists under that ID, alone of its name.
THEOREM ReadySnapshotIsReal == Spec => []ReadyIsReal
<1>1. Inv => ReadyIsReal
    BY DEF Inv, ClaimInv, ReadyIsReal
<1>2. QED
    BY <1>1, SnapshotsInv, PTL

\* A deletion that is confirmed leaves no snapshot of the name.
THEOREM DeleteLeavesNoSnapshot == Spec => []NoSnapshotLeftBehind
<1>1. Inv => NoSnapshotLeftBehind
    BY DEF Inv, ClaimInv, NoSnapshotLeftBehind
<1>2. QED
    BY <1>1, SnapshotsInv, PTL

\* ListSnapshots reports a snapshot that is ready.
THEOREM ReadySnapshotIsListed == Spec => []ReadyIsListed
<1>1. Inv => ReadyIsListed
    BY DEF Inv, CallInv, ReadyIsListed
<1>2. QED
    BY <1>1, SnapshotsInv, PTL

=============================================================================
