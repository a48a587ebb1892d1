---------------------------- MODULE PagingProofs ----------------------------
(***************************************************************************)
(* Listing by tokens, for every list, every page size and every number of  *)
(* calls, failures, creations and removals: which item a token leads to,   *)
(* what the filter keeps, that a client gets the items in order and once,  *)
(* and that it misses at most one for each removal, and one more if its    *)
(* tokens overshoot.                                                       *)
(*                                                                         *)
(* Induction over the turns of the filter's loop is done with a set of     *)
(* numbers (SetInduction).  The invariant Inv of Paging is proved action   *)
(* by action, first all but its last part (OrderInv), then the number of   *)
(* lost items (LostNow); both assume TokensFit.                            *)
(***************************************************************************)
EXTENDS Paging, SequenceTheorems, FiniteSetTheorems, WellFoundedInduction, TLAPS

-----------------------------------------------------------------------------
(* Tokens *)

\* Another MaxEntries items fill another page.
LEMMA NextPage ==
    ASSUME NEW t \in Nat, NEW max \in Nat \ {0}
    PROVE  /\ t \div max \in Nat /\ t % max \in 0..(max - 1)
           /\ t = (t \div max) * max + (t % max)
           /\ (t + max) \div max = (t \div max) + 1
           /\ (t + max) % max = t % max
<1> DEFINE k == ((t + max) \div max) - (t \div max) - 1
           d == (t % max) - ((t + max) % max)
<1>1. /\ t \div max \in Int /\ t % max \in 0..(max - 1)
      /\ t = (t \div max) * max + (t % max)
    BY SMT
<1>2. /\ (t + max) \div max \in Int /\ (t + max) % max \in 0..(max - 1)
      /\ t + max = ((t + max) \div max) * max + ((t + max) % max)
    BY SMT
<1>3. k \in Int /\ d \in Int /\ k * max = d /\ -max < d /\ d < max
    BY <1>1, <1>2
<1> HIDE DEF k, d
<1>4. ~(k >= 1) /\ ~(k <= -1)
    BY <1>3
<1>5. k = 0 /\ d = 0
    BY <1>3, <1>4
<1>6. t \div max \in Nat
    BY <1>1, SMT
<1>7. QED
    BY <1>1, <1>2, <1>5, <1>6 DEF k, d

\* A token is translated to the page and the item it names exactly if
\* MaxEntries does not divide it; otherwise that item is skipped.
THEOREM TokenReachesItem ==
    ASSUME NEW t \in Nat \ {0}, NEW max \in Nat \ {0}
    PROVE  Reached(t, max) = IF t % max # 0 THEN t ELSE t + 1
<1> DEFINE q == t \div max
           r == t % max
<1>1. /\ q \in Int /\ r \in 0..(max - 1)
      /\ t = q * max + r
    BY SMT
<1>2. FirstPage(t, max) = q + 1 /\ FirstSkip(t, max) = r
    BY DEF FirstPage, FirstSkip
<1>3. Skipped(r, max) = IF r = 0 THEN 0 ELSE r - 1
    BY <1>1 DEF Skipped
<1> HIDE DEF q, r
<1>4. Reached(t, max) = q * max + (IF r = 0 THEN 0 ELSE r - 1) + 1
    BY <1>1, <1>2, <1>3 DEF Reached
<1>5. r # 0 => Reached(t, max) = t
    BY <1>1, <1>4
<1>6. r = 0 => Reached(t, max) = t + 1
    BY <1>1, <1>4
<1>7. QED
    BY <1>5, <1>6 DEF r

\* With MaxEntries of two or more, a client that lists from the start on is
\* given tokens that MaxEntries does not divide, whatever the number of calls.
THEOREM TokensStayReachable ==
    ASSUME NEW t \in Nat, NEW max \in Nat \ {0, 1}, t = 0 \/ t % max = 1
    PROVE  NextToken(t, max) % max = 1
<1>1. CASE t = 0
    <2>1. (max + 1) % max = 1
        BY SMT
    <2>2. QED
        BY <1>1, <2>1 DEF NextToken
<1>2. CASE t # 0
    BY <1>2, NextPage DEF NextToken
<1>3. QED
    BY <1>1, <1>2

\* Where a call starts, in pages and what is left of the token.
LEMMA StartIs ==
    ASSUME NEW t \in Nat, NEW max \in Nat \ {0}
    PROVE  /\ FirstPage(t, max) = t \div max + 1 /\ FirstSkip(t, max) = t % max
           /\ StartOf(t, max, max) = (t \div max) * max + Before(t % max)
<1>1. FirstPage(t, max) = t \div max + 1 /\ FirstSkip(t, max) = t % max
    BY DEF FirstPage, FirstSkip
<1>2. t \div max \in Nat
    BY NextPage
<1>3. FirstPage(t, max) - 1 = t \div max
    BY <1>1, <1>2
<1>4. QED
    BY <1>1, <1>3, Zenon DEF StartOf

\* Where a call starts that gives MaxEntries: at its token, or behind the item
\* if MaxEntries divides the token.
LEMMA StartOfToken ==
    ASSUME NEW t \in Nat, NEW max \in Nat \ {0}
    PROVE  /\ FirstPage(t, max) \in Nat \ {0} /\ FirstSkip(t, max) \in 0..max - 1
           /\ StartOf(t, max, max) \in Nat
           /\ t <= StartOf(t, max, max) + 1
           /\ Overshoot(t, max) \in {0, 1}
           /\ StartOf(t, max, max) = Before(t) + Overshoot(t, max)
<1> DEFINE q == t \div max
           r == t % max
<1>1. q \in Nat /\ r \in 0..(max - 1) /\ t = q * max + r
    BY NextPage
<1>2. /\ FirstPage(t, max) = q + 1 /\ FirstSkip(t, max) = r
      /\ StartOf(t, max, max) = q * max + Before(r)
    BY StartIs
<1> HIDE DEF q, r
<1>3. q * max \in Nat
    BY <1>1
<1> DEFINE m == q * max
<1>5. m \in Nat /\ t = m + r /\ r \in Nat
    BY <1>1, <1>3
<1> HIDE DEF m
<1>6. m + Before(r) \in Nat /\ t <= m + Before(r) + 1
      /\ m + Before(r) = Before(t) + (IF t > 0 /\ r = 0 THEN 1 ELSE 0)
    BY <1>5 DEF Before
<1>7. Overshoot(t, max) = IF t > 0 /\ r = 0 THEN 1 ELSE 0
    BY DEF Overshoot, r
<1>8. QED
    BY <1>1, <1>2, <1>6, <1>7 DEF m

\* The call with the next token starts MaxEntries items later, and one more if
\* only the next token overshoots.
LEMMA StartOfNext ==
    ASSUME NEW t \in Nat, NEW max \in Nat \ {0}
    PROVE  LET u == NextToken(t, max)
           IN  /\ u \in Nat \ {0}
               /\ Overshoot(t, max) <= Overshoot(u, max)
               /\ StartOf(u, max, max) + Overshoot(t, max)
                    = StartOf(t, max, max) + max + Overshoot(u, max)
<1> DEFINE u == NextToken(t, max)
<1>1. u \in Nat \ {0} /\ u = (IF t = 0 THEN 1 ELSE t) + max
    BY DEF NextToken
<1>2. /\ Overshoot(t, max) \in {0, 1} /\ Overshoot(u, max) \in {0, 1}
      /\ StartOf(t, max, max) = Before(t) + Overshoot(t, max)
      /\ StartOf(u, max, max) = Before(u) + Overshoot(u, max)
    BY <1>1, StartOfToken
<1>3. Before(u) = Before(t) + max /\ Before(t) \in Nat
    BY <1>1 DEF Before
<1>4. Overshoot(t, max) <= Overshoot(u, max)
    <2>1. CASE t = 0
        BY <1>2, <2>1 DEF Overshoot
    <2>2. CASE t # 0
        <3>1. u % max = t % max
            BY <1>1, <2>2, NextPage
        <3>2. u > 0 /\ max > 0 /\ t > 0
            BY <1>1, <2>2
        <3> HIDE DEF u
        <3>3. Overshoot(u, max) = Overshoot(t, max)
            BY <3>1, <3>2 DEF Overshoot
        <3>4. QED
            BY <1>2, <3>3
    <2>3. QED
        BY <2>1, <2>2
<1> HIDE DEF u
<1>5. StartOf(u, max, max) + Overshoot(t, max)
        = StartOf(t, max, max) + max + Overshoot(u, max)
    BY <1>2, <1>3
<1>6. QED
    BY <1>1, <1>4, <1>5 DEF u

-----------------------------------------------------------------------------
(* The filter *)

\* Induction, with the statement as a set of numbers: were one missing, so would
\* be a least one.
LEMMA SetInduction ==
    ASSUME NEW T \in SUBSET Nat, 0 \in T, \A n \in T : n + 1 \in T
    PROVE  T = Nat
<1> SUFFICES ASSUME Nat \ T # {}
             PROVE  FALSE
    OBVIOUS
<1> DEFINE R == Nat \ T
<1>1. \E x \in R : \A y \in R : ~(<<y, x>> \in OpToRel(<, Nat))
    <2>1. R \subseteq Nat /\ R # {}
        OBVIOUS
    <2> HIDE DEF R
    <2>2. QED
        BY <2>1, NatLessThanWellFounded, WFMin, Zenon
<1>2. PICK x \in R : \A y \in R : ~(<<y, x>> \in OpToRel(<, Nat))
    BY <1>1
<1>3. \A y \in R : ~(y < x)
    <2>1. R \subseteq Nat
        OBVIOUS
    <2> HIDE DEF R
    <2>2. QED
        BY <1>2, <2>1 DEF OpToRel
<1>4. x \in Nat /\ x # 0 /\ x - 1 \in Nat /\ x - 1 < x
    OBVIOUS
<1>5. x - 1 \in T
    BY <1>3, <1>4
<1>6. (x - 1) + 1 = x
    BY <1>4
<1>7. QED
    BY <1>5, <1>6

\* What the filter's loop does in a turn, for a function from the number of
\* entries it has looked at to those it has kept.
LoopTurns(s, f, m) ==
    /\ f[0] = << >>
    /\ \A n \in 1..m : f[n] = IF s[n] \in Matching THEN Append(f[n - 1], s[n]) ELSE f[n - 1]

\* The loop does so, for any number of turns.
LEMMA LoopExists ==
    ASSUME NEW s
    PROVE  \A m \in Nat : \E f : LoopTurns(s, f, m)
<1> DEFINE T == {m \in Nat : \E f : LoopTurns(s, f, m)}
<1>1. 0 \in T
    <2>1. LoopTurns(s, [n \in {0} |-> << >>], 0)
        BY DEF LoopTurns
    <2>2. QED
        BY <2>1
<1>2. ASSUME NEW m \in T
      PROVE  m + 1 \in T
    <2>1. PICK f : LoopTurns(s, f, m)
        OBVIOUS
    <2> DEFINE next == IF s[m + 1] \in Matching THEN Append(f[m], s[m + 1]) ELSE f[m]
               g == [n \in 0..m + 1 |-> IF n = m + 1 THEN next ELSE f[n]]
    <2>2. m \in Nat
        OBVIOUS
    <2>3. g[m + 1] = next /\ \A n \in 0..m : g[n] = f[n]
        BY <2>2
    <2> HIDE DEF g
    <2>4. g[0] = << >>
        BY <2>1, <2>2, <2>3 DEF LoopTurns
    <2>5. ASSUME NEW n \in 1..m + 1
          PROVE  g[n] = IF s[n] \in Matching THEN Append(g[n - 1], s[n]) ELSE g[n - 1]
        <3>1. CASE n = m + 1
            <4>1. g[n - 1] = f[m]
                BY <2>2, <2>3, <3>1
            <4>2. QED
                BY <2>3, <3>1, <4>1
        <3>2. CASE n # m + 1
            <4>1. n \in 1..m /\ g[n - 1] = f[n - 1] /\ g[n] = f[n]
                BY <2>2, <2>3, <3>2
            <4>2. QED
                BY <2>1, <4>1 DEF LoopTurns
        <3>3. QED
            BY <3>1, <3>2
    <2>6. LoopTurns(s, g, m + 1)
        BY <2>4, <2>5 DEF LoopTurns
    <2>7. QED
        BY <2>2, <2>6
<1>3. T = Nat
    <2> HIDE DEF T
    <2>1. T \in SUBSET Nat
        BY DEF T
    <2>2. QED
        BY <1>1, <1>2, <2>1, SetInduction
<1>4. QED
    BY <1>3

\* The filtered entries are what the last turn of such a loop has kept.
LEMMA FilteredTurns ==
    ASSUME NEW S, NEW s \in Seq(S)
    PROVE  \E f : LoopTurns(s, f, Len(s)) /\ Filtered(s) = f[Len(s)]
<1> DEFINE Turn(f, n) == IF n = 0 THEN << >>
                         ELSE IF s[n] \in Matching THEN Append(f[n - 1], s[n]) ELSE f[n - 1]
           Loop(f) == f = [n \in 0..Len(s) |-> Turn(f, n)]
           k == CHOOSE f : Loop(f)
<1>1. Len(s) \in Nat
    OBVIOUS
<1>2. PICK f : LoopTurns(s, f, Len(s))
    BY <1>1, LoopExists
<1>3. \E h : Loop(h)
    <2>1. PICK h : h = [n \in 0..Len(s) |-> f[n]]
        OBVIOUS
    <2>2. ASSUME NEW n \in 0..Len(s)
          PROVE  f[n] = Turn(h, n)
        <3>1. CASE n = 0
            BY <1>1, <1>2, <3>1 DEF LoopTurns
        <3>2. CASE n # 0
            <4>1. n \in 1..Len(s) /\ h[n - 1] = f[n - 1]
                BY <1>1, <2>1, <3>2
            <4>2. QED
                BY <1>2, <3>2, <4>1 DEF LoopTurns
        <3>3. QED
            BY <3>1, <3>2
    <2> HIDE DEF Turn
    <2>3. Loop(h)
        <3>1. [n \in 0..Len(s) |-> f[n]] = [n \in 0..Len(s) |-> Turn(h, n)]
            BY <2>2, ZenonT(60)
        <3>2. QED
            BY <2>1, <3>1, Zenon
    <2>4. QED
        BY <2>3, Zenon
<1>4. Loop(k)
    BY <1>3, Zenon
<1>5. Filtered(s) = k[Len(s)]
    BY DEF Filtered
<1> HIDE DEF k
<1>6. LoopTurns(s, k, Len(s))
    <2>1. \A n \in 0..Len(s) : k[n] = IF n = 0 THEN << >>
                                  ELSE IF s[n] \in Matching THEN Append(k[n - 1], s[n])
                                       ELSE k[n - 1]
        <3> HIDE DEF Turn
        <3>1. \A n \in 0..Len(s) : k[n] = Turn(k, n)
            BY <1>4, Zenon
        <3>2. QED
            BY <3>1 DEF Turn
    <2>2. 0 \in 0..Len(s) /\ \A n \in 1..Len(s) : n \in 0..Len(s) /\ n # 0
        BY <1>1
    <2>3. QED
        BY <2>1, <2>2, Zenon DEF LoopTurns
<1>7. QED
    BY <1>5, <1>6

\* The filter keeps the matching entries, in their order.
THEOREM FilterKeeps ==
    ASSUME NEW S \in SUBSET Nat, NEW s \in Seq(S)
    PROVE  /\ Filtered(s) \in Seq(S)
           /\ ToSet(Filtered(s)) = ToSet(s) \intersect Matching
           /\ Increasing(s) => Increasing(Filtered(s))
<1>1. Len(s) \in Nat /\ DOMAIN s = 1..Len(s) /\ \A i \in 1..Len(s) : s[i] \in S
    OBVIOUS
<1>2. PICK f : LoopTurns(s, f, Len(s)) /\ Filtered(s) = f[Len(s)]
    BY FilteredTurns
<1> DEFINE Part(n) == {s[i] : i \in 1..n}
           Right(n) == /\ f[n] \in Seq(S)
                       /\ ToSet(f[n]) = Part(n) \intersect Matching
                       /\ Increasing(s) => Increasing(f[n])
           T == {n \in Nat : n <= Len(s) => Right(n)}
<1>3. 0 \in T
    <2>1. f[0] = << >> /\ DOMAIN << >> = {}
        BY <1>2 DEF LoopTurns
    <2>2. Part(0) = {} /\ ToSet(<< >>) = {} /\ Increasing(<< >>) /\ << >> \in Seq(S)
        BY DEF ToSet, Increasing
    <2>3. Right(0)
        BY <2>1, <2>2
    <2>4. QED
        BY <2>3
<1>4. ASSUME NEW n \in T
      PROVE  n + 1 \in T
    <2> SUFFICES ASSUME n + 1 <= Len(s)
                 PROVE  Right(n + 1)
        OBVIOUS
    <2>1. n \in Nat /\ n + 1 \in 1..Len(s) /\ (n + 1) - 1 = n /\ s[n + 1] \in S
        BY <1>1
    <2>2. f[n + 1] = IF s[n + 1] \in Matching THEN Append(f[n], s[n + 1]) ELSE f[n]
        BY <1>2, <2>1 DEF LoopTurns
    <2>3. Right(n)
        BY <1>1, <2>1
    <2>4. Part(n + 1) = Part(n) \union {s[n + 1]}
        <3>1. 1..n + 1 = (1..n) \union {n + 1}
            BY <2>1
        <3>2. QED
            BY <3>1
    <2> HIDE DEF T
    <2>5. CASE s[n + 1] \notin Matching
        BY <2>2, <2>3, <2>4, <2>5
    <2>6. CASE s[n + 1] \in Matching
        <3> DEFINE q == f[n]
                   e == s[n + 1]
        <3>1. q \in Seq(S) /\ e \in S /\ f[n + 1] = Append(q, e)
            BY <2>1, <2>2, <2>3, <2>6
        <3>2. ToSet(q) = Part(n) \intersect Matching /\ (Increasing(s) => Increasing(q))
            BY <2>3
        <3>3. Increasing(s) => \A x \in Part(n) : x < e
            BY <1>1, <2>1 DEF Increasing
        <3> HIDE DEF q, e, Part
        <3>4. /\ Append(q, e) \in Seq(S) /\ Len(Append(q, e)) = Len(q) + 1 /\ Len(q) \in Nat
              /\ DOMAIN Append(q, e) = 1..Len(q) + 1 /\ DOMAIN q = 1..Len(q)
              /\ Append(q, e)[Len(q) + 1] = e
              /\ \A i \in 1..Len(q) : Append(q, e)[i] = q[i]
            BY <3>1
        <3>5. ToSet(Append(q, e)) = ToSet(q) \union {e}
            BY <3>4 DEF ToSet
        <3>6. Increasing(s) => Increasing(Append(q, e))
            <4>1. \A i \in 1..Len(q) : q[i] \in ToSet(q)
                BY <3>4 DEF ToSet
            <4>2. Increasing(s) => \A i \in 1..Len(q) : q[i] < e
                BY <3>2, <3>3, <4>1
            <4>3. QED
                BY <3>2, <3>4, <4>2 DEF Increasing
        <3>7. QED
            BY <2>4, <2>6, <3>1, <3>2, <3>4, <3>5, <3>6 DEF e
    <2>7. QED
        BY <2>5, <2>6
<1>5. T = Nat
    <2>1. T \in SUBSET Nat
        OBVIOUS
    <2> HIDE DEF T
    <2>2. QED
        BY <1>3, <1>4, <2>1, SetInduction
<1> HIDE DEF T
<1>6. Len(s) \in T /\ Len(s) <= Len(s)
    BY <1>1, <1>5
<1>7. Right(Len(s))
    BY <1>6 DEF T
<1>8. Part(Len(s)) = ToSet(s)
    BY <1>1 DEF ToSet
<1> HIDE DEF Part
<1>9. QED
    BY <1>2, <1>7, <1>8, Zenon

-----------------------------------------------------------------------------
(* Pages and sequences *)

\* What a turn of the loop wants of its page, and what it keeps of that.
Wanted == SubSeq(Items(page), Skipped(skip, Len(Items(page))) + 1, Len(Items(page)))
Taken == Kept(Wanted, remainingEntries)

\* Pages are counted from one, and a response is never overfull.
LoopInv ==
    pc = "paging" => page >= 1 /\ (MaxEntries > 0 => remainingEntries >= 0)

\* Page sizes and tokens are numbers, and a page holds at least one item.
LEMMA Sizes ==
    ASSUME listing \in Listings
    PROVE  /\ listing.token \in Nat /\ listing.filter \in BOOLEAN
           /\ FirstItem \in Nat \ {0}
           /\ MaxEntries \in Nat /\ PerPage \in Nat \ {0}
<1>1. /\ listing.token \in Nat /\ listing.filter \in BOOLEAN /\ listing.maxEntries \in Nat
    BY PagingAssumption
<1>2. MaxEntries \in Nat
    BY <1>1, PagingAssumption DEF MaxEntries, MaxOf
<1>3. QED
    BY <1>1, <1>2, PagingAssumption DEF FirstItem, PerPage, Smaller

\* When the tokens fit, pages are as large as MaxEntries.
LEMMA FitSizes ==
    ASSUME TokensFit, listing \in Listings
    PROVE  /\ MaxEntries > 0 => PerPage = MaxEntries
           /\ MaxEntries = 0 => listing.token <= PerPage
<1>1. MaxEntries \in Nat /\ MaxEntries <= PageCap
      /\ (MaxEntries = 0 => listing.token <= DefaultPerPage)
    BY Sizes DEF TokensFit, MaxEntries
<1>2. QED
    BY <1>1, PagingAssumption DEF PerPage, Smaller

\* What SubSeq returns, the empty part included.
LEMMA PartOfSeq ==
    ASSUME NEW S, NEW q \in Seq(S), NEW m \in Nat, NEW n \in Nat, m <= n, n <= Len(q)
    PROVE  /\ SubSeq(q, m + 1, n) \in Seq(S) /\ Len(SubSeq(q, m + 1, n)) = n - m
           /\ \A i \in 1..n - m : SubSeq(q, m + 1, n)[i] = q[m + i]
<1>1. CASE m < n
    BY <1>1
<1>2. CASE m = n
    <2>1. SubSeq(q, m + 1, n) = << >>
        BY <1>2, SubSeqEmpty
    <2>2. QED
        BY <1>2, <2>1
<1>3. QED
    BY <1>1, <1>2

\* A page shows the items between its ends, all of those but on the last page.
LEMMA PageItems ==
    ASSUME TypeOK, NEW p \in Nat \ {0}
    PROVE  /\ Items(p) \in Seq(ItemType) /\ Len(Items(p)) \in Nat
           /\ (p - 1) * PerPage \in Nat
           /\ p * PerPage = (p - 1) * PerPage + PerPage
           /\ \A i \in 1..Len(Items(p)) :
                /\ (p - 1) * PerPage + i \in 1..Len(items)
                /\ Items(p)[i] = items[(p - 1) * PerPage + i]
           /\ IsLastPage(p) => Len(items) <= (p - 1) * PerPage + Len(Items(p))
           /\ ~IsLastPage(p) => Len(Items(p)) = PerPage
<1> DEFINE low == (p - 1) * PerPage
           full == p * PerPage
           high == Smaller(full, Len(items))
<1>1. PerPage \in Nat \ {0}
    BY Sizes DEF TypeOK
<1>2. low \in Nat /\ full = low + PerPage
    BY <1>1
<1>3. items \in Seq(ItemType) /\ Len(items) \in Nat
    BY DEF TypeOK
<1>4. Items(p) = SubSeq(items, low + 1, high) /\ (IsLastPage(p) <=> full >= Len(items))
    BY DEF Items, IsLastPage
<1> HIDE DEF low, full
<1>5. high \in Nat /\ high <= Len(items) /\ (full >= Len(items) => high = Len(items))
      /\ (~(full >= Len(items)) => high = full)
    BY <1>1, <1>2, <1>3 DEF Smaller
<1> HIDE DEF high
<1>6. CASE low <= high
    <2>1. /\ Items(p) \in Seq(ItemType) /\ Len(Items(p)) = high - low
          /\ \A i \in 1..high - low : Items(p)[i] = items[low + i]
        <3>1. /\ SubSeq(items, low + 1, high) \in Seq(ItemType)
              /\ Len(SubSeq(items, low + 1, high)) = high - low
              /\ \A i \in 1..high - low : SubSeq(items, low + 1, high)[i] = items[low + i]
            <4>1. /\ items \in Seq(ItemType) /\ low \in Nat /\ high \in Nat
                  /\ low <= high /\ high <= Len(items)
                BY <1>2, <1>3, <1>5, <1>6
            <4>2. QED
                BY <4>1, PartOfSeq
        <3>2. QED
            BY <1>4, <3>1
    <2>2. \A i \in 1..high - low : low + i \in 1..Len(items)
        BY <1>2, <1>3, <1>5, <1>6
    <2>3. Len(Items(p)) \in Nat /\ low + Len(Items(p)) = high
        BY <1>2, <1>5, <1>6, <2>1
    <2>4. /\ IsLastPage(p) => Len(items) <= low + Len(Items(p))
          /\ ~IsLastPage(p) => Len(Items(p)) = PerPage
        BY <1>1, <1>2, <1>3, <1>4, <1>5, <2>1, <2>3
    <2>5. QED
        BY <1>2, <2>1, <2>2, <2>3, <2>4 DEF low, full
<1>7. CASE ~(low <= high)
    <2>1. Items(p) = << >>
        <3>1. low + 1 \in Int /\ high \in Int /\ low + 1 > high
            BY <1>2, <1>5, <1>7
        <3>2. QED
            BY <1>3, <1>4, <3>1, SubSeqEmpty
    <2>2. full >= Len(items) /\ Len(items) <= low
        BY <1>1, <1>2, <1>3, <1>5, <1>7
    <2>3. Len(Items(p)) = 0 /\ Items(p) \in Seq(ItemType)
        BY <2>1
    <2>4. QED
        BY <1>2, <1>4, <2>2, <2>3 DEF low, full
<1>8. QED
    BY <1>6, <1>7

\* A turn takes the items of the list after the ones it skips, as many as are on
\* its page or as fit.
LEMMA TakenItems ==
    ASSUME TypeOK, LoopInv, pc = "paging"
    PROVE  LET pos == (page - 1) * PerPage + Skipped(skip, Len(Items(page)))
               n == Len(Taken)
           IN  /\ Taken \in Seq(ItemType) /\ pos \in Nat
               /\ \A i \in 1..n : pos + i \in 1..Len(items) /\ Taken[i] = items[pos + i]
               /\ MaxEntries > 0 => n <= remainingEntries
               /\ Taken # Wanted => MaxEntries > 0 /\ n = remainingEntries
               /\ Taken = Wanted => pos + n = (page - 1) * PerPage + Len(Items(page))
<1> DEFINE res == Items(page)
           low == (page - 1) * PerPage
           sk == Skipped(skip, Len(res))
           w == Wanted
           pos == low + sk
<1>1. page \in Nat \ {0} /\ skip \in Nat /\ remainingEntries \in Int /\ MaxEntries \in Nat
      /\ (MaxEntries > 0 => remainingEntries >= 0)
    BY Sizes DEF TypeOK, LoopInv
<1>2. /\ res \in Seq(ItemType) /\ Len(res) \in Nat /\ low \in Nat
      /\ \A i \in 1..Len(res) : low + i \in 1..Len(items) /\ res[i] = items[low + i]
    BY <1>1, PageItems
<1>3. w = SubSeq(res, sk + 1, Len(res))
    BY DEF Wanted
<1>4. Taken = IF MaxEntries > 0 /\ Len(w) > remainingEntries
              THEN SubSeq(w, 1, remainingEntries) ELSE w
    BY DEF Taken, Kept
<1> HIDE DEF res, low, w
<1>5. sk \in Nat /\ sk <= Len(res)
    BY <1>1, <1>2 DEF Skipped
<1> HIDE DEF sk
<1>6. /\ w \in Seq(ItemType) /\ Len(w) = Len(res) - sk
      /\ \A i \in 1..Len(res) - sk : w[i] = res[sk + i]
    <2>1. /\ res \in Seq(ItemType) /\ sk \in Nat /\ Len(res) \in Nat /\ sk <= Len(res)
          /\ Len(res) <= Len(res)
        BY <1>2, <1>5
    <2>2. /\ SubSeq(res, sk + 1, Len(res)) \in Seq(ItemType)
          /\ Len(SubSeq(res, sk + 1, Len(res))) = Len(res) - sk
          /\ \A i \in 1..Len(res) - sk : SubSeq(res, sk + 1, Len(res))[i] = res[sk + i]
        BY <2>1, PartOfSeq
    <2>3. QED
        BY <1>3, <2>2
<1>7. pos \in Nat /\ Len(w) \in Nat
    BY <1>2, <1>5, <1>6
<1>8. \A i \in 1..Len(w) : pos + i \in 1..Len(items) /\ w[i] = items[pos + i]
    <2>1. ASSUME NEW i \in 1..Len(w)
          PROVE  pos + i \in 1..Len(items) /\ w[i] = items[pos + i]
        <3>1. i \in 1..Len(res) - sk /\ sk + i \in 1..Len(res) /\ low + (sk + i) = pos + i
            BY <1>2, <1>5, <1>6
        <3> HIDE DEF pos
        <3>2. QED
            BY <1>2, <1>6, <3>1
    <2>2. QED
        BY <2>1
<1>9. pos + Len(w) = low + Len(res)
    BY <1>2, <1>5, <1>6
<1>10. CASE MaxEntries > 0 /\ Len(w) > remainingEntries
    <2> HIDE DEF pos
    <2>1. remainingEntries \in Nat /\ 0 <= remainingEntries /\ remainingEntries <= Len(w)
        <3>1. /\ MaxEntries > 0 /\ Len(w) > remainingEntries
              /\ remainingEntries \in Int /\ remainingEntries >= 0
            BY <1>1, <1>10
        <3>2. QED
            BY <1>7, <3>1
    <2>2. Taken = SubSeq(w, 0 + 1, remainingEntries)
        <3>1. Taken = SubSeq(w, 1, remainingEntries)
            BY <1>4, <1>10, Zenon
        <3>2. 0 + 1 = 1
            OBVIOUS
        <3>3. QED
            BY <3>1, <3>2, Zenon
    <2>3. /\ SubSeq(w, 0 + 1, remainingEntries) \in Seq(ItemType)
          /\ Len(SubSeq(w, 0 + 1, remainingEntries)) = remainingEntries - 0
          /\ \A i \in 1..remainingEntries - 0 : SubSeq(w, 0 + 1, remainingEntries)[i] = w[0 + i]
        <3>1. /\ w \in Seq(ItemType) /\ 0 \in Nat /\ remainingEntries \in Nat
              /\ 0 <= remainingEntries /\ remainingEntries <= Len(w)
            BY <1>6, <2>1
        <3>2. QED
            BY <3>1, PartOfSeq
    <2>4. /\ Taken \in Seq(ItemType) /\ Len(Taken) = remainingEntries
          /\ \A i \in 1..remainingEntries : Taken[i] = w[i]
        BY <2>1, <2>2, <2>3
    <2>5. Taken # w
        BY <1>10, <2>1, <2>4
    <2>6. \A i \in 1..remainingEntries : i \in 1..Len(w)
        BY <1>7, <2>1
    <2>7. QED
        BY <1>7, <1>8, <1>10, <2>1, <2>4, <2>5, <2>6 DEF pos, low, sk, res, w
<1>11. CASE ~(MaxEntries > 0 /\ Len(w) > remainingEntries)
    <2>1. Taken = w
        BY <1>4, <1>11
    <2>2. MaxEntries > 0 => Len(w) <= remainingEntries
        BY <1>1, <1>7, <1>11
    <2> HIDE DEF pos
    <2>3. QED
        BY <1>6, <1>7, <1>8, <1>9, <2>1, <2>2 DEF pos, low, sk, res, w
<1>12. QED
    BY <1>10, <1>11

\* What RemoveAt leaves: the items behind the removed one move up.
LEMMA WithoutOne ==
    ASSUME NEW S, NEW q \in Seq(S), NEW k \in 1..Len(q)
    PROVE  /\ RemoveAt(q, k) \in Seq(S) /\ Len(RemoveAt(q, k)) = Len(q) - 1
           /\ \A i \in 1..Len(q) - 1 :
                RemoveAt(q, k)[i] = IF i < k THEN q[i] ELSE q[i + 1]
<1> DEFINE before == SubSeq(q, 1, k - 1)
           after == SubSeq(q, k + 1, Len(q))
<1>1. Len(q) \in Nat /\ k \in Nat /\ k >= 1 /\ k <= Len(q) /\ Len(q) <= Len(q)
    OBVIOUS
<1>2. /\ before \in Seq(S) /\ Len(before) = k - 1
      /\ \A i \in 1..k - 1 : before[i] = q[i]
    BY <1>1
<1>3. /\ after \in Seq(S) /\ Len(after) = Len(q) - k
      /\ \A i \in 1..Len(q) - k : after[i] = q[k + i]
    BY <1>1, PartOfSeq
<1>4. RemoveAt(q, k) = before \o after
    BY DEF RemoveAt
<1> HIDE DEF before, after
<1>5. /\ before \o after \in Seq(S)
      /\ Len(before \o after) = Len(before) + Len(after)
      /\ \A i \in 1..Len(before) + Len(after) :
            (before \o after)[i] = IF i <= Len(before) THEN before[i] ELSE after[i - Len(before)]
    BY <1>2, <1>3, ConcatProperties, Zenon
<1>6. Len(before) + Len(after) = Len(q) - 1
    BY <1>1, <1>2, <1>3
<1>7. ASSUME NEW i \in 1..Len(q) - 1
      PROVE  (before \o after)[i] = IF i < k THEN q[i] ELSE q[i + 1]
    <2>1. CASE i < k
        <3>1. i \in 1..k - 1 /\ i <= Len(before) /\ i \in 1..Len(before) + Len(after)
            BY <1>1, <1>2, <1>6, <2>1
        <3>2. QED
            BY <1>2, <1>5, <2>1, <3>1
    <2>2. CASE ~(i < k)
        <3>1. /\ ~(i <= Len(before)) /\ i \in 1..Len(before) + Len(after)
              /\ i - Len(before) \in 1..Len(q) - k /\ k + (i - Len(before)) = i + 1
            BY <1>1, <1>2, <1>6, <2>2
        <3>2. (before \o after)[i] = after[i - Len(before)]
            BY <1>5, <3>1
        <3>3. after[i - Len(before)] = q[k + (i - Len(before))]
            BY <1>3, <3>1
        <3>4. QED
            BY <2>2, <3>1, <3>2, <3>3
    <2>3. QED
        BY <2>1, <2>2
<1>8. QED
    BY <1>4, <1>5, <1>6, <1>7

\* The entries of a response are those of the calls' pages that match, in order.
LEMMA EntriesKept ==
    ASSUME listing \in Listings, NEW s \in Seq(ItemType)
    PROVE  /\ Entries(s) \in Seq(ItemType)
           /\ ToSet(Entries(s)) = {x \in ToSet(s) : listing.filter => x \in Matching}
           /\ Increasing(s) => Increasing(Entries(s))
<1>1. ItemType \in SUBSET Nat
    BY DEF ItemType
<1>2. /\ Filtered(s) \in Seq(ItemType)
      /\ ToSet(Filtered(s)) = ToSet(s) \intersect Matching
      /\ Increasing(s) => Increasing(Filtered(s))
    BY <1>1, FilterKeeps, Zenon
<1>3. CASE listing.filter
    BY <1>2, <1>3 DEF Entries
<1>4. CASE ~listing.filter
    <2>1. Entries(s) = s
        BY <1>4 DEF Entries
    <2>2. QED
        BY <1>4, <2>1, Zenon
<1>5. QED
    BY <1>3, <1>4

\* What one sequence followed by another holds, and when that is increasing.
LEMMA Joined ==
    ASSUME NEW s \in Seq(ItemType), NEW q \in Seq(ItemType)
    PROVE  /\ s \o q \in Seq(ItemType)
           /\ ToSet(s \o q) = ToSet(s) \union ToSet(q)
           /\ Increasing(s) /\ Increasing(q) /\ Precedes(s, q, 0) => Increasing(s \o q)
<1>1. /\ Len(s) \in Nat /\ Len(q) \in Nat /\ DOMAIN s = 1..Len(s) /\ DOMAIN q = 1..Len(q)
    OBVIOUS
<1>2. /\ s \o q \in Seq(ItemType)
      /\ Len(s \o q) = Len(s) + Len(q)
      /\ \A i \in 1..Len(s) + Len(q) :
            (s \o q)[i] = IF i <= Len(s) THEN s[i] ELSE q[i - Len(s)]
    BY ConcatProperties, Zenon
<1>3. DOMAIN (s \o q) = 1..Len(s) + Len(q)
    BY <1>2
<1> DEFINE c == s \o q
<1>4. \A i \in 1..Len(s) : i \in DOMAIN c /\ c[i] = s[i]
    BY <1>1, <1>2, <1>3
<1>5. \A i \in 1..Len(q) : Len(s) + i \in DOMAIN c /\ c[Len(s) + i] = q[i]
    <2>1. ASSUME NEW i \in 1..Len(q)
          PROVE  Len(s) + i \in DOMAIN c /\ c[Len(s) + i] = q[i]
        <3>1. /\ Len(s) + i \in 1..Len(s) + Len(q) /\ ~(Len(s) + i <= Len(s))
              /\ (Len(s) + i) - Len(s) = i
            BY <1>1
        <3>2. QED
            BY <1>2, <1>3, <3>1
    <2>2. QED
        BY <2>1
<1>6. \A i \in DOMAIN c : i \in 1..Len(s) \/ (i - Len(s) \in 1..Len(q) /\ i = Len(s) + (i - Len(s)))
    BY <1>1, <1>3
<1>7. /\ \A i \in DOMAIN c : i \in Int
      /\ \A i \in 1..Len(s) : s[i] \in Int /\ s[i] \in ToSet(s)
      /\ \A i \in 1..Len(q) : q[i] \in Int /\ i > 0
    <2>1. \A i \in DOMAIN c : i \in Int
        BY <1>1, <1>3
    <2>2. \A i \in 1..Len(s) : s[i] \in ToSet(s) /\ s[i] \in ItemType
        BY <1>1 DEF ToSet
    <2>3. \A i \in 1..Len(q) : q[i] \in ItemType /\ i > 0
        BY <1>1
    <2>4. \A x \in ItemType : x \in Int
        BY DEF ItemType
    <2> HIDE DEF c
    <2>5. QED
        BY <2>1, <2>2, <2>3, <2>4
<1> HIDE DEF c
<1>8. ToSet(c) = ToSet(s) \union ToSet(q)
    <2>1. ASSUME NEW x \in ToSet(c)
          PROVE  x \in ToSet(s) \union ToSet(q)
        <3>1. PICK i \in DOMAIN c : x = c[i]
            BY DEF ToSet
        <3>2. CASE i \in 1..Len(s)
            BY <1>4, <1>7, <3>1, <3>2
        <3>3. CASE i - Len(s) \in 1..Len(q) /\ i = Len(s) + (i - Len(s))
            <4>1. c[Len(s) + (i - Len(s))] = q[i - Len(s)]
                BY <1>5, <3>3
            <4>2. QED
                BY <1>1, <3>1, <3>3, <4>1 DEF ToSet
        <3>4. QED
            BY <1>6, <3>2, <3>3
    <2>2. ToSet(s) \subseteq ToSet(c)
        BY <1>1, <1>4 DEF ToSet
    <2>3. ToSet(q) \subseteq ToSet(c)
        BY <1>1, <1>5 DEF ToSet
    <2>4. QED
        BY <2>1, <2>2, <2>3
<1>9. ASSUME Increasing(s), Increasing(q), Precedes(s, q, 0)
      PROVE  Increasing(c)
    <2>1. ASSUME NEW i \in DOMAIN c, NEW j \in DOMAIN c, i < j
          PROVE  c[i] < c[j]
        <3>1. CASE j \in 1..Len(s)
            <4>1. i \in 1..Len(s)
                BY <1>1, <1>6, <1>7, <2>1, <3>1
            <4>2. QED
                BY <1>1, <1>4, <1>9, <2>1, <3>1, <4>1 DEF Increasing
        <3>2. CASE j \notin 1..Len(s)
            <4>1. PICK b \in 1..Len(q) : j = Len(s) + b
                BY <1>6, <3>2
            <4>2. c[j] = q[b] /\ b > 0
                BY <1>5, <1>7, <4>1
            <4>3. CASE i \in 1..Len(s)
                BY <1>1, <1>4, <1>7, <1>9, <4>2, <4>3 DEF Precedes
            <4>4. CASE i \notin 1..Len(s)
                <5>1. PICK a \in 1..Len(q) : i = Len(s) + a
                    BY <1>6, <4>4
                <5>2. a < b /\ c[i] = q[a]
                    BY <1>1, <1>5, <2>1, <4>1, <5>1
                <5>3. QED
                    BY <1>1, <1>9, <4>2, <5>2 DEF Increasing
            <4>5. QED
                BY <4>3, <4>4
        <3>3. QED
            BY <3>1, <3>2
    <2>2. QED
        BY <2>1 DEF Increasing
<1>10. QED
    BY <1>2, <1>8, <1>9 DEF c

-----------------------------------------------------------------------------
(* Types *)

\* The turns of the loop that go on to the next page, and those that return.
GoesOn ==
    /\ ~IsLastPage(page) /\ ~(MaxEntries > 0 /\ remainingEntries = Len(Taken))
    /\ resources' = resources \o Taken
    /\ remainingEntries' = remainingEntries - Len(Taken)
    /\ skip' = 0 /\ page' = page + 1
    /\ UNCHANGED clientVars
HasMore == Taken # Wanted \/ ~IsLastPage(page)
Returns ==
    /\ IsLastPage(page) \/ (MaxEntries > 0 /\ remainingEntries = Len(Taken))
    /\ listed' = listed \o Entries(resources \o Taken)
    /\ token' = IF HasMore THEN NextToken(token, MaxEntries) ELSE 0
    /\ pc' = IF HasMore THEN "idle" ELSE "end"
    /\ EndCall

\* Every turn goes on or returns.
LEMMA FetchTurns ==
    ASSUME TypeOK, LoopInv, FetchPage
    PROVE  pc = "paging" /\ UNCHANGED <<apiVars, listing>> /\ (GoesOn \/ Returns)
<1>1. pc = "paging" /\ UNCHANGED <<apiVars, listing>>
    BY DEF FetchPage
<1>2. Taken \in Seq(ItemType) /\ remainingEntries \in Int
    BY <1>1, TakenItems DEF TypeOK
<1>3. remainingEntries - Len(Taken) = 0 <=> remainingEntries = Len(Taken)
    BY <1>2
<1>4. QED
    BY <1>1, <1>3, Zenon DEF FetchPage, GoesOn, Returns, HasMore, Taken, Wanted

\* What a token is translated to, for any MaxEntries.
LEMMA FirstFacts ==
    ASSUME NEW t \in Nat, NEW max \in Nat
    PROVE  /\ FirstPage(t, max) \in Nat \ {0} /\ FirstSkip(t, max) \in Nat
           /\ NextToken(t, max) \in Nat
<1>1. CASE max = 0
    BY <1>1 DEF FirstPage, FirstSkip, NextToken
<1>2. CASE max # 0
    <2>1. max \in Nat \ {0}
        BY <1>2
    <2>2. QED
        BY <2>1, StartOfToken, StartOfNext
<1>3. QED
    BY <1>1, <1>2

\* Every step keeps the types.
LEMMA TypeStep ==
    ASSUME TypeOK, LoopInv, [Next]_vars
    PROVE  TypeOK' /\ LoopInv'
<1>1. /\ MaxEntries \in Nat /\ MaxItems \in Nat /\ MaxRemovals \in Nat /\ listing.token \in Nat
    BY Sizes, PagingAssumption DEF TypeOK
<1>2. listing' = listing /\ MaxEntries' = MaxEntries
    BY DEF Next, vars, Begin, FetchPage, FetchFails, Create, Delete, Finished, MaxEntries
<1>3. CASE Begin
    <2>1. FirstPage(token, MaxEntries) \in Nat \ {0} /\ FirstSkip(token, MaxEntries) \in Nat
        BY <1>1, FirstFacts DEF TypeOK
    <2>2. page' \in Nat /\ page' >= 1 /\ skip' \in Nat /\ remainingEntries' = MaxEntries
          /\ remainingEntries' \in Int /\ remainingEntries' >= 0
        BY <1>1, <1>3, <2>1 DEF Begin
    <2>3. QED
        BY <1>2, <1>3, <2>2 DEF Begin, TypeOK, LoopInv, apiVars
<1>4. CASE FetchPage
    <2>1. pc = "paging" /\ UNCHANGED <<apiVars, listing>> /\ (GoesOn \/ Returns)
        BY <1>4, FetchTurns
    <2>2. /\ Taken \in Seq(ItemType) /\ Len(Taken) \in Nat
          /\ MaxEntries > 0 => Len(Taken) <= remainingEntries
        BY <2>1, TakenItems
    <2>3. resources \o Taken \in Seq(ItemType)
        BY <2>2, Joined DEF TypeOK
    <2>4. CASE GoesOn
        <3>1. page' \in Nat /\ page' >= 1 /\ skip' \in Nat /\ remainingEntries' \in Int
              /\ (MaxEntries > 0 => remainingEntries' >= 0)
            BY <1>1, <2>2, <2>4 DEF GoesOn, TypeOK
        <3>2. QED
            BY <1>2, <2>1, <2>3, <2>4, <3>1 DEF GoesOn, TypeOK, LoopInv, apiVars, clientVars
    <2>5. CASE Returns
        <3>1. Entries(resources \o Taken) \in Seq(ItemType)
            BY <2>3, EntriesKept DEF TypeOK
        <3>2. listed' \in Seq(ItemType)
            BY <2>5, <3>1, Joined DEF Returns, TypeOK
        <3>3. token' \in Nat /\ pc' \in {"idle", "end"}
            BY <1>1, <2>5, FirstFacts DEF Returns, TypeOK
        <3>4. QED
            BY <1>2, <2>1, <2>5, <3>2, <3>3 DEF Returns, EndCall, TypeOK, LoopInv, apiVars
    <2>6. QED
        BY <2>1, <2>4, <2>5
<1>5. CASE FetchFails
    BY <1>5 DEF FetchFails, EndCall, TypeOK, LoopInv, apiVars
<1>6. CASE Create
    <2>1. created' \in 0..MaxItems /\ created + 1 \in ItemType
        BY <1>1, <1>6 DEF Create, TypeOK, ItemType
    <2>2. items' \in Seq(ItemType)
        BY <1>6, <2>1 DEF Create, TypeOK
    <2>3. QED
        BY <1>2, <1>6, <2>1, <2>2 DEF Create, TypeOK, LoopInv, callVars, clientVars
<1>7. CASE Delete
    <2>1. removed' \in 0..MaxRemovals
        BY <1>1, <1>7 DEF Delete, TypeOK
    <2>2. PICK k \in 1..Len(items) : items' = RemoveAt(items, k)
        BY <1>7 DEF Delete
    <2>3. items' \in Seq(ItemType)
        BY <2>2, WithoutOne DEF TypeOK
    <2>4. QED
        BY <1>2, <1>7, <2>1, <2>3 DEF Delete, TypeOK, LoopInv, callVars, clientVars
<1>8. CASE UNCHANGED vars
    BY <1>2, <1>8 DEF vars, apiVars, callVars, clientVars, TypeOK, LoopInv
<1>9. QED
    BY <1>3, <1>4, <1>5, <1>6, <1>7, <1>8 DEF Next, Finished

\* The initial states have their types.
LEMMA TypeInit ==
    ASSUME Init
    PROVE  TypeOK /\ LoopInv
<1>1. [k \in 1..created |-> k] \in Seq(ItemType)
    <2>1. created \in Nat /\ \A k \in 1..created : k \in ItemType
        BY PagingAssumption DEF Init, ItemType
    <2>2. QED
        BY <2>1
<1>2. listing.token \in Nat
    BY Sizes DEF Init
<1>3. QED
    BY <1>1, <1>2, PagingAssumption DEF Init, TypeOK, LoopInv

\* Type correctness, for every client, page size and bound: whatever a call
\* starts with, listResources asks for pages from the first on and never
\* collects more than fits.
THEOREM TypeCorrect ==
    Spec => []TypeOK
<1>1. Init => TypeOK /\ LoopInv
    BY TypeInit
<1>2. TypeOK /\ LoopInv /\ [Next]_vars => TypeOK' /\ LoopInv'
    BY TypeStep
<1>3. QED
    BY <1>1, <1>2, PTL DEF Spec

-----------------------------------------------------------------------------
(* Order *)

\* All but the losses.
OrderInv == TypeOK /\ ListInv /\ CallInv /\ ReceivedInv

\* The client asks for the same in every call.
LEMMA SameListing ==
    ASSUME [Next]_vars
    PROVE  UNCHANGED <<listing, MaxEntries, PerPage, FirstItem>>
<1>1. listing' = listing
    BY DEF Next, vars, Begin, FetchPage, FetchFails, Create, Delete, Finished
<1>2. QED
    BY <1>1 DEF MaxEntries, PerPage, FirstItem

\* Where the call starts and where it stands are positions in the list.
LEMMA Positions ==
    ASSUME TypeOK, TokensFit, pc = "paging" => page >= 1
    PROVE  /\ Start \in Nat /\ Passed \in Nat
           /\ MaxEntries > 0 => Start = StartOf(token, MaxEntries, MaxEntries)
           /\ MaxEntries = 0 => Start = Before(token)
<1>1. /\ MaxEntries \in Nat /\ PerPage \in Nat \ {0} /\ token \in Nat /\ listing \in Listings
      /\ page \in Nat /\ skip \in Nat
    BY Sizes DEF TypeOK
<1>2. MaxEntries > 0 => Start = StartOf(token, MaxEntries, MaxEntries)
    BY <1>1, FitSizes DEF Start
<1>3. MaxEntries = 0 => Start = Before(token)
    <2> SUFFICES ASSUME MaxEntries = 0
                 PROVE  Start = Before(token)
        OBVIOUS
    <2>1. FirstPage(token, MaxEntries) = 1 /\ FirstSkip(token, MaxEntries) = token
        BY <1>1 DEF FirstPage, FirstSkip
    <2>2. Start = (1 - 1) * PerPage + Before(token)
        BY <2>1 DEF Start, StartOf
    <2>3. (1 - 1) * PerPage = 0 /\ Before(token) \in Nat
        BY <1>1 DEF Before
    <2>4. QED
        BY <2>2, <2>3
<1>4. Start \in Nat
    <2>1. CASE MaxEntries = 0
        BY <1>1, <1>3, <2>1 DEF Before
    <2>2. CASE MaxEntries # 0
        BY <1>1, <1>2, <2>2, StartOfToken
    <2>3. QED
        BY <2>1, <2>2
<1>5. Passed \in Nat
    <2>1. CASE pc = "paging"
        <3>1. (page - 1) * PerPage \in Nat
            BY <1>1, <2>1
        <3>2. Before(skip) \in Nat
            BY <1>1 DEF Before
        <3>3. QED
            BY <2>1, <3>1, <3>2 DEF Passed
    <2>2. CASE pc # "paging"
        BY <1>4, <2>2 DEF Passed
    <2>3. QED
        BY <2>1, <2>2
<1>6. QED
    BY <1>2, <1>3, <1>4, <1>5

\* A turn takes the next items of the list: as many as fit, or up to the end of
\* the page.
LEMMA TakenNext ==
    ASSUME TypeOK, CallInv, TokensFit, pc = "paging"
    PROVE  /\ Taken \in Seq(ItemType) /\ Len(Taken) \in Nat
           /\ \A i \in 1..Len(Taken) :
                Passed + i \in 1..Len(items) /\ Taken[i] = items[Passed + i]
           /\ MaxEntries > 0 => Len(Taken) <= remainingEntries
           /\ Taken # Wanted => MaxEntries > 0 /\ Len(Taken) = remainingEntries
           /\ Taken = Wanted /\ IsLastPage(page) => Len(items) <= Passed + Len(Taken)
           /\ Taken = Wanted /\ ~IsLastPage(page) => Passed + Len(Taken) = page * PerPage
<1> DEFINE size == Len(Items(page))
           low == (page - 1) * PerPage
           pos == low + Skipped(skip, size)
           n == Len(Taken)
<1>1. /\ page \in Nat \ {0} /\ skip \in Nat /\ skip <= PerPage /\ LoopInv /\ Len(items) \in Nat
      /\ MaxEntries \in Nat /\ PerPage \in Nat \ {0} /\ remainingEntries \in Int
    BY Sizes DEF TypeOK, CallInv, LoopInv
<1>2. /\ Taken \in Seq(ItemType) /\ pos \in Nat
      /\ \A i \in 1..n : pos + i \in 1..Len(items) /\ Taken[i] = items[pos + i]
      /\ MaxEntries > 0 => n <= remainingEntries
      /\ Taken # Wanted => MaxEntries > 0 /\ n = remainingEntries
      /\ Taken = Wanted => pos + n = low + size
    BY <1>1, TakenItems
<1>3. /\ low \in Nat /\ size \in Nat /\ page * PerPage = low + PerPage
      /\ IsLastPage(page) => Len(items) <= low + size
      /\ ~IsLastPage(page) => size = PerPage
    BY <1>1, PageItems
<1>4. Passed = low + Before(skip) /\ n \in Nat
    BY <1>2 DEF Passed
<1> HIDE DEF low, size
<1>5. CASE skip <= size
    <2>1. Passed = pos
        BY <1>1, <1>3, <1>4, <1>5 DEF Before, Skipped
    <2> HIDE DEF pos, n
    <2>2. Taken = Wanted /\ IsLastPage(page) => Len(items) <= Passed + n
        BY <1>1, <1>2, <1>3, <1>4, <2>1
    <2>3. Taken = Wanted /\ ~IsLastPage(page) => Passed + n = page * PerPage
        BY <1>2, <1>3, <2>1
    <2>4. QED
        BY <1>2, <1>4, <2>1, <2>2, <2>3 DEF n
<1>6. CASE ~(skip <= size)
    <2>1. IsLastPage(page) /\ Skipped(skip, size) = size /\ Passed = low + skip - 1
        BY <1>1, <1>3, <1>4, <1>6 DEF Before, Skipped
    <2>2. pos = low + size /\ Len(items) <= pos /\ Len(items) <= Passed
        BY <1>1, <1>3, <1>4, <1>6, <2>1
    <2> HIDE DEF pos, n
    <2>3. n = 0
        <3>1. ASSUME n >= 1
              PROVE  FALSE
            <4>1. 1 \in 1..n
                BY <1>4, <3>1
            <4>2. pos + 1 \in 1..Len(items)
                BY <1>2, <4>1
            <4>3. QED
                BY <1>1, <1>2, <2>2, <4>2
        <3>2. QED
            BY <1>4, <3>1
    <2>4. Passed \in Nat /\ Len(items) <= Passed + n
        BY <1>1, <1>3, <2>1, <2>2, <2>3, <1>6
    <2>5. QED
        BY <1>2, <2>1, <2>3, <2>4 DEF n
<1>7. QED
    BY <1>5, <1>6

\* The empty sequence is in order with everything.
LEMMA EmptyFacts ==
    /\ ToSet(<< >>) = {} /\ Increasing(<< >>) /\ << >> \in Seq(ItemType)
    /\ \A q, n : Precedes(<< >>, q, n)
    /\ \A s, n : Precedes(s, << >>, n)
<1>1. DOMAIN << >> = {} /\ << >> \in Seq(ItemType)
    OBVIOUS
<1>2. ToSet(<< >>) = {}
    BY <1>1 DEF ToSet
<1>3. QED
    BY <1>1, <1>2 DEF Increasing, Precedes

\* What every step and the invariant give.
LEMMA Facts ==
    ASSUME OrderInv, TokensFit
    PROVE  /\ LoopInv
           /\ MaxEntries \in Nat /\ PerPage \in Nat \ {0} /\ FirstItem \in Nat \ {0}
           /\ Start \in Nat /\ Passed \in Nat
           /\ created \in Nat /\ removed \in Nat /\ token \in Nat /\ listing \in Listings
           /\ items \in Seq(ItemType) /\ Len(items) \in Nat /\ DOMAIN items = 1..Len(items)
           /\ \A k \in 1..Len(items) : items[k] \in Nat
<1>1. LoopInv
    <2>1. MaxEntries \in Nat /\ remainingEntries \in Int
        BY Sizes DEF OrderInv, TypeOK
    <2>2. QED
        BY <2>1 DEF LoopInv, OrderInv, CallInv
<1>2. /\ MaxEntries \in Nat /\ PerPage \in Nat \ {0} /\ FirstItem \in Nat \ {0}
    BY Sizes DEF OrderInv, TypeOK
<1>3. Start \in Nat /\ Passed \in Nat
    BY Positions DEF OrderInv, CallInv
<1>4. /\ created \in Nat /\ removed \in Nat /\ token \in Nat /\ listing \in Listings
      /\ items \in Seq(ItemType) /\ Len(items) \in Nat /\ DOMAIN items = 1..Len(items)
    BY PagingAssumption DEF OrderInv, TypeOK
<1>5. \A k \in 1..Len(items) : items[k] \in ItemType
    BY <1>4
<1>6. QED
    BY <1>1, <1>2, <1>3, <1>4, <1>5 DEF ItemType

\* Every removal moves the items behind it up by one.
LEMMA ListFacts ==
    ASSUME OrderInv, TokensFit
    PROVE  /\ Len(items) = created - removed /\ Increasing(items)
           /\ \A k \in 1..Len(items) :
                k <= items[k] /\ items[k] <= k + removed /\ items[k] <= created
<1>1. DOMAIN items = 1..Len(items) /\ removed \in Nat /\ Len(items) \in Nat
    BY Facts
<1>2. ListInv
    BY DEF OrderInv
<1>3. ASSUME NEW k \in 1..Len(items)
      PROVE  k <= items[k] /\ items[k] <= k + removed /\ items[k] <= created
    <2>1. items[k] \in k..k + removed /\ items[k] <= created
        BY <1>1, <1>2 DEF ListInv
    <2>2. QED
        BY <1>1, <2>1
<1>4. QED
    BY <1>2, <1>3 DEF ListInv

\* A call begins where its token says.
LEMMA BeginOrder ==
    ASSUME OrderInv, TokensFit, Begin
    PROVE  ListInv' /\ CallInv' /\ ReceivedInv' /\ Start' = Start /\ Passed' = Start
<1>1. /\ pc = "idle" /\ pc' = "paging" /\ page' = FirstPage(token, MaxEntries)
      /\ skip' = FirstSkip(token, MaxEntries) /\ remainingEntries' = MaxEntries
      /\ UNCHANGED <<items, created, removed, listing, resources, token, listed>>
    BY DEF Begin, apiVars
<1>2. UNCHANGED <<MaxEntries, PerPage, FirstItem>>
    BY SameListing DEF Next
<1>3. Start' = Start
    BY <1>1, <1>2 DEF Start
<1>4. Passed' = Start
    BY <1>1, <1>2 DEF Passed, Start, StartOf
<1>5. ListInv'
    BY <1>1 DEF OrderInv, ListInv, Increasing
<1>6. page' \in Nat /\ page' >= 1 /\ skip' \in 0..PerPage
    <2>1. CASE MaxEntries = 0
        <3>1. page' = 1 /\ skip' = token /\ token = listing.token
            BY <1>1, <2>1 DEF FirstPage, FirstSkip, OrderInv, CallInv
        <3>2. QED
            BY <2>1, <3>1, Facts, FitSizes
    <2>2. CASE MaxEntries # 0
        <3>1. MaxEntries \in Nat \ {0} /\ PerPage = MaxEntries
            BY <2>2, Facts, FitSizes
        <3>2. page' \in Nat \ {0} /\ skip' \in 0..MaxEntries - 1
            BY <1>1, <3>1, Facts, StartOfToken
        <3>3. QED
            BY <3>1, <3>2
    <2>3. QED
        BY <2>1, <2>2
<1>7. resources = << >> /\ FirstItem <= Start + 1 /\ (MaxEntries = 0 => token = listing.token)
    BY <1>1 DEF OrderInv, CallInv
<1>8. CallInv'
    BY <1>1, <1>2, <1>3, <1>4, <1>6, <1>7, Facts DEF CallInv
<1>9. ReceivedInv'
    BY <1>1, <1>2, <1>3, <1>4, <1>7, EmptyFacts DEF OrderInv, ReceivedInv, Increasing, Precedes
<1>10. QED
    BY <1>3, <1>4, <1>5, <1>8, <1>9

\* A failed call forgets what it has collected, and will start where it did.
LEMMA FailOrder ==
    ASSUME OrderInv, TokensFit, FetchFails
    PROVE  ListInv' /\ CallInv' /\ ReceivedInv' /\ Start' = Start /\ Passed' = Start
<1>1. /\ pc = "paging" /\ pc' = "idle" /\ resources' = << >>
      /\ UNCHANGED <<items, created, removed, listing, token, listed>>
    BY DEF FetchFails, EndCall, apiVars
<1>2. UNCHANGED <<MaxEntries, PerPage, FirstItem>>
    BY SameListing DEF Next
<1>3. Start' = Start
    BY <1>1, <1>2 DEF Start
<1>4. Passed' = Start
    BY <1>1, <1>3 DEF Passed
<1>5. ListInv'
    BY <1>1 DEF OrderInv, ListInv, Increasing
<1>6. CallInv'
    BY <1>1, <1>2, <1>3 DEF OrderInv, CallInv
<1>7. ReceivedInv'
    <2>1. /\ ToSet(listed) \subseteq FirstItem..created /\ Increasing(listed)
          /\ Precedes(listed, items, Start)
        BY <1>1 DEF OrderInv, ReceivedInv
    <2>2. Increasing(resources)' /\ Increasing(listed)' /\ Precedes(listed, items, Start)'
        BY <1>1, <1>3, <2>1, EmptyFacts DEF Increasing, Precedes
    <2>3. Precedes(resources, items, Passed)' /\ Precedes(listed, resources, 0)'
        BY <1>1, EmptyFacts DEF Precedes
    <2>4. ToSet(listed)' \union ToSet(resources)' \subseteq (FirstItem..created)'
        BY <1>1, <1>2, <2>1, EmptyFacts
    <2>5. QED
        BY <2>2, <2>3, <2>4 DEF ReceivedInv
<1>8. QED
    BY <1>3, <1>4, <1>5, <1>6, <1>7

\* The list after an item was created, or removed at k.
LEMMA Created ==
    ASSUME OrderInv, TokensFit, Create
    PROVE  /\ created' = created + 1 /\ removed' = removed
           /\ Len(items') = Len(items) + 1 /\ DOMAIN items' = 1..Len(items) + 1
           /\ items'[Len(items) + 1] = created + 1
           /\ \A i \in 1..Len(items) : items'[i] = items[i]
           /\ UNCHANGED <<listing, callVars, clientVars>>
<1>1. created \in Nat /\ created < MaxItems /\ MaxItems \in Nat
    BY Facts, PagingAssumption DEF Create
<1>2. created + 1 \in ItemType
    BY <1>1 DEF ItemType
<1>3. items \in Seq(ItemType) /\ items' = Append(items, created + 1)
    BY Facts DEF Create
<1>4. QED
    BY <1>2, <1>3 DEF Create

\* The list after an item was removed.
LEMMA Removed ==
    ASSUME OrderInv, TokensFit, Delete
    PROVE  /\ created' = created /\ removed' = removed + 1
           /\ \E k \in 1..Len(items) :
                /\ Len(items') = Len(items) - 1 /\ DOMAIN items' = 1..Len(items) - 1
                /\ \A i \in 1..Len(items) - 1 :
                     items'[i] = IF i < k THEN items[i] ELSE items[i + 1]
           /\ UNCHANGED <<listing, callVars, clientVars>>
<1>1. PICK k \in 1..Len(items) : items' = RemoveAt(items, k)
    BY DEF Delete
<1>2. items \in Seq(ItemType)
    BY Facts
<1>3. /\ RemoveAt(items, k) \in Seq(ItemType) /\ Len(RemoveAt(items, k)) = Len(items) - 1
      /\ \A i \in 1..Len(items) - 1 :
           RemoveAt(items, k)[i] = IF i < k THEN items[i] ELSE items[i + 1]
    BY <1>2, WithoutOne, Zenon
<1>4. DOMAIN items' = 1..Len(items) - 1
    BY <1>1, <1>3
<1>5. QED
    BY <1>1, <1>3, <1>4 DEF Delete

\* The positions do not move.
LEMMA SamePositions ==
    ASSUME [Next]_vars, UNCHANGED <<callVars, clientVars>>
    PROVE  UNCHANGED <<listing, MaxEntries, PerPage, FirstItem, Start, Passed>>
<1>1. UNCHANGED <<listing, MaxEntries, PerPage, FirstItem>>
    BY SameListing
<1>2. Start' = Start
    BY <1>1 DEF Start, clientVars
<1>3. Passed' = Passed
    BY <1>1, <1>2 DEF Passed, callVars, clientVars
<1>4. QED
    BY <1>1, <1>2, <1>3

\* What others do to the list does not move the call.
LEMMA SameCall ==
    ASSUME CallInv, [Next]_vars, UNCHANGED <<callVars, clientVars>>
    PROVE  CallInv'
BY SamePositions DEF CallInv, callVars, clientVars

\* A new item is behind everything the client has.
LEMMA CreateOrder ==
    ASSUME OrderInv, TokensFit, Create
    PROVE  ListInv' /\ CallInv' /\ ReceivedInv'
<1>1. /\ created' = created + 1 /\ removed' = removed
      /\ Len(items') = Len(items) + 1 /\ DOMAIN items' = 1..Len(items) + 1
      /\ items'[Len(items) + 1] = created + 1
      /\ \A i \in 1..Len(items) : items'[i] = items[i]
      /\ UNCHANGED <<listing, callVars, clientVars>>
    BY Created
<1>2. [Next]_vars
    BY DEF Next
<1>3. UNCHANGED <<listing, MaxEntries, PerPage, FirstItem, Start, Passed, resources, listed, pc>>
    BY <1>1, <1>2, SamePositions DEF callVars, clientVars
<1>4. /\ created \in Nat /\ removed \in Nat /\ Len(items) \in Nat /\ DOMAIN items = 1..Len(items)
      /\ \A k \in 1..Len(items) : items[k] \in Nat
      /\ FirstItem \in Nat /\ Start \in Nat /\ Passed \in Nat
    BY Facts
<1>5. CallInv'
    BY <1>1, <1>2, SameCall DEF OrderInv
<1>6. \A i \in 1..Len(items) + 1 :
        \/ i \in 1..Len(items) /\ items'[i] = items[i]
        \/ i = Len(items) + 1 /\ items'[i] = created + 1
    BY <1>1, <1>4
<1>7. ListInv'
    <2>1. /\ Len(items) = created - removed /\ Increasing(items)
          /\ \A k \in 1..Len(items) :
               k <= items[k] /\ items[k] <= k + removed /\ items[k] <= created
        BY ListFacts
    <2>2. Len(items') = created' - removed'
        BY <1>1, <1>4, <2>1
    <2>3. \A k \in 1..Len(items) + 1 : items'[k] \in k..k + removed' /\ items'[k] <= created'
        BY <1>1, <1>4, <1>6, <2>1
    <2>4. Increasing(items)'
        <3>1. ASSUME NEW i \in 1..Len(items) + 1, NEW j \in 1..Len(items) + 1, i < j
              PROVE  items'[i] < items'[j]
            <4>1. i \in 1..Len(items) /\ items'[i] = items[i]
                BY <1>1, <1>4, <3>1
            <4>2. CASE j = Len(items) + 1
                BY <1>1, <1>4, <2>1, <4>1, <4>2
            <4>3. CASE j # Len(items) + 1
                BY <1>4, <1>6, <2>1, <3>1, <4>1, <4>3 DEF Increasing
            <4>4. QED
                BY <4>2, <4>3
        <3>2. QED
            BY <1>1, <3>1 DEF Increasing
    <2>5. QED
        BY <1>1, <2>2, <2>3, <2>4 DEF ListInv
<1>8. ReceivedInv'
    <2>1. /\ Increasing(listed) /\ Increasing(resources)
          /\ ToSet(listed) \union ToSet(resources) \subseteq FirstItem..created
          /\ pc # "end" => /\ Precedes(listed, items, Start)
                           /\ Precedes(resources, items, Passed)
                           /\ Precedes(listed, resources, 0)
        BY DEF OrderInv, ReceivedInv
    <2>2. ToSet(listed) \union ToSet(resources) \subseteq FirstItem..created'
        BY <1>1, <1>4, <2>1
    <2>3. \A s, n : ToSet(s) \subseteq FirstItem..created /\ Precedes(s, items, n)
                     => Precedes(s, items', n)
        BY <1>1, <1>4, <1>6 DEF Precedes
    <2>4. pc # "end" => Precedes(listed, items', Start) /\ Precedes(resources, items', Passed)
        BY <2>1, <2>3
    <2>5. QED
        BY <1>3, <2>1, <2>2, <2>4 DEF ReceivedInv
<1>9. QED
    BY <1>5, <1>7, <1>8

\* A removal moves the items behind it up by one, and none in front of what
\* the client has.
LEMMA DeleteOrder ==
    ASSUME OrderInv, TokensFit, Delete
    PROVE  ListInv' /\ CallInv' /\ ReceivedInv'
<1>1. PICK k \in 1..Len(items) :
        /\ Len(items') = Len(items) - 1 /\ DOMAIN items' = 1..Len(items) - 1
        /\ \A i \in 1..Len(items) - 1 :
             items'[i] = IF i < k THEN items[i] ELSE items[i + 1]
    BY Removed
<1>2. [Next]_vars /\ created' = created /\ removed' = removed + 1
      /\ UNCHANGED <<listing, callVars, clientVars>>
    BY Removed DEF Next
<1>3. UNCHANGED <<listing, MaxEntries, PerPage, FirstItem, Start, Passed, resources, listed, pc>>
    BY <1>2, SamePositions DEF callVars, clientVars
<1>4. /\ created \in Nat /\ removed \in Nat /\ Len(items) \in Nat /\ DOMAIN items = 1..Len(items)
      /\ \A i \in 1..Len(items) : items[i] \in Nat
      /\ FirstItem \in Nat /\ Start \in Nat /\ Passed \in Nat
    BY Facts
<1>5. CallInv'
    BY <1>2, SameCall DEF OrderInv
<1>6. \A i \in 1..Len(items) - 1 : \E m \in {i, i + 1} :
        m \in 1..Len(items) /\ items'[i] = items[m] /\ (m = i <=> i < k)
    BY <1>1, <1>4
<1>7. ListInv'
    <2>1. /\ Len(items) = created - removed /\ Increasing(items)
          /\ \A i \in 1..Len(items) :
               i <= items[i] /\ items[i] <= i + removed /\ items[i] <= created
        BY ListFacts
    <2>2. Len(items') = created' - removed'
        BY <1>1, <1>2, <1>4, <2>1
    <2>3. \A i \in 1..Len(items) - 1 : items'[i] \in i..i + removed' /\ items'[i] <= created'
        <3>1. ASSUME NEW i \in 1..Len(items) - 1
              PROVE  items'[i] \in i..i + removed' /\ items'[i] <= created'
            <4>1. PICK m \in {i, i + 1} : m \in 1..Len(items) /\ items'[i] = items[m]
                BY <1>6
            <4>2. /\ items[m] \in Nat /\ m <= items[m]
                  /\ items[m] <= m + removed /\ items[m] <= created
                BY <1>4, <2>1, <4>1
            <4>3. QED
                BY <1>2, <1>4, <4>1, <4>2
        <3>2. QED
            BY <3>1
    <2>4. Increasing(items)'
        <3>1. ASSUME NEW i \in 1..Len(items) - 1, NEW j \in 1..Len(items) - 1, i < j
              PROVE  items'[i] < items'[j]
            <4>1. PICK m \in {i, i + 1} :
                    m \in 1..Len(items) /\ items'[i] = items[m] /\ (m = i <=> i < k)
                BY <1>6
            <4>2. PICK l \in {j, j + 1} :
                    l \in 1..Len(items) /\ items'[j] = items[l] /\ (l = j <=> j < k)
                BY <1>6
            <4>3. m < l
                BY <1>4, <3>1, <4>1, <4>2
            <4>4. QED
                BY <1>4, <2>1, <4>1, <4>2, <4>3 DEF Increasing
        <3>2. QED
            BY <1>1, <3>1 DEF Increasing
    <2>5. QED
        BY <1>1, <2>2, <2>3, <2>4 DEF ListInv
<1>8. ReceivedInv'
    <2>1. /\ Increasing(listed) /\ Increasing(resources)
          /\ ToSet(listed) \union ToSet(resources) \subseteq FirstItem..created
          /\ pc # "end" => /\ Precedes(listed, items, Start)
                           /\ Precedes(resources, items, Passed)
                           /\ Precedes(listed, resources, 0)
        BY DEF OrderInv, ReceivedInv
    <2>2. \A s, n : n \in Nat /\ Precedes(s, items, n) => Precedes(s, items', n)
        <3>1. ASSUME NEW s, NEW n \in Nat, Precedes(s, items, n), NEW x \in ToSet(s),
                     NEW j \in 1..Len(items) - 1, j > n
              PROVE  x < items'[j]
            <4>1. PICK m \in {j, j + 1} : m \in 1..Len(items) /\ items'[j] = items[m]
                BY <1>6
            <4>2. m > n
                BY <1>4, <3>1, <4>1
            <4>3. QED
                BY <1>4, <3>1, <4>1, <4>2 DEF Precedes
        <3>2. QED
            BY <1>1, <3>1 DEF Precedes
    <2>3. pc # "end" => Precedes(listed, items', Start) /\ Precedes(resources, items', Passed)
        BY <1>4, <2>1, <2>2
    <2>4. QED
        BY <1>2, <1>3, <2>1, <2>3 DEF ReceivedInv
<1>9. QED
    BY <1>5, <1>7, <1>8

\* What the call has collected with this turn.
Collected == resources \o Taken

\* With this turn the call has collected items in order, behind all that the
\* client has and in front of the rest of the list.
LEMMA CollectedOrder ==
    ASSUME OrderInv, TokensFit, pc = "paging"
    PROVE  /\ Collected \in Seq(ItemType) /\ Increasing(Collected)
           /\ ToSet(Collected) = ToSet(resources) \union ToSet(Taken)
           /\ ToSet(Collected) \subseteq FirstItem..created
           /\ Precedes(Collected, items, Passed + Len(Taken))
           /\ \A x \in ToSet(listed), y \in ToSet(Collected) : x < y
<1>1. /\ Taken \in Seq(ItemType) /\ Len(Taken) \in Nat
      /\ \A i \in 1..Len(Taken) :
           Passed + i \in 1..Len(items) /\ Taken[i] = items[Passed + i]
    BY TakenNext DEF OrderInv
<1>2. /\ resources \in Seq(ItemType) /\ DOMAIN Taken = 1..Len(Taken)
      /\ DOMAIN resources = 1..Len(resources)
    BY <1>1 DEF OrderInv, TypeOK
<1>3. /\ FirstItem \in Nat /\ Start \in Nat /\ Passed \in Nat /\ Len(items) \in Nat
      /\ created \in Nat /\ removed \in Nat /\ DOMAIN items = 1..Len(items)
      /\ \A k \in 1..Len(items) : items[k] \in Nat
    BY Facts
<1>4. FirstItem <= Start + 1 /\ Start <= Passed
    BY DEF OrderInv, CallInv
<1>5. /\ Increasing(items)
      /\ \A k \in 1..Len(items) : k <= items[k] /\ items[k] <= created
    BY ListFacts
<1>6. /\ Increasing(resources) /\ ToSet(resources) \subseteq FirstItem..created
      /\ Precedes(listed, items, Start) /\ Precedes(resources, items, Passed)
      /\ Precedes(listed, resources, 0)
    BY DEF OrderInv, ReceivedInv
<1>7. Increasing(Taken)
    <2>1. ASSUME NEW i \in 1..Len(Taken), NEW j \in 1..Len(Taken), i < j
          PROVE  Taken[i] < Taken[j]
        <3>1. Passed + i < Passed + j
            BY <1>3, <2>1
        <3>2. QED
            BY <1>1, <1>3, <1>5, <3>1 DEF Increasing
    <2>2. QED
        BY <1>2, <2>1 DEF Increasing
<1>8. \A x \in ToSet(Taken) : \E i \in 1..Len(Taken) :
        x = items[Passed + i] /\ Passed + i \in 1..Len(items)
    BY <1>1, <1>2 DEF ToSet
<1>9. ToSet(Taken) \subseteq FirstItem..created
    <2>1. ASSUME NEW x \in ToSet(Taken)
          PROVE  x \in FirstItem..created
        <3>1. PICK i \in 1..Len(Taken) : x = items[Passed + i] /\ Passed + i \in 1..Len(items)
            BY <1>8
        <3>2. x \in Nat /\ Passed + i <= x /\ x <= created
            BY <1>3, <1>5, <3>1
        <3>3. QED
            BY <1>1, <1>3, <1>4, <3>2
    <2>2. QED
        BY <2>1
<1>10. Precedes(resources, Taken, 0)
    <2>1. ASSUME NEW x \in ToSet(resources), NEW j \in 1..Len(Taken)
          PROVE  x < Taken[j]
        <3>1. Passed + j > Passed
            BY <1>3
        <3>2. QED
            BY <1>1, <1>3, <1>6, <3>1 DEF Precedes
    <2>2. QED
        BY <1>2, <2>1 DEF Precedes
<1>11. /\ Collected \in Seq(ItemType) /\ Increasing(Collected)
       /\ ToSet(Collected) = ToSet(resources) \union ToSet(Taken)
    BY <1>1, <1>2, <1>6, <1>7, <1>10, Joined DEF Collected
<1>12. Precedes(Collected, items, Passed + Len(Taken))
    <2>1. ASSUME NEW x \in ToSet(resources) \union ToSet(Taken),
                 NEW j \in 1..Len(items), j > Passed + Len(Taken)
          PROVE  x < items[j]
        <3>1. CASE x \in ToSet(resources)
            <4>1. j > Passed
                BY <1>1, <1>3, <2>1
            <4>2. QED
                BY <1>3, <1>6, <3>1, <4>1 DEF Precedes
        <3>2. CASE x \in ToSet(Taken)
            <4>1. PICK i \in 1..Len(Taken) : x = items[Passed + i] /\ Passed + i \in 1..Len(items)
                BY <1>8, <3>2
            <4>2. Passed + i < j
                BY <1>1, <1>3, <2>1
            <4>3. QED
                BY <1>3, <1>5, <4>1, <4>2 DEF Increasing
        <3>3. QED
            BY <3>1, <3>2
    <2>2. QED
        BY <1>3, <1>11, <2>1 DEF Precedes
<1>13. \A x \in ToSet(listed), y \in ToSet(resources) \union ToSet(Taken) : x < y
    <2>1. ASSUME NEW x \in ToSet(listed), NEW y \in ToSet(resources)
          PROVE  x < y
        <3>1. PICK j \in DOMAIN resources : y = resources[j]
            BY DEF ToSet
        <3>2. j > 0
            BY <1>2, <3>1
        <3>3. QED
            BY <1>6, <3>1, <3>2 DEF Precedes
    <2>2. ASSUME NEW x \in ToSet(listed), NEW y \in ToSet(Taken)
          PROVE  x < y
        <3>1. PICK i \in 1..Len(Taken) : y = items[Passed + i] /\ Passed + i \in 1..Len(items)
            BY <1>8
        <3>2. Passed + i > Start
            BY <1>3, <1>4
        <3>3. QED
            BY <1>3, <1>6, <3>1, <3>2 DEF Precedes
    <2>3. QED
        BY <2>1, <2>2
<1>14. ToSet(Collected) \subseteq FirstItem..created
    BY <1>6, <1>9, <1>11
<1>15. QED
    BY <1>11, <1>12, <1>13, <1>14

\* If all items of s are less than those of q, s precedes q.
LEMMA AllBefore ==
    ASSUME NEW s, NEW q, \A x \in ToSet(s), y \in ToSet(q) : x < y
    PROVE  Precedes(s, q, 0)
BY DEF Precedes, ToSet

\* A turn that goes on stands behind what it has taken.
LEMMA GoOnOrder ==
    ASSUME OrderInv, TokensFit, pc = "paging", UNCHANGED <<apiVars, listing>>, GoesOn
    PROVE  /\ ListInv' /\ CallInv' /\ ReceivedInv' /\ Start' = Start
           /\ Passed' = Passed + Len(Taken)
<1>1. /\ UNCHANGED <<items, created, removed, listing, token, pc, listed>>
      /\ resources' = Collected /\ remainingEntries' = remainingEntries - Len(Taken)
      /\ skip' = 0 /\ page' = page + 1
    BY DEF GoesOn, apiVars, clientVars, Collected
<1>2. UNCHANGED <<MaxEntries, PerPage, FirstItem>>
    BY <1>1 DEF MaxEntries, PerPage, FirstItem
<1>3. Start' = Start
    BY <1>1, <1>2 DEF Start
<1>4. /\ Len(Taken) \in Nat /\ MaxEntries \in Nat /\ PerPage \in Nat \ {0} /\ page \in Nat \ {0}
      /\ remainingEntries \in Int /\ Start \in Nat /\ Passed \in Nat
      /\ MaxEntries > 0 => Len(Taken) <= remainingEntries
      /\ Taken # Wanted => MaxEntries > 0 /\ Len(Taken) = remainingEntries
      /\ Taken = Wanted /\ ~IsLastPage(page) => Passed + Len(Taken) = page * PerPage
    BY TakenNext, Facts DEF OrderInv, TypeOK, CallInv
<1>5. Passed + Len(Taken) = page * PerPage
    BY <1>4 DEF GoesOn
<1>6. Passed' = Passed + Len(Taken)
    <2>1. Passed' = ((page + 1) - 1) * PerPage + Before(0)
        BY <1>1, <1>2 DEF Passed
    <2>2. (page + 1) - 1 = page /\ Before(0) = 0 /\ page * PerPage \in Nat
        BY <1>4 DEF Before
    <2>3. Passed' = page * PerPage + 0
        BY <2>1, <2>2, Zenon
    <2>4. QED
        BY <1>4, <1>5, <2>3
<1>7. ListInv'
    BY <1>1 DEF OrderInv, ListInv, Increasing
<1>8. CallInv'
    <2>1. /\ Start <= Passed /\ FirstItem <= Start + 1
          /\ MaxEntries > 0 => Passed + remainingEntries = Start + MaxEntries
          /\ MaxEntries = 0 => token = listing.token
        BY DEF OrderInv, CallInv
    <2>2. Start' <= Passed' /\ page' >= 1 /\ skip' \in 0..PerPage' /\ skip' = 0
        BY <1>1, <1>2, <1>3, <1>4, <1>6, <2>1
    <2>3. MaxEntries > 0 => /\ remainingEntries' >= 1
                            /\ Passed' + remainingEntries' = Start' + MaxEntries
        BY <1>1, <1>3, <1>4, <1>6, <2>1 DEF GoesOn
    <2>4. QED
        BY <1>1, <1>2, <1>3, <2>1, <2>2, <2>3 DEF CallInv
<1>9. ReceivedInv'
    <2>1. /\ Increasing(listed) /\ ToSet(listed) \subseteq FirstItem..created
          /\ Precedes(listed, items, Start)
        BY DEF OrderInv, ReceivedInv
    <2>2. /\ Increasing(Collected) /\ ToSet(Collected) \subseteq FirstItem..created
          /\ Precedes(Collected, items, Passed + Len(Taken)) /\ Precedes(listed, Collected, 0)
        BY CollectedOrder, AllBefore
    <2> HIDE DEF Collected
    <2>3. QED
        BY <1>1, <1>2, <1>3, <1>6, <2>1, <2>2 DEF ReceivedInv
<1>10. QED
    BY <1>3, <1>6, <1>7, <1>8, <1>9

\* How far the client's call starts behind the item its token names.
Over == Overshoot(token, MaxEntries)

\* A call that returns a next token has returned MaxEntries items, and the next
\* call starts behind them, or one item later if only its token overshoots.
LEMMA MoreFromNext ==
    ASSUME OrderInv, TokensFit, pc = "paging", UNCHANGED <<apiVars, listing>>, Returns, HasMore
    PROVE  /\ MaxEntries > 0 /\ Start' \in Nat /\ Passed + Len(Taken) = Start + MaxEntries
           /\ Start + MaxEntries <= Start' /\ Passed' = Start'
           /\ Over \in {0, 1} /\ Over' \in {0, 1} /\ Over <= Over'
           /\ Start' + Over = Start + MaxEntries + Over'
<1>1. /\ UNCHANGED <<MaxEntries, PerPage>>
      /\ token' = NextToken(token, MaxEntries) /\ pc' = "idle"
    BY DEF Returns, MaxEntries, PerPage
<1>2. /\ Len(Taken) \in Nat /\ MaxEntries \in Nat /\ token \in Nat
      /\ Taken # Wanted => MaxEntries > 0 /\ Len(Taken) = remainingEntries
    BY TakenNext, Facts DEF OrderInv
<1>3. MaxEntries > 0 /\ Len(Taken) = remainingEntries
    BY <1>2 DEF Returns, HasMore
<1>4. Passed + remainingEntries = Start + MaxEntries
    BY <1>3 DEF OrderInv, CallInv
<1>5. PerPage = MaxEntries /\ MaxEntries \in Nat \ {0}
    BY <1>2, <1>3, Facts, FitSizes
<1>6. /\ Start = StartOf(token, MaxEntries, MaxEntries)
      /\ Start' = StartOf(NextToken(token, MaxEntries), MaxEntries, MaxEntries)
    BY <1>1, <1>5 DEF Start
<1>7. /\ Over = Overshoot(token, MaxEntries)
      /\ Over' = Overshoot(NextToken(token, MaxEntries), MaxEntries)
    BY <1>1 DEF Over
<1>8. /\ Over \in {0, 1} /\ Over' \in {0, 1} /\ Over <= Over'
      /\ Start' + Over = Start + MaxEntries + Over' /\ Start \in Nat /\ Start' \in Nat
    BY <1>2, <1>5, <1>6, <1>7, StartOfNext, StartOfToken
<1>9. Start + MaxEntries <= Start'
    BY <1>2, <1>8
<1>10. Passed' = Start'
    BY <1>1 DEF Passed
<1>11. QED
    BY <1>3, <1>4, <1>8, <1>9, <1>10

\* A call that returns gives the client the next items, in order.
LEMMA ReturnOrder ==
    ASSUME OrderInv, TokensFit, pc = "paging", UNCHANGED <<apiVars, listing>>, Returns
    PROVE  ListInv' /\ CallInv' /\ ReceivedInv'
<1> DEFINE e == Entries(Collected)
<1>1. /\ UNCHANGED <<items, created, removed, listing>> /\ resources' = << >>
      /\ listed' = listed \o e /\ pc' = IF HasMore THEN "idle" ELSE "end"
    BY DEF Returns, EndCall, apiVars, Collected
<1>2. UNCHANGED <<MaxEntries, PerPage, FirstItem>>
    BY <1>1 DEF MaxEntries, PerPage, FirstItem
<1>3. /\ Collected \in Seq(ItemType) /\ Increasing(Collected)
      /\ ToSet(Collected) \subseteq FirstItem..created
      /\ Precedes(Collected, items, Passed + Len(Taken))
      /\ \A x \in ToSet(listed), y \in ToSet(Collected) : x < y
    BY CollectedOrder
<1>4. e \in Seq(ItemType) /\ ToSet(e) \subseteq ToSet(Collected) /\ Increasing(e)
    BY <1>3, EntriesKept, Facts
<1>5. /\ Increasing(listed) /\ ToSet(listed) \subseteq FirstItem..created
      /\ Precedes(listed, items, Start) /\ listed \in Seq(ItemType)
    BY DEF OrderInv, ReceivedInv, TypeOK
<1> HIDE DEF e
<1>6. Precedes(listed, e, 0)
    BY <1>3, <1>4, AllBefore
<1>7. Increasing(listed') /\ ToSet(listed') = ToSet(listed) \union ToSet(e)
    BY <1>1, <1>4, <1>5, <1>6, Joined
<1>8. ToSet(listed') \subseteq FirstItem'..created'
    BY <1>1, <1>2, <1>3, <1>4, <1>5, <1>7
<1>9. ListInv'
    BY <1>1 DEF OrderInv, ListInv, Increasing
<1>10. CASE HasMore
    <2>1. /\ MaxEntries > 0 /\ Passed + Len(Taken) = Start + MaxEntries
          /\ Start + MaxEntries <= Start' /\ Start' \in Nat /\ Start \in Nat /\ MaxEntries \in Nat
        BY <1>10, MoreFromNext, Facts
    <2>2. Precedes(listed', items, Start')
        <3>1. ASSUME NEW x \in ToSet(listed) \union ToSet(e), NEW j \in DOMAIN items, j > Start'
              PROVE  x < items[j]
            <4>1. j \in Nat
                BY Facts
            <4>2. j > Start /\ j > Passed + Len(Taken)
                BY <2>1, <3>1, <4>1
            <4>3. QED
                BY <1>3, <1>4, <1>5, <3>1, <4>2 DEF Precedes
        <3>2. QED
            BY <1>7, <3>1 DEF Precedes
    <2>3. FirstItem' <= Start' + 1
        <3>1. FirstItem <= Start + 1 /\ FirstItem \in Nat
            BY Facts DEF OrderInv, CallInv
        <3>2. FirstItem' = FirstItem
            BY <1>2
        <3>3. Start <= Start' /\ Start' \in Nat /\ Start \in Nat
            BY <2>1
        <3>4. FirstItem <= Start' + 1
            <4>1. \A a, b, c \in Nat : a <= b + 1 /\ b <= c => a <= c + 1
                OBVIOUS
            <4>2. QED
                BY <3>1, <3>3, <4>1
        <3>5. QED
            BY <3>2, <3>4, Zenon
    <2>4. CallInv'
        BY <1>1, <1>2, <1>10, <2>1, <2>3 DEF CallInv
    <2>5. ReceivedInv'
        BY <1>1, <1>7, <1>8, <2>2, EmptyFacts DEF ReceivedInv
    <2>6. QED
        BY <1>9, <2>4, <2>5
<1>11. CASE ~HasMore
    <2>1. CallInv'
        BY <1>1, <1>11 DEF CallInv
    <2>2. ReceivedInv'
        BY <1>1, <1>7, <1>8, <1>11, EmptyFacts DEF ReceivedInv
    <2>3. QED
        BY <1>9, <2>1, <2>2
<1>12. QED
    BY <1>10, <1>11

\* Every step keeps the order.
LEMMA OrderStep ==
    ASSUME OrderInv, TokensFit, [Next]_vars
    PROVE  OrderInv'
<1>1. TypeOK'
    BY Facts, TypeStep DEF OrderInv
<1>2. CASE Begin
    BY <1>1, <1>2, BeginOrder DEF OrderInv
<1>3. CASE FetchPage
    <2>1. pc = "paging" /\ UNCHANGED <<apiVars, listing>> /\ (GoesOn \/ Returns)
        BY <1>3, Facts, FetchTurns DEF OrderInv
    <2>2. QED
        BY <1>1, <2>1, GoOnOrder, ReturnOrder DEF OrderInv
<1>4. CASE FetchFails
    BY <1>1, <1>4, FailOrder DEF OrderInv
<1>5. CASE Create
    BY <1>1, <1>5, CreateOrder DEF OrderInv
<1>6. CASE Delete
    BY <1>1, <1>6, DeleteOrder DEF OrderInv
<1>7. CASE UNCHANGED vars
    <2>1. /\ UNCHANGED <<apiVars, callVars, clientVars>>
          /\ UNCHANGED <<items, created, removed, resources, listed, pc>>
        BY <1>7 DEF vars, apiVars, callVars, clientVars
    <2>2. UNCHANGED <<listing, MaxEntries, PerPage, FirstItem, Start, Passed>>
        BY <2>1, SamePositions
    <2>3. CallInv'
        BY <2>1, SameCall DEF OrderInv
    <2>4. ListInv'
        BY <2>1 DEF OrderInv, ListInv, Increasing
    <2>5. ReceivedInv'
        BY <2>1, <2>2 DEF OrderInv, ReceivedInv, Increasing, Precedes
    <2>6. QED
        BY <1>1, <2>3, <2>4, <2>5 DEF OrderInv
<1>8. QED
    BY <1>2, <1>3, <1>4, <1>5, <1>6, <1>7 DEF Next, Finished

\* Initially the client has nothing and its token is at most one item behind
\* where the call starts.
LEMMA OrderInit ==
    ASSUME Init, TokensFit
    PROVE  OrderInv /\ Passed = Start /\ token = listing.token
<1>1. TypeOK /\ LoopInv
    BY TypeInit
<1>2. /\ created \in Nat /\ removed = 0 /\ items = [k \in 1..created |-> k] /\ pc = "idle"
      /\ token = listing.token /\ resources = << >> /\ listed = << >>
    BY <1>1, PagingAssumption DEF Init, TypeOK
<1>3. ListInv
    <2>1. DOMAIN items = 1..created /\ Len(items) = created /\ \A k \in 1..created : items[k] = k
        BY <1>2
    <2>2. QED
        BY <1>2, <2>1 DEF ListInv, Increasing
<1>4. /\ Start \in Nat /\ token \in Nat /\ MaxEntries \in Nat
      /\ MaxEntries > 0 => Start = StartOf(token, MaxEntries, MaxEntries)
      /\ MaxEntries = 0 => Start = Before(token)
    BY <1>1, <1>2, Positions, Sizes DEF TypeOK
<1>5. FirstItem <= Start + 1
    <2>1. token <= Start + 1
        <3>1. CASE MaxEntries = 0
            BY <1>4, <3>1 DEF Before
        <3>2. CASE MaxEntries # 0
            <4>1. MaxEntries \in Nat \ {0} /\ Start = StartOf(token, MaxEntries, MaxEntries)
                BY <1>4, <3>2
            <4>2. QED
                BY <1>4, <4>1, StartOfToken
        <3>3. QED
            BY <3>1, <3>2
    <2>2. QED
        BY <1>2, <1>4, <2>1 DEF FirstItem
<1>6. CallInv
    BY <1>2, <1>5 DEF CallInv
<1>7. ReceivedInv
    BY <1>2, EmptyFacts DEF ReceivedInv
<1>8. QED
    BY <1>1, <1>2, <1>3, <1>6, <1>7 DEF OrderInv, Passed

\* The invariant implies that items are listed in order and once.
LEMMA OrderSuffices ==
    ASSUME OrderInv
    PROVE  InOrderOnce
<1>1. /\ listed \in Seq(ItemType) /\ DOMAIN listed = 1..Len(listed) /\ Len(listed) \in Nat
      /\ FirstItem \in Nat /\ created \in Int
    BY Sizes DEF OrderInv, TypeOK
<1>2. Increasing(listed) /\ ToSet(listed) \subseteq FirstItem..created
    BY DEF OrderInv, ReceivedInv
<1>3. ASSUME NEW k \in 1..Len(listed)
      PROVE  listed[k] >= FirstItem /\ (k > 1 => listed[k - 1] < listed[k])
    <2>1. listed[k] \in FirstItem..created
        BY <1>1, <1>2 DEF ToSet
    <2>2. k > 1 => k - 1 \in DOMAIN listed /\ k \in DOMAIN listed /\ k - 1 < k
        BY <1>1
    <2>3. QED
        BY <1>1, <1>2, <2>1, <2>2 DEF Increasing
<1>4. QED
    BY <1>3 DEF InOrderOnce

\* InOrderOnce for every list, page size and bound: whatever fails, is created
\* or is removed between and during the calls of listResources, the client gets
\* no item that precedes its token, none twice, and all in order, if it counts in
\* pages the API grants.
THEOREM ListsInOrderOnce ==
    ASSUME TokensFit
    PROVE  Spec => []InOrderOnce
<1>1. Init => OrderInv
    BY OrderInit
<1>2. OrderInv /\ [Next]_vars => OrderInv'
    BY OrderStep
<1>3. OrderInv => InOrderOnce
    BY OrderSuffices
<1>4. QED
    BY <1>1, <1>2, <1>3, PTL DEF Spec

-----------------------------------------------------------------------------
(* Losses *)

\* The lost items as a function of the list and of the client.
Gone(list, c, r, first, filter, n, got) ==
    {v \in first..n + r :
        /\ v \notin got
        /\ filter => v \in Matching
        /\ v > c \/ \E k \in DOMAIN list : k <= n /\ list[k] = v}

\* A part of a finite set has no more members.
LEMMA FewerOf ==
    ASSUME NEW A, NEW B, NEW r \in Nat, IsFiniteSet(B), A \subseteq B, Cardinality(B) <= r
    PROVE  Cardinality(A) <= r
<1>1. IsFiniteSet(A) /\ Cardinality(A) <= Cardinality(B)
    BY FS_Subset
<1>2. Cardinality(A) \in Nat /\ Cardinality(B) \in Nat
    BY <1>1, FS_CardinalityType
<1>3. QED
    BY <1>1, <1>2

\* A part of a finite set and one more has at most one more member.
LEMMA OneMore ==
    ASSUME NEW A, NEW B, NEW x, NEW r \in Nat, IsFiniteSet(B), A \subseteq {x} \union B,
           Cardinality(B) <= r
    PROVE  Cardinality(A) <= r + 1
<1>1. IsFiniteSet(B \union {x})
      /\ Cardinality(B \union {x}) = IF x \in B THEN Cardinality(B) ELSE Cardinality(B) + 1
    BY FS_AddElement
<1>2. Cardinality(B) \in Nat
    BY FS_CardinalityType
<1>3. Cardinality(B \union {x}) <= r + 1
    BY <1>1, <1>2
<1>4. r + 1 \in Nat
    OBVIOUS
<1>5. QED
    <2>1. A \subseteq B \union {x}
        OBVIOUS
    <2>2. QED
        BY <1>1, <1>3, <1>4, <2>1, FewerOf, Zenon

\* Finitely many items are lost.
LEMMA GoneFinite ==
    ASSUME NEW list, NEW c, NEW r \in Nat, NEW first \in Nat, NEW filter, NEW n \in Nat, NEW got
    PROVE  IsFiniteSet(Gone(list, c, r, first, filter, n, got))
<1>1. n + r \in Int /\ first \in Int
    OBVIOUS
<1>2. IsFiniteSet(first..n + r)
    BY <1>1, FS_Interval
<1>3. Gone(list, c, r, first, filter, n, got) \subseteq first..n + r
    BY DEF Gone
<1>4. QED
    BY <1>2, <1>3, FS_Subset

\* A new item is lost only if it already counted as lost.
LEMMA CreateLosesNone ==
    ASSUME OrderInv, TokensFit, Create, NEW n \in Nat, NEW got
    PROVE  Gone(items', created', removed', FirstItem, listing.filter, n, got)
             \subseteq Gone(items, created, removed, FirstItem, listing.filter, n, got)
<1>1. /\ created' = created + 1 /\ removed' = removed /\ DOMAIN items' = 1..Len(items) + 1
      /\ items'[Len(items) + 1] = created + 1
      /\ \A i \in 1..Len(items) : items'[i] = items[i]
    BY Created
<1>2. /\ created \in Nat /\ removed \in Nat /\ Len(items) \in Nat /\ DOMAIN items = 1..Len(items)
      /\ FirstItem \in Nat
    BY Facts
<1>3. ASSUME NEW v \in FirstItem..n + removed,
             v > created + 1 \/ \E k \in 1..Len(items) + 1 : k <= n /\ items'[k] = v
      PROVE  v > created \/ \E k \in DOMAIN items : k <= n /\ items[k] = v
    <2>1. CASE v > created + 1
        BY <1>2, <2>1
    <2>2. CASE \E k \in 1..Len(items) + 1 : k <= n /\ items'[k] = v
        <3>1. PICK k \in 1..Len(items) + 1 : k <= n /\ items'[k] = v
            BY <2>2
        <3>2. CASE k = Len(items) + 1
            BY <1>1, <1>2, <3>1, <3>2
        <3>3. CASE k # Len(items) + 1
            <4>1. k \in 1..Len(items)
                BY <1>2, <3>3
            <4>2. QED
                BY <1>1, <1>2, <3>1, <4>1
        <3>4. QED
            BY <3>2, <3>3
    <2>3. QED
        BY <1>3, <2>1, <2>2
<1>4. QED
    BY <1>1, <1>3 DEF Gone

\* A removal loses at most the item that moves in front of position n, or the
\* future item that will.
LEMMA DeleteLosesOne ==
    ASSUME OrderInv, TokensFit, Delete, NEW n \in Nat, NEW got
    PROVE  \E x : Gone(items', created', removed', FirstItem, listing.filter, n, got)
                    \subseteq {x} \union Gone(items, created, removed, FirstItem,
                                              listing.filter, n, got)
<1>1. created' = created /\ removed' = removed + 1
    BY Removed
<1>2. PICK k \in 1..Len(items) :
        /\ DOMAIN items' = 1..Len(items) - 1
        /\ \A i \in 1..Len(items) - 1 :
             items'[i] = IF i < k THEN items[i] ELSE items[i + 1]
    BY Removed
<1>3. /\ created \in Nat /\ removed \in Nat /\ Len(items) \in Nat /\ DOMAIN items = 1..Len(items)
      /\ FirstItem \in Nat /\ \A i \in 1..Len(items) : items[i] \in Nat
    BY Facts
<1>4. /\ Len(items) = created - removed
      /\ \A i \in 1..Len(items) : items[i] <= i + removed
    BY ListFacts
<1> DEFINE x == IF n + 1 <= Len(items) THEN items[n + 1] ELSE n + removed + 1
<1>5. ASSUME NEW v \in FirstItem..n + (removed + 1), v # x,
             v > created \/ \E j \in 1..Len(items) - 1 : j <= n /\ items'[j] = v
      PROVE  /\ v \in FirstItem..n + removed
             /\ v > created \/ \E j \in DOMAIN items : j <= n /\ items[j] = v
    <2>1. CASE v > created
        <3>1. CASE v = n + (removed + 1)
            <4>1. ~(n + 1 <= Len(items))
                BY <1>3, <1>4, <2>1, <3>1
            <4>2. QED
                BY <1>3, <1>5, <3>1, <4>1
        <3>2. CASE v # n + (removed + 1)
            BY <1>3, <2>1, <3>2
        <3>3. QED
            BY <3>1, <3>2
    <2>2. CASE \E j \in 1..Len(items) - 1 : j <= n /\ items'[j] = v
        <3>1. PICK j \in 1..Len(items) - 1 : j <= n /\ items'[j] = v
            BY <2>2
        <3>2. CASE j < k
            <4>1. j \in 1..Len(items) /\ items[j] = v /\ v <= j + removed
                BY <1>2, <1>3, <1>4, <3>1, <3>2
            <4>2. QED
                BY <1>3, <3>1, <4>1
        <3>3. CASE ~(j < k)
            <4>1. j + 1 \in 1..Len(items) /\ items[j + 1] = v /\ v <= (j + 1) + removed
                BY <1>2, <1>3, <1>4, <3>1, <3>3
            <4>2. CASE j = n
                BY <1>3, <1>5, <4>1, <4>2
            <4>3. CASE j # n
                <5>1. j + 1 <= n /\ v <= n + removed
                    BY <1>3, <3>1, <4>1, <4>3
                <5>2. QED
                    BY <1>3, <4>1, <5>1
            <4>4. QED
                BY <4>2, <4>3
        <3>4. QED
            BY <3>2, <3>3
    <2>3. QED
        BY <1>5, <2>1, <2>2
<1> HIDE DEF x
<1>6. Gone(items', created', removed', FirstItem, listing.filter, n, got)
        \subseteq {x} \union Gone(items, created, removed, FirstItem, listing.filter, n, got)
    BY <1>1, <1>2, <1>5 DEF Gone
<1>7. QED
    BY <1>6

\* What is lost now, for a client that has got so much.
GoneNow(n, got) == Gone(items, created, removed, FirstItem, listing.filter, n, got)
Have == ToSet(listed) \union ToSet(resources)

\* Taking the next items of the list loses none of them.
LEMMA TakingLosesNone ==
    ASSUME OrderInv, TokensFit, pc = "paging", NEW got, ToSet(listed) \subseteq got,
           \A x \in ToSet(Collected) : (listing.filter => x \in Matching) => x \in got
    PROVE  GoneNow(Passed + Len(Taken), got) \subseteq GoneNow(Passed, Have)
<1>1. /\ Len(Taken) \in Nat /\ DOMAIN Taken = 1..Len(Taken)
      /\ \A i \in 1..Len(Taken) :
           Passed + i \in 1..Len(items) /\ Taken[i] = items[Passed + i]
    BY TakenNext DEF OrderInv
<1>2. /\ created \in Nat /\ removed \in Nat /\ Len(items) \in Nat /\ DOMAIN items = 1..Len(items)
      /\ FirstItem \in Nat /\ Passed \in Nat /\ \A i \in 1..Len(items) : items[i] \in Nat
    BY Facts
<1>3. /\ Len(items) = created - removed
      /\ \A i \in 1..Len(items) : items[i] <= i + removed
    BY ListFacts
<1>4. ToSet(Collected) = ToSet(resources) \union ToSet(Taken)
    BY CollectedOrder
<1>5. \A i \in 1..Len(Taken) : items[Passed + i] \in ToSet(Collected)
    BY <1>1, <1>4 DEF ToSet
<1>6. ASSUME NEW v \in FirstItem..(Passed + Len(Taken)) + removed, v \notin got,
             listing.filter => v \in Matching,
             v > created \/ \E k \in DOMAIN items : k <= Passed + Len(Taken) /\ items[k] = v
      PROVE  /\ v \in FirstItem..Passed + removed /\ v \notin Have
             /\ v > created \/ \E k \in DOMAIN items : k <= Passed /\ items[k] = v
    <2>1. v \notin Have
        BY <1>4, <1>6 DEF Have
    <2>2. CASE v > created
        <3>1. Len(Taken) = 0
            <4>1. ASSUME Len(Taken) >= 1
                  PROVE  FALSE
                <5>1. Len(Taken) \in 1..Len(Taken)
                    BY <1>1, <4>1
                <5>2. Passed + Len(Taken) \in 1..Len(items)
                    BY <1>1, <5>1
                <5>3. QED
                    BY <1>1, <1>2, <1>3, <1>6, <2>2, <5>2
            <4>2. QED
                BY <1>1, <4>1
        <3>2. QED
            BY <1>2, <2>1, <2>2, <3>1
    <2>3. CASE \E k \in DOMAIN items : k <= Passed + Len(Taken) /\ items[k] = v
        <3>1. PICK k \in 1..Len(items) : k <= Passed + Len(Taken) /\ items[k] = v
            BY <1>2, <2>3
        <3>2. CASE k <= Passed
            <4>1. v <= k + removed /\ v \in Nat
                BY <1>2, <1>3, <3>1
            <4>2. v <= Passed + removed
                BY <1>2, <3>2, <4>1
            <4>3. QED
                BY <1>2, <2>1, <3>1, <3>2, <4>1, <4>2
        <3>3. CASE ~(k <= Passed)
            <4>1. k - Passed \in 1..Len(Taken) /\ Passed + (k - Passed) = k
                BY <1>1, <1>2, <3>1, <3>3
            <4>2. v \in ToSet(Collected)
                BY <1>5, <3>1, <4>1
            <4>3. QED
                BY <1>6, <4>2
        <3>4. QED
            BY <3>2, <3>3
    <2>4. QED
        BY <1>6, <2>2, <2>3
<1>7. QED
    BY <1>6 DEF GoneNow, Gone

\* Going on one item later loses at most that item, or the future item that will
\* be at its position.
LEMMA OvershootLosesOne ==
    ASSUME OrderInv, TokensFit, NEW n \in Nat, NEW got
    PROVE  \E x : GoneNow(n + 1, got) \subseteq {x} \union GoneNow(n, got)
<1>1. /\ created \in Nat /\ removed \in Nat /\ Len(items) \in Nat /\ DOMAIN items = 1..Len(items)
      /\ FirstItem \in Nat /\ \A i \in 1..Len(items) : items[i] \in Nat
    BY Facts
<1>2. /\ Len(items) = created - removed
      /\ \A i \in 1..Len(items) : items[i] <= i + removed
    BY ListFacts
<1> DEFINE x == IF n + 1 <= Len(items) THEN items[n + 1] ELSE n + removed + 1
<1>3. ASSUME NEW v \in FirstItem..(n + 1) + removed, v # x,
             v > created \/ \E k \in DOMAIN items : k <= n + 1 /\ items[k] = v
      PROVE  /\ v \in FirstItem..n + removed
             /\ v > created \/ \E k \in DOMAIN items : k <= n /\ items[k] = v
    <2>1. CASE v > created
        <3>1. v # n + removed + 1
            BY <1>1, <1>2, <1>3, <2>1
        <3>2. QED
            BY <1>1, <2>1, <3>1
    <2>2. CASE \E k \in DOMAIN items : k <= n + 1 /\ items[k] = v
        <3>1. PICK k \in DOMAIN items : k <= n + 1 /\ items[k] = v
            BY <2>2
        <3>2. k \in 1..Len(items) /\ k # n + 1
            BY <1>1, <1>3, <3>1
        <3>3. k <= n /\ k \in Nat
            BY <1>1, <3>1, <3>2
        <3>4. v <= k + removed
            BY <1>2, <3>1, <3>2
        <3>5. QED
            BY <1>1, <3>1, <3>3, <3>4
    <2>3. QED
        BY <1>3, <2>1, <2>2
<1> HIDE DEF x
<1>4. GoneNow(n + 1, got) \subseteq {x} \union GoneNow(n, got)
    BY <1>3 DEF GoneNow, Gone
<1>5. QED
    BY <1>4

\* The invariant on losses.
LostNow ==
    /\ Cardinality(GoneNow(Start, ToSet(listed))) <= removed + Over
    /\ Cardinality(GoneNow(Passed, Have)) <= removed + Over

\* Every step that does not end the listing loses at most one item if it removes
\* one or makes the tokens overshoot, and none otherwise.
LEMMA LostStep ==
    ASSUME OrderInv, TokensFit, pc # "end", LostNow, [Next]_vars, pc' # "end"
    PROVE  LostNow'
<1>1. /\ Over \in {0, 1} /\ removed + Over \in Nat
      /\ token' = token => Over' = Over
    <2>1. removed \in Nat
        BY Facts
    <2>2. Over \in {0, 1}
        BY DEF Over, Overshoot
    <2>3. token' = token => Over' = Over
        BY SameListing DEF Over
    <2>4. QED
        BY <2>1, <2>2, <2>3
<1>2. /\ created \in Nat /\ removed \in Nat /\ FirstItem \in Nat /\ Start \in Nat /\ Passed \in Nat
      /\ MaxEntries \in Nat /\ token \in Nat /\ listing \in Listings
    BY Facts
<1>3. UNCHANGED <<listing, MaxEntries, PerPage, FirstItem>>
    BY SameListing
<1>4. IsFiniteSet(GoneNow(Start, ToSet(listed))) /\ IsFiniteSet(GoneNow(Passed, Have))
    BY <1>2, GoneFinite DEF GoneNow
<1>5. /\ GoneNow(Start, ToSet(listed))'
           = Gone(items', created', removed', FirstItem, listing.filter, Start', ToSet(listed'))
      /\ GoneNow(Passed, Have)'
           = Gone(items', created', removed', FirstItem, listing.filter, Passed',
                  ToSet(listed') \union ToSet(resources'))
    BY <1>3 DEF GoneNow, Have
<1>6. ASSUME UNCHANGED <<items, created, removed, token, listed>>, Start' = Start,
             Passed' = Start, ToSet(resources') = {}
      PROVE  LostNow'
    <2>1. GoneNow(Start, ToSet(listed))' = GoneNow(Start, ToSet(listed))
        BY <1>5, <1>6 DEF GoneNow
    <2>2. ToSet(listed') \union ToSet(resources') = ToSet(listed)
        BY <1>6
    <2>3. GoneNow(Passed, Have)' = GoneNow(Start, ToSet(listed))
        BY <1>5, <1>6, <2>2 DEF GoneNow
    <2>4. QED
        BY <1>1, <1>6, <2>1, <2>3 DEF LostNow
<1>7. CASE Begin
    <2>1. UNCHANGED <<items, created, removed, token, listed>> /\ resources' = << >>
        BY <1>7 DEF Begin, apiVars, OrderInv, CallInv
    <2>2. Start' = Start /\ Passed' = Start
        BY <1>7, BeginOrder
    <2>3. QED
        BY <1>6, <2>1, <2>2, EmptyFacts
<1>8. CASE FetchFails
    <2>1. UNCHANGED <<items, created, removed, token, listed>> /\ resources' = << >>
        BY <1>8 DEF FetchFails, EndCall, apiVars
    <2>2. Start' = Start /\ Passed' = Start
        BY <1>8, FailOrder
    <2>3. QED
        BY <1>6, <2>1, <2>2, EmptyFacts
<1>9. CASE FetchPage
    <2>1. pc = "paging" /\ UNCHANGED <<apiVars, listing>> /\ (GoesOn \/ Returns)
        BY <1>9, Facts, FetchTurns DEF OrderInv
    <2>2. UNCHANGED <<items, created, removed>>
        BY <2>1 DEF apiVars
    <2>3. ToSet(Collected) = ToSet(resources) \union ToSet(Taken) /\ Collected \in Seq(ItemType)
        BY <2>1, CollectedOrder
    <2>4. CASE GoesOn
        <3>1. Start' = Start /\ Passed' = Passed + Len(Taken)
            BY <2>1, <2>4, GoOnOrder
        <3>2. UNCHANGED <<token, listed>> /\ resources' = Collected
            BY <2>4 DEF GoesOn, clientVars, Collected
        <3> DEFINE got == ToSet(listed) \union ToSet(Collected)
        <3>3. GoneNow(Passed + Len(Taken), got) \subseteq GoneNow(Passed, Have)
            BY <2>1, TakingLosesNone
        <3>4. GoneNow(Passed, Have)' = GoneNow(Passed + Len(Taken), got)
            BY <1>5, <2>2, <3>1, <3>2 DEF GoneNow
        <3>5. GoneNow(Start, ToSet(listed))' = GoneNow(Start, ToSet(listed))
            BY <1>5, <2>2, <3>1, <3>2 DEF GoneNow
        <3> HIDE DEF got
        <3>6. Cardinality(GoneNow(Passed + Len(Taken), got)) <= removed + Over
            BY <1>1, <1>4, <3>3, FewerOf DEF LostNow
        <3>7. QED
            BY <1>1, <2>2, <3>2, <3>4, <3>5, <3>6 DEF LostNow
    <2>5. CASE Returns
        <3>1. HasMore
            BY <2>5 DEF Returns
        <3>2. /\ Passed + Len(Taken) = Start + MaxEntries /\ Passed' = Start' /\ Start' \in Nat
              /\ Over \in {0, 1} /\ Over' \in {0, 1} /\ Over <= Over'
              /\ Start' + Over = Start + MaxEntries + Over'
            BY <2>1, <2>5, <3>1, MoreFromNext
        <3> DEFINE n == Passed + Len(Taken)
        <3>3. /\ n \in Nat /\ Passed' = Start' /\ n = Start + MaxEntries
              /\ \/ Start' = n /\ Over' = Over
                 \/ Start' = n + 1 /\ Over' = Over + 1
            BY <1>2, <3>2
        <3> DEFINE e == Entries(Collected)
                   got == ToSet(listed) \union ToSet(e)
        <3>6. listed' = listed \o e /\ resources' = << >>
            BY <2>5 DEF Returns, EndCall, Collected
        <3>7. /\ e \in Seq(ItemType)
              /\ ToSet(e) = {x \in ToSet(Collected) : listing.filter => x \in Matching}
            BY <1>2, <2>3, EntriesKept
        <3>8. GoneNow(n, got) \subseteq GoneNow(Passed, Have)
            BY <2>1, <3>7, TakingLosesNone
        <3> HIDE DEF e
        <3>9. ToSet(listed') = got /\ ToSet(listed') \union ToSet(resources') = got
            <4>1. listed \in Seq(ItemType)
                BY DEF OrderInv, TypeOK
            <4>2. ToSet(listed') = got
                BY <3>6, <3>7, <4>1, Joined
            <4>3. QED
                BY <3>6, <4>2, EmptyFacts
        <3> HIDE DEF got
        <3> HIDE DEF n
        <3>10. /\ GoneNow(Start, ToSet(listed))' = GoneNow(Start', got)
               /\ GoneNow(Passed, Have)' = GoneNow(Start', got)
            BY <1>5, <2>2, <3>3, <3>9 DEF GoneNow
        <3>11. IsFiniteSet(GoneNow(n, got)) /\ Cardinality(GoneNow(n, got)) <= removed + Over
            <4>1. IsFiniteSet(GoneNow(n, got))
                BY <1>2, <3>3, GoneFinite DEF GoneNow
            <4>2. QED
                BY <1>1, <1>4, <3>8, <4>1, FewerOf DEF LostNow
        <3>12. CASE Start' = n /\ Over' = Over
            BY <2>2, <3>10, <3>11, <3>12 DEF LostNow
        <3>13. CASE Start' = n + 1 /\ Over' = Over + 1
            <4>1. PICK x : GoneNow(n + 1, got) \subseteq {x} \union GoneNow(n, got)
                BY <3>3, OvershootLosesOne
            <4>2. Cardinality(GoneNow(n + 1, got)) <= (removed + Over) + 1
                BY <1>1, <3>11, <4>1, OneMore
            <4>3. Cardinality(GoneNow(n + 1, got)) <= removed' + Over'
                BY <1>1, <1>2, <2>2, <3>13, <4>2
            <4>4. QED
                BY <3>10, <3>13, <4>3 DEF LostNow
        <3>14. QED
            BY <3>3, <3>12, <3>13
    <2>6. QED
        BY <2>1, <2>4, <2>5
<1>10. CASE UNCHANGED <<callVars, clientVars>>
    <2>1. UNCHANGED <<Start, Passed, token, listed, resources>>
        BY <1>10, SamePositions DEF callVars, clientVars
    <2>2. /\ GoneNow(Start, ToSet(listed))'
               = Gone(items', created', removed', FirstItem, listing.filter, Start, ToSet(listed))
          /\ GoneNow(Passed, Have)'
               = Gone(items', created', removed', FirstItem, listing.filter, Passed, Have)
        BY <1>5, <2>1 DEF Have
    <2>3. CASE Create
        <3>1. /\ GoneNow(Start, ToSet(listed))' \subseteq GoneNow(Start, ToSet(listed))
              /\ GoneNow(Passed, Have)' \subseteq GoneNow(Passed, Have)
            BY <1>2, <2>2, <2>3, CreateLosesNone DEF GoneNow
        <3>2. /\ Cardinality(GoneNow(Start, ToSet(listed))') <= removed + Over
              /\ Cardinality(GoneNow(Passed, Have)') <= removed + Over
            BY <1>1, <1>4, <3>1, FewerOf DEF LostNow
        <3>3. removed' = removed
            BY <2>3 DEF Create
        <3>4. QED
            BY <1>1, <2>1, <3>2, <3>3 DEF LostNow
    <2>4. CASE Delete
        <3>1. /\ \E x : GoneNow(Start, ToSet(listed))'
                         \subseteq {x} \union GoneNow(Start, ToSet(listed))
              /\ \E x : GoneNow(Passed, Have)' \subseteq {x} \union GoneNow(Passed, Have)
            BY <1>2, <2>2, <2>4, DeleteLosesOne DEF GoneNow
        <3>2. /\ Cardinality(GoneNow(Start, ToSet(listed))') <= (removed + Over) + 1
              /\ Cardinality(GoneNow(Passed, Have)') <= (removed + Over) + 1
            BY <1>1, <1>4, <3>1, OneMore DEF LostNow
        <3>3. removed' + Over' = (removed + Over) + 1
            BY <1>1, <1>2, <2>1, <2>4 DEF Delete
        <3>4. QED
            BY <3>2, <3>3 DEF LostNow
    <2>5. CASE UNCHANGED vars
        <3>1. UNCHANGED <<items, created, removed>>
            BY <2>5 DEF vars, apiVars
        <3>2. QED
            BY <1>1, <2>1, <2>2, <3>1 DEF LostNow, GoneNow
    <2>6. QED
        BY <1>7, <1>8, <1>9, <2>3, <2>4, <2>5 DEF Next, Finished
<1>11. QED
    BY <1>7, <1>8, <1>9, <1>10 DEF Next, Finished, Create, Delete, vars

\* LostNow is what LostInv says while the client is listing.
LEMMA LostForms ==
    /\ pc # "end" /\ LostInv => LostNow
    /\ (pc # "end" => LostNow) => LostInv
    /\ (pc' # "end" => LostNow') => LostInv'
<1>1. /\ Lost(Start, ToSet(listed)) = GoneNow(Start, ToSet(listed))
      /\ Lost(Passed, ToSet(listed) \union ToSet(resources)) = GoneNow(Passed, Have)
    BY DEF Lost, GoneNow, Gone, Have
<1>2. /\ Lost(Start, ToSet(listed))' = GoneNow(Start, ToSet(listed))'
      /\ Lost(Passed, ToSet(listed) \union ToSet(resources))' = GoneNow(Passed, Have)'
    BY DEF Lost, GoneNow, Gone, Have
<1>3. QED
    BY <1>1, <1>2, Zenon DEF LostInv, LostNow, Over

\* Every step keeps the invariant.
LEMMA InvStep ==
    ASSUME Inv, TokensFit, [Next]_vars
    PROVE  Inv'
<1>1. OrderInv /\ LostInv
    BY DEF Inv, OrderInv
<1>2. OrderInv'
    BY <1>1, OrderStep
<1>3. pc = "end" => pc' = "end"
    BY DEF Next, vars, Begin, FetchPage, FetchFails, Create, Delete, Finished, clientVars
<1>4. pc' # "end" => LostNow'
    BY <1>1, <1>3, LostForms, LostStep
<1>5. LostInv'
    BY <1>4, LostForms
<1>6. QED
    BY <1>2, <1>5 DEF Inv, OrderInv

\* The invariant holds initially.
LEMMA InvInit ==
    ASSUME Init, TokensFit
    PROVE  Inv
<1>1. OrderInv /\ Passed = Start /\ token = listing.token
    BY OrderInit
<1>2. /\ removed = 0 /\ listed = << >> /\ resources = << >> /\ pc = "idle"
    BY DEF Init
<1>3. /\ MaxEntries \in Nat /\ token \in Nat /\ listing \in Listings /\ Start \in Nat
      /\ MaxEntries > 0 => Start = StartOf(token, MaxEntries, MaxEntries)
      /\ MaxEntries = 0 => Start = Before(token)
    BY <1>1, <1>2, Facts, Positions DEF OrderInv
<1>4. LostNow
    <2>1. Over \in {0, 1} /\ Start = Before(token) + Over
        <3>1. CASE MaxEntries = 0
            BY <1>3, <3>1 DEF Over, Overshoot, Before
        <3>2. CASE MaxEntries # 0
            BY <1>3, <3>2, StartOfToken DEF Over
        <3>3. QED
            BY <3>1, <3>2
    <2>2. FirstItem = Before(token) + 1 /\ Before(token) \in Nat
        BY <1>1, <1>3 DEF FirstItem, Before
    <2>3. FirstItem..Start + removed \subseteq {FirstItem}
          /\ (Over = 0 => FirstItem..Start + removed = {})
        BY <1>2, <2>1, <2>2
    <2>4. /\ GoneNow(Start, ToSet(listed)) \subseteq FirstItem..Start + removed
          /\ GoneNow(Passed, Have) \subseteq FirstItem..Start + removed
        BY <1>1 DEF GoneNow, Gone
    <2>5. ASSUME NEW A, A \subseteq FirstItem..Start + removed
          PROVE  Cardinality(A) <= removed + Over
        <3>1. CASE Over = 0
            <4>1. A = {}
                BY <2>3, <2>5, <3>1
            <4>2. QED
                BY <1>2, <3>1, <4>1, FS_EmptySet
        <3>2. CASE Over = 1
            <4>1. A \subseteq {FirstItem} \union {}
                BY <2>3, <2>5
            <4>2. IsFiniteSet({}) /\ Cardinality({}) <= 0
                BY FS_EmptySet
            <4>3. Cardinality(A) <= 0 + 1
                BY <4>1, <4>2, OneMore
            <4>4. QED
                BY <1>2, <3>2, <4>3
        <3>3. QED
            BY <2>1, <3>1, <3>2
    <2>6. QED
        BY <2>4, <2>5 DEF LostNow
<1>5. LostInv
    BY <1>4, LostForms
<1>6. QED
    BY <1>1, <1>5 DEF Inv, OrderInv

\* A call that ends the listing leaves only items behind that count as lost.
LEMMA EndMisses ==
    ASSUME Inv, TokensFit, [Next]_vars, pc = "paging", pc' = "end"
    PROVE  Cardinality(Missed') <= removed + Over
<1>1. OrderInv /\ LostNow
    BY LostForms DEF Inv, OrderInv
<1>2. FetchPage
    BY DEF Next, vars, Begin, FetchPage, FetchFails, Create, Delete, Finished, clientVars
<1>3. UNCHANGED <<items, created, removed, listing>> /\ Returns
    <2>1. UNCHANGED <<apiVars, listing>> /\ (GoesOn \/ Returns)
        BY <1>1, <1>2, Facts, FetchTurns DEF OrderInv
    <2>2. ~GoesOn
        BY DEF GoesOn, clientVars
    <2>3. QED
        BY <2>1, <2>2 DEF apiVars
<1>4. Taken = Wanted /\ IsLastPage(page)
    BY <1>3 DEF Returns, HasMore
<1>5. Len(items) <= Passed + Len(Taken) /\ Len(Taken) \in Nat
    BY <1>1, <1>4, TakenNext DEF OrderInv
<1>6. /\ created \in Nat /\ removed \in Nat /\ Len(items) \in Nat /\ DOMAIN items = 1..Len(items)
      /\ FirstItem \in Nat /\ Passed \in Nat /\ listing \in Listings /\ items \in Seq(ItemType)
      /\ \A i \in 1..Len(items) : items[i] \in Nat /\ items[i] <= i + removed
    BY <1>1, Facts, ListFacts
<1> DEFINE e == Entries(Collected)
           got == ToSet(listed) \union ToSet(e)
<1>7. Collected \in Seq(ItemType) /\ listed \in Seq(ItemType) /\ listed' = listed \o e
    BY <1>1, <1>3, CollectedOrder DEF OrderInv, TypeOK, Returns, Collected
<1>8. /\ e \in Seq(ItemType)
      /\ ToSet(e) = {x \in ToSet(Collected) : listing.filter => x \in Matching}
    BY <1>6, <1>7, EntriesKept
<1>9. GoneNow(Passed + Len(Taken), got) \subseteq GoneNow(Passed, Have)
    BY <1>1, <1>8, TakingLosesNone
<1> HIDE DEF e
<1>10. ToSet(listed') = got
    BY <1>7, <1>8, Joined
<1> HIDE DEF got
<1>11. ToSet(Entries(items)) = {x \in ToSet(items) : listing.filter => x \in Matching}
    BY <1>6, EntriesKept
<1>12. Missed' = {i \in ToSet(Entries(items)) : i >= FirstItem /\ i \notin got}
    <2>1. Entries(items)' = Entries(items) /\ FirstItem' = FirstItem
        BY <1>3 DEF Entries, FirstItem
    <2>2. QED
        BY <1>10, <2>1 DEF Missed
<1>13. Missed' \subseteq GoneNow(Passed + Len(Taken), got)
    <2>1. ASSUME NEW v \in Missed'
          PROVE  v \in GoneNow(Passed + Len(Taken), got)
        <3>1. /\ v \in ToSet(items) /\ (listing.filter => v \in Matching) /\ v >= FirstItem
              /\ v \notin got
            BY <1>11, <1>12
        <3>2. PICK k \in 1..Len(items) : items[k] = v
            BY <1>6, <3>1 DEF ToSet
        <3>3. k <= Passed + Len(Taken) /\ v \in FirstItem..(Passed + Len(Taken)) + removed
            BY <1>5, <1>6, <3>1, <3>2
        <3>4. QED
            BY <1>6, <3>1, <3>2, <3>3 DEF GoneNow, Gone
    <2>2. QED
        BY <2>1
<1>14. IsFiniteSet(GoneNow(Passed, Have)) /\ Cardinality(GoneNow(Passed, Have)) <= removed + Over
    BY <1>1, <1>6, GoneFinite DEF GoneNow, LostNow
<1>15. Missed' \subseteq GoneNow(Passed, Have)
    BY <1>9, <1>13
<1>16. removed + Over \in Nat
    BY <1>6 DEF Over, Overshoot
<1>17. QED
    BY <1>14, <1>15, <1>16, FewerOf

\* The inductive invariant holds of every behaviour.
THEOREM PagingInvariant ==
    ASSUME TokensFit
    PROVE  Spec => []Inv
<1>1. Init => Inv
    BY InvInit
<1>2. Inv /\ [Next]_vars => Inv'
    BY InvStep
<1>3. QED
    BY <1>1, <1>2, PTL DEF Spec

\* LossIsBounded for every list and page size: once listResources gives it no next
\* token, a client has missed at most as many of the items that are there as were
\* removed while it listed, and one more if MaxEntries divides its last token.
THEOREM ListingLossIsBounded ==
    ASSUME TokensFit
    PROVE  Spec => LossIsBounded
<1>1. Spec => []Inv
    BY PagingInvariant
<1>2. Inv /\ [Next]_vars =>
        [pc = "paging" /\ pc' = "end"
            => Cardinality(Missed') <= removed + Overshoot(token, MaxEntries)]_vars
    BY EndMisses DEF Over
<1>3. QED
    BY <1>1, <1>2, PTL DEF Spec, LossIsBounded

=============================================================================
