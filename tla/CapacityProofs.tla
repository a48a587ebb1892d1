--------------------------- MODULE CapacityProofs ---------------------------
(* Proofs about extractStorage, for all capacity ranges and all limits. *)
EXTENDS Capacity, TLAPS

\* A size that extractStorage returns fits the requested range and is at most
\* the largest supported size.
THEOREM ChosenSizeFitsRange ==
    ASSUME NEW r \in Int, NEW l \in Int, extractStorage(r, l) # OutOfRange
    PROVE  Fits(extractStorage(r, l), r, l)
BY CapacityAssumption DEF extractStorage, Refused, Raised, isSet, Fits

\* extractStorage refuses exactly the ranges that no supported size fits, and
\* those that give only a limit and one above the largest supported size.
THEOREM RefusesOnlyImpossibleRanges ==
    ASSUME NEW r \in Int, NEW l \in Int
    PROVE  extractStorage(r, l) = OutOfRange <=>
               ~Satisfiable(r, l) \/ (~isSet(r) /\ l > maximumVolumeSizeInBytes)
<1> DEFINE min == minimumVolumeSizeInBytes
           max == maximumVolumeSizeInBytes
<1>1. min \in Int /\ max \in Int /\ min <= max /\ 0 < min
    BY CapacityAssumption
<1>2. CASE Refused(r, l)
    <2>1. extractStorage(r, l) = OutOfRange
        BY <1>1, <1>2, CapacityAssumption DEF extractStorage, Refused, Raised, isSet
    <2>2. ~Satisfiable(r, l) \/ (~isSet(r) /\ l > max)
        BY <1>1, <1>2 DEF Refused, Satisfiable, isSet
    <2>3. QED
        BY <2>1, <2>2
<1>3. CASE ~Refused(r, l)
    <2>1. extractStorage(r, l) # OutOfRange
        BY <1>1, <1>3, CapacityAssumption DEF extractStorage, Refused, Raised, isSet, OutOfRange
    <2>2. \E size \in {min, max, r} :
              /\ size \in min..max
              /\ isSet(r) => r <= size
              /\ isSet(l) => size <= l
        BY <1>1, <1>3 DEF Refused, isSet
    <2>3. Satisfiable(r, l)
        BY <2>2 DEF Satisfiable
    <2>4. ~(~isSet(r) /\ l > max)
        BY <1>3 DEF Refused
    <2>5. QED
        BY <2>1, <2>3, <2>4
<1>4. QED
    BY <1>2, <1>3

\* Only one kind of range gets a size below the minimum: a required size below
\* the minimum together with a limit.
THEOREM BelowMinimumOnlyWithLimit ==
    ASSUME NEW r \in Int, NEW l \in Int, extractStorage(r, l) # OutOfRange,
           extractStorage(r, l) < minimumVolumeSizeInBytes
    PROVE  /\ isSet(r) /\ r < minimumVolumeSizeInBytes
           /\ isSet(l) /\ l >= minimumVolumeSizeInBytes
           /\ extractStorage(r, l) = r
BY CapacityAssumption DEF extractStorage, Refused, Raised, isSet

=============================================================================
