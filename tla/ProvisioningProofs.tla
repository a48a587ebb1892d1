------------------------- MODULE ProvisioningProofs -------------------------
(***************************************************************************)
(* Proofs about Provisioning for any sets of claims, IDs and call slots,   *)
(* any capacity ranges and any sizes.  Inv is inductive.  Most steps only  *)
(* move one call (OneCallMoves); the others change one volume, which       *)
(* belongs to one claim, and the calls of other claims do not notice.      *)
(***************************************************************************)
EXTENDS Provisioning, CapacityProofs, FiniteSetTheorems

USE DEF Active, Waiting, At

-----------------------------------------------------------------------------
(* Sizes *)

\* extractStorage returns a size that is at least what is required, or none.
LEMMA StorageSize ==
    ASSUME NEW r \in Int, NEW l \in Int, extractStorage(r, l) # OutOfRange
    PROVE  extractStorage(r, l) \in Nat /\ r <= extractStorage(r, l)
BY CapacityAssumption DEF extractStorage, Refused, Raised, isSet, OutOfRange

\* Bytes and GiB.
LEMMA GiBOfWhole ==
    ASSUME NEW k \in Nat
    PROVE  k * giB \in Nat /\ InGiB(k * giB) = k /\ Whole(k * giB)
<1>1. giB \in Nat \ {0}
    BY CapacityAssumption
<1>2. k * giB \in Nat
    BY <1>1
<1>3. (k * giB) \div giB = k /\ (k * giB) % giB = 0
    <2> DEFINE q == (k * giB) \div giB
               r == (k * giB) % giB
    <2>1. /\ q \in Int /\ r \in 0..(giB - 1)
          /\ k * giB = q * giB + r
        BY <1>1, <1>2, SMT
    <2> DEFINE e == k - q
    <2>2. e \in Int /\ e * giB = r
        BY <2>1, <1>1
    <2> HIDE DEF q, r, e
    <2>3. ~(e >= 1) /\ ~(e <= -1)
        BY <2>1, <2>2, <1>1
    <2>4. e = 0 /\ r = 0
        BY <2>2, <2>3, <1>1
    <2>5. QED
        BY <2>1, <2>4, <1>1 DEF e, q, r
<1>4. QED
    BY <1>2, <1>3 DEF InGiB, Whole

LEMMA BytesInGiB ==
    ASSUME NEW b \in Nat
    PROVE  InGiB(b) \in Nat /\ (Whole(b) => b = InGiB(b) * giB)
<1>1. giB \in Nat \ {0}
    BY CapacityAssumption
<1>2. b \div giB \in Nat /\ b = (b \div giB) * giB + (b % giB)
    BY <1>1, SMT
<1>3. QED
    BY <1>1, <1>2 DEF InGiB, Whole

LEMMA WholePart ==
    ASSUME NEW b \in Nat
    PROVE  InGiB(b) \in Nat /\ InGiB(b) * giB <= b
<1>1. giB \in Nat \ {0}
    BY CapacityAssumption
<1>2. b \div giB \in Nat /\ b = (b \div giB) * giB + (b % giB) /\ b % giB >= 0
    BY <1>1, SMT
<1>3. QED
    BY <1>1, <1>2 DEF InGiB

LEMMA GiBMonotonic ==
    ASSUME NEW j \in Nat, NEW k \in Nat, j <= k
    PROVE  j * giB <= k * giB
BY CapacityAssumption, SMT

\* The size a request comes down to.
LEMMA RequestSize ==
    ASSUME NEW c \in Calls, req[c] \in Requests, Size(c) # OutOfRange
    PROVE  /\ Size(c) \in Nat /\ req[c].range.required <= Size(c)
           /\ SizeGiB(c) = InGiB(Size(c)) /\ SizeGiB(c) \in Nat
<1>1. req[c].range.required \in Int /\ req[c].range.limit \in Int
    BY ProvisioningAssumption DEF Requests, NoRequest
<1>2. Size(c) \in Nat /\ req[c].range.required <= Size(c)
    BY <1>1, StorageSize DEF Size
<1>3. QED
    BY <1>2, BytesInGiB DEF SizeGiB, InGiB

\* It depends on the request only.
LEMMA SizeUndisturbed ==
    ASSUME NEW c \in Calls, req'[c] = req[c]
    PROVE  /\ Size(c)' = Size(c) /\ SizeGiB(c)' = SizeGiB(c)
           /\ Plain(c)' = Plain(c)
BY DEF Size, SizeGiB, Plain

-----------------------------------------------------------------------------
(* What a step cannot disturb *)

\* The step leaves call d alone.
Same(d) ==
    /\ pc'[d] = pc[d] /\ req'[d] = req[d] /\ expired'[d] = expired[d]
    /\ result'[d] = result[d] /\ volID'[d] = volID[d] /\ action'[d] = action[d]
    /\ resp'[d] = resp[d]

LEMMA ConsistentSame ==
    ASSUME NEW d \in Calls, Consistent(d), Same(d)
    PROVE  Consistent(d)'
BY SizeUndisturbed DEF Consistent, Same

LEMMA KnowsSame ==
    ASSUME NEW d \in Calls, Knows(d), Same(d), UNCHANGED <<vol, resizing>>
    PROVE  Knows(d)'
BY SizeUndisturbed DEF Knows, Same, VolumesNamed, Live, Target

LEMMA ClaimsUndisturbed ==
    ASSUME ClaimInv, ResizeInv, UNCHANGED <<vol, resizing, coVars>>
    PROVE  ClaimInv' /\ ResizeInv'
BY DEF ClaimInv, ClaimOK, ResizeInv, coVars, VolumesNamed, Live, ClaimSize

LEMMA DisciplineUndisturbed ==
    ASSUME DisciplineInv, UNCHANGED <<req, coVars>>,
           \A d \in Calls : Waiting(d)' => Waiting(d)
    PROVE  DisciplineInv'
BY DEF DisciplineInv, coVars

\* A step of one running call that changes neither volumes nor beliefs.
LEMMA OneCallMoves ==
    ASSUME Inv, TypeOK', NEW c \in Calls, Active(c),
           UNCHANGED <<vol, resizing, coVars, req, expired>>,
           \A d \in Calls \ {c} : Same(d),
           Consistent(c)', Waiting(c) => Knows(c)'
    PROVE  Inv'
<1>1. HandlerInv'
    BY ConsistentSame DEF Inv, HandlerInv
<1>2. DisciplineInv'
    BY DisciplineUndisturbed DEF Inv, Same
<1>3. ClaimInv' /\ ResizeInv'
    BY ClaimsUndisturbed DEF Inv
<1>4. KnowledgeInv'
    BY KnowsSame DEF Inv, KnowledgeInv, Same
<1>5. QED
    BY <1>1, <1>2, <1>3, <1>4 DEF Inv

-----------------------------------------------------------------------------
(* The ways a handler goes on *)

Labels == ApiSteps \union {"waitAction", "done"}

LEMMA GotoType ==
    ASSUME TypeOK, NEW c \in Calls, NEW l \in Labels, Goto(c, l)
    PROVE  /\ pc' \in [Calls -> ApiSteps \union {"idle", "waitAction", "done"}]
           /\ result' \in [Calls -> Codes \union {"none"}]
           /\ resp' \in [Calls -> Responses]
BY DEF TypeOK, Goto, Labels

LEMMA ReturnType ==
    ASSUME TypeOK, NEW c \in Calls, NEW code \in Codes, Return(c, code)
    PROVE  /\ pc' \in [Calls -> ApiSteps \union {"idle", "waitAction", "done"}]
           /\ result' \in [Calls -> Codes \union {"none"}]
           /\ resp' \in [Calls -> Responses]
BY DEF TypeOK, Return

LEMMA ReturnVolumeType ==
    ASSUME TypeOK, NEW c \in Calls, NEW i \in Ids, NEW bytes \in Nat,
           NEW source \in Snapshots \union {None}, ReturnVolume(c, i, bytes, source)
    PROVE  /\ pc' \in [Calls -> ApiSteps \union {"idle", "waitAction", "done"}]
           /\ result' \in [Calls -> Codes \union {"none"}]
           /\ resp' \in [Calls -> Responses]
BY DEF TypeOK, ReturnVolume, Responses, Codes

\* An error is always a consistent answer, and commits to nothing.
LEMMA ReturnError ==
    ASSUME Inv, NEW c \in Calls, Active(c), UNCHANGED <<req, expired, action>>,
           NEW code \in Codes \ {"OK", "AlreadyExists", "DuplicateVolume"}, Return(c, code),
           code = "OutOfRange" => Size(c) = OutOfRange,
           volID'[c] # 0 => req[c].op = "create"
    PROVE  Consistent(c)' /\ Knows(c)'
BY SizeUndisturbed
   DEF Inv, HandlerInv, TypeOK, Consistent, Knows, Return, Codes, CreateSteps, ExpandSteps

LEMMA AtMostOne ==
    ASSUME NEW S, \A i, j \in S : i = j
    PROVE  Cardinality(S) \in {0, 1} /\ (S = {} => Cardinality(S) = 0)
<1>1. CASE S = {}
    BY <1>1, FS_EmptySet
<1>2. CASE S # {}
    <2>1. PICK x : S = {x}
        BY <1>2
    <2>2. QED
        BY <1>2, <2>1, FS_Singleton
<1>3. QED
    BY <1>1, <1>2

\* The request of a create that is waited for.
LEMMA CreateRequest ==
    ASSUME Inv, NEW c \in Calls, Waiting(c), req[c].op = "create"
    PROVE  /\ req[c] \in Requests /\ req[c].name \in Names /\ req[c].id = 0
           /\ req[c].snapshot \in Snapshots \union {None}
           /\ phase[req[c].name] = "creating"
           /\ Size(c) = ClaimSize(req[c].name)
           /\ req[c].snapshot = want[req[c].name].snapshot
BY DEF Inv, HandlerInv, Consistent, DisciplineInv, Requests, Size, ClaimSize

\* The request of an expand that is waited for.
LEMMA ExpandRequest ==
    ASSUME Inv, NEW c \in Calls, Waiting(c), req[c].op = "expand"
    PROVE  /\ req[c] \in Requests /\ req[c].name \in Names /\ req[c].id \in Ids
           /\ phase[req[c].name] = "bound" /\ req[c].id = bound[req[c].name].id
           /\ req[c].id \in VolumesNamed(req[c].name)
BY DEF Inv, HandlerInv, Consistent, DisciplineInv, ClaimInv, ClaimOK, Requests

-----------------------------------------------------------------------------
(* Steps of a handler that only read the API *)

\* ListVolumes finds the one volume of the name, or none.
LEMMA ListVolumesInv ==
    ASSUME Inv, NEW c \in Calls, ListVolumes(c)
    PROVE  Inv'
<1> DEFINE n == req[c].name
           found == VolumesNamed(n)
<1>1. /\ pc[c] = "ListVolumes" /\ Waiting(c) /\ req[c].op = "create"
      /\ result[c] = "none" /\ volID[c] \in Ids \union {0} /\ Size(c) # OutOfRange
      /\ UNCHANGED <<vol, resizing, snapshots, coVars, req, expired, volID, action>>
    BY DEF ListVolumes, Inv, TypeOK, HandlerInv, Consistent, CreateSteps, apiVars
<1>2. /\ n \in Names /\ req[c] \in Requests /\ phase[n] = "creating" /\ Size(c) = ClaimSize(n)
      /\ Size(c) \in Nat /\ SizeGiB(c) = InGiB(Size(c)) /\ SizeGiB(c) \in Nat
      /\ req[c].snapshot = want[n].snapshot
    BY <1>1, CreateRequest, RequestSize
<1>3. \A i, j \in found : i = j
    BY <1>2 DEF Inv, ClaimInv, ClaimOK
<1>4. \/ \E i \in found : vol[i].gib * giB # Size(c) /\ Return(c, "AlreadyExists")
      \/ \E i \in found : vol[i].gib * giB = Size(c) /\ ReturnVolume(c, i, Size(c), None)
      \/ found = {} /\ Goto(c, IF req[c].snapshot # None THEN "GetSnapshot" ELSE "CreateVolume")
    <2>1. ~(Cardinality(found) > 1)
        BY <1>3, AtMostOne
    <2>2. QED
        BY <2>1 DEF ListVolumes, Found, SameSize
<1>5. CASE \E i \in found : vol[i].gib * giB # Size(c) /\ Return(c, "AlreadyExists")
    <2>1. ~Plain(c)
        BY <1>2, <1>5 DEF Inv, ClaimInv, ClaimOK, Plain, Whole
    <2>2. Consistent(c)' /\ Knows(c)'
        BY <1>1, <1>2, <1>5, <2>1, SizeUndisturbed
           DEF Inv, HandlerInv, TypeOK, Consistent, Knows, Return, CreateSteps, ExpandSteps
    <2>3. TypeOK'
        BY <1>1, <1>5, ReturnType DEF Inv, TypeOK, coVars, Codes
    <2>4. QED
        BY <1>1, <1>5, <2>2, <2>3, OneCallMoves DEF Inv, TypeOK, Same, Return
<1>6. ASSUME NEW i \in found, vol[i].gib * giB = Size(c), ReturnVolume(c, i, Size(c), None)
      PROVE  Inv'
    <2>1. i \in Ids /\ vol[i].gib \in Nat \ {0}
        BY DEF Inv, TypeOK, VolumesNamed, Live, NoVolume
    <2>2. InGiB(Size(c)) = vol[i].gib /\ SizeGiB(c) = vol[i].gib
        BY <1>6, <2>1, GiBOfWhole DEF SizeGiB, InGiB
    <2>3. Consistent(c)' /\ Knows(c)'
        BY <1>1, <1>2, <1>6, <2>1, <2>2, SizeUndisturbed
           DEF Inv, HandlerInv, TypeOK, Consistent, Knows, ReturnVolume, CreateSteps,
               ExpandSteps, VolumesNamed, Live
    <2>4. TypeOK'
        BY <1>1, <1>2, <1>6, <2>1, ReturnVolumeType DEF Inv, TypeOK, coVars
    <2>5. QED
        BY <1>1, <1>6, <2>3, <2>4, OneCallMoves DEF Inv, TypeOK, Same, ReturnVolume
<1>7. ASSUME found = {}, NEW l \in {"GetSnapshot", "CreateVolume"}, Goto(c, l)
      PROVE  Inv'
    <2>1. Consistent(c)' /\ Knows(c)'
        BY <1>1, <1>2, <1>7, SizeUndisturbed
           DEF Inv, HandlerInv, TypeOK, Consistent, Knows, Goto, CreateSteps, ExpandSteps,
               VolumesNamed, Live
    <2>2. TypeOK'
        BY <1>1, <1>7, GotoType DEF Inv, TypeOK, coVars, Labels, ApiSteps, CreateSteps
    <2>3. QED
        BY <1>1, <1>7, <2>1, <2>2, OneCallMoves DEF Inv, TypeOK, Same, Goto
<1>8. QED
    BY <1>4, <1>5, <1>6, <1>7

\* Asking for the snapshot changes nothing: still no volume has the name.
LEMMA GetSnapshotInv ==
    ASSUME Inv, NEW c \in Calls, GetSnapshot(c)
    PROVE  Inv'
<1>1. /\ pc[c] = "GetSnapshot" /\ Waiting(c) /\ req[c].op = "create"
      /\ UNCHANGED <<vol, resizing, snapshots, coVars, req, expired, volID, action>>
      /\ Return(c, "NotFound") \/ Goto(c, "CreateVolume")
    BY DEF GetSnapshot, Inv, HandlerInv, Consistent, CreateSteps, apiVars
<1>2. CASE Return(c, "NotFound")
    <2>1. Consistent(c)' /\ Knows(c)'
        BY <1>1, <1>2, ReturnError DEF Inv, TypeOK, Codes
    <2>2. TypeOK'
        BY <1>1, <1>2, ReturnType DEF Inv, TypeOK, coVars, Codes
    <2>3. QED
        BY <1>1, <1>2, <2>1, <2>2, OneCallMoves DEF Inv, TypeOK, Same, Return
<1>3. CASE Goto(c, "CreateVolume")
    <2>1. Consistent(c)' /\ Knows(c)'
        BY <1>1, <1>3, SizeUndisturbed
           DEF Inv, HandlerInv, KnowledgeInv, TypeOK, Consistent, Knows, Goto, CreateSteps,
               ExpandSteps, VolumesNamed, Live
    <2>2. TypeOK'
        BY <1>1, <1>3, GotoType DEF Inv, TypeOK, coVars, Labels, ApiSteps, CreateSteps
    <2>3. QED
        BY <1>1, <1>3, <2>1, <2>2, OneCallMoves DEF Inv, TypeOK, Same, Goto
<1>4. QED
    BY <1>1, <1>2, <1>3

\* A volume that is large enough is reported with the size it has.
LEMMA ExpandGetVolumeInv ==
    ASSUME Inv, NEW c \in Calls, ExpandGetVolume(c)
    PROVE  Inv'
<1> DEFINE i == req[c].id
<1>1. /\ pc[c] = "ExpandGetVolume" /\ Waiting(c) /\ req[c].op = "expand" /\ result[c] = "none"
      /\ UNCHANGED <<vol, resizing, snapshots, coVars, req, expired, volID, action>>
    BY DEF ExpandGetVolume, Inv, HandlerInv, Consistent, ExpandSteps, apiVars
<1>2. /\ req[c] \in Requests /\ i \in VolumesNamed(req[c].name) /\ i \in Ids
      /\ vol[i].gib \in Nat
    BY <1>1, ExpandRequest DEF Inv, TypeOK, NoVolume
<1>3. \/ \E code \in {"Internal", "OutOfRange"} :
            Return(c, code) /\ (code = "OutOfRange" => Size(c) = OutOfRange)
      \/ /\ Size(c) # OutOfRange /\ SizeGiB(c) <= vol[i].gib
         /\ ReturnVolume(c, i, vol[i].gib * giB, None)
      \/ Size(c) # OutOfRange /\ Goto(c, "ResizeVolume")
    BY DEF ExpandGetVolume
<1>4. ASSUME NEW code \in {"Internal", "OutOfRange"}, Return(c, code),
             code = "OutOfRange" => Size(c) = OutOfRange
      PROVE  Inv'
    <2>1. Consistent(c)' /\ Knows(c)'
        BY <1>1, <1>4, ReturnError DEF Inv, TypeOK, HandlerInv, Consistent, Codes
    <2>2. TypeOK'
        BY <1>1, <1>4, ReturnType DEF Inv, TypeOK, coVars, Codes
    <2>3. QED
        BY <1>1, <1>4, <2>1, <2>2, OneCallMoves DEF Inv, TypeOK, Same, Return
<1>5. ASSUME Size(c) # OutOfRange, SizeGiB(c) <= vol[i].gib,
             ReturnVolume(c, i, vol[i].gib * giB, None)
      PROVE  Inv'
    <2>1. /\ vol[i].gib * giB \in Nat /\ InGiB(vol[i].gib * giB) = vol[i].gib
          /\ Whole(vol[i].gib * giB)
        BY <1>2, GiBOfWhole
    <2> DEFINE bytes == vol[i].gib * giB
    <2>2. bytes \in Nat /\ InGiB(bytes) = vol[i].gib /\ Whole(bytes) /\ ReturnVolume(c, i, bytes, None)
        BY <1>5, <2>1
    <2> HIDE DEF bytes
    <2>3. Consistent(c)' /\ Knows(c)'
        BY <1>1, <1>2, <1>5, <2>2, SizeUndisturbed
           DEF Inv, HandlerInv, TypeOK, Consistent, Knows, ReturnVolume, CreateSteps,
               ExpandSteps, VolumesNamed, Live
    <2>4. TypeOK'
        BY <1>1, <1>2, <2>2, ReturnVolumeType DEF Inv, TypeOK, coVars
    <2>5. QED
        BY <1>1, <2>2, <2>3, <2>4, OneCallMoves DEF Inv, TypeOK, Same, ReturnVolume
<1>6. ASSUME Size(c) # OutOfRange, Goto(c, "ResizeVolume")
      PROVE  Inv'
    <2>1. Consistent(c)' /\ Knows(c)'
        BY <1>1, <1>2, <1>6, SizeUndisturbed
           DEF Inv, HandlerInv, TypeOK, Consistent, Knows, Goto, CreateSteps, ExpandSteps
    <2>2. TypeOK'
        BY <1>1, <1>6, GotoType DEF Inv, TypeOK, coVars, Labels, ApiSteps, ExpandSteps
    <2>3. QED
        BY <1>1, <1>6, <2>1, <2>2, OneCallMoves DEF Inv, TypeOK, Same, Goto
<1>7. QED
    BY <1>3, <1>4, <1>5, <1>6

\* A request that fails: the call returns an error.
LEMMA ApiErrorInv ==
    ASSUME Inv, NEW c \in Calls, ApiError(c)
    PROVE  Inv'
<1>1. PICK code \in {"Unknown", "Internal"} : Return(c, code)
    BY DEF ApiError
<1>2. /\ Active(c)
      /\ UNCHANGED <<vol, resizing, snapshots, coVars, req, expired, volID, action>>
    BY DEF ApiError, apiVars, ApiSteps, CreateSteps, ExpandSteps
<1>3. Consistent(c)' /\ Knows(c)'
    BY <1>1, <1>2, ReturnError DEF Inv, TypeOK, HandlerInv, Consistent, Codes
<1>4. TypeOK'
    BY <1>1, <1>2, ReturnType DEF Inv, TypeOK, coVars, Codes
<1>5. QED
    BY <1>1, <1>2, <1>3, <1>4, OneCallMoves DEF Inv, TypeOK, Same, Return

\* The response of a create or an expand whose volume has the size it should.
LEMMA NewSizeReturned ==
    ASSUME Inv, NEW c \in Calls, Waiting(c), req[c].op \in {"create", "expand"},
           Size(c) # OutOfRange, SizeGiB(c) # 0,
           NEW i \in Ids, req[c].op = "expand" => i = req[c].id,
           ReturnNewSize(c, i), UNCHANGED <<req, expired>>, volID' \in [Calls -> Ids \union {0}],
           volID'[c] # 0 => req[c].op = "create",
           i \in VolumesNamed(req[c].name)', vol'[i].gib \in Nat, SizeGiB(c) <= vol'[i].gib
    PROVE  /\ Consistent(c)' /\ Knows(c)'
           /\ pc' \in [Calls -> ApiSteps \union {"idle", "waitAction", "done"}]
           /\ result' \in [Calls -> Codes \union {"none"}]
           /\ resp' \in [Calls -> Responses]
           /\ \A d \in Calls \ {c} :
                pc'[d] = pc[d] /\ result'[d] = result[d] /\ resp'[d] = resp[d]
           /\ pc'[c] = "done"
<1>1. req[c] \in Requests /\ req[c].snapshot \in Snapshots \union {None}
    BY DEF Inv, HandlerInv, Consistent, Requests
<1>2. Size(c) \in Nat /\ SizeGiB(c) = InGiB(Size(c)) /\ SizeGiB(c) \in Nat
    BY <1>1, RequestSize
<1>3. PICK bytes \in Nat, source \in Snapshots \union {None} :
        /\ ReturnVolume(c, i, bytes, source) /\ InGiB(bytes) = SizeGiB(c)
        /\ req[c].op = "create" => bytes = Size(c)
        /\ req[c].op = "expand" => Whole(bytes)
    <2>1. CASE req[c].op = "create"
        BY <2>1, <1>1, <1>2 DEF ReturnNewSize
    <2>2. CASE req[c].op # "create"
        <3>1. /\ SizeGiB(c) * giB \in Nat /\ InGiB(SizeGiB(c) * giB) = SizeGiB(c)
              /\ Whole(SizeGiB(c) * giB)
            BY <1>2, GiBOfWhole
        <3>2. ReturnVolume(c, i, SizeGiB(c) * giB, None)
            BY <2>2 DEF ReturnNewSize
        <3>3. QED
            BY <2>2, <3>1, <3>2
    <2>3. QED
        BY <2>1, <2>2
<1>4. Consistent(c)'
    BY <1>1, <1>3, SizeUndisturbed
       DEF Inv, HandlerInv, TypeOK, Consistent, ReturnVolume, CreateSteps, ExpandSteps
<1>5. Knows(c)'
    <2>1. /\ pc'[c] = "done" /\ resp'[c].id = i /\ resp'[c].bytes = bytes
          /\ req'[c] = req[c]
        BY <1>3 DEF Inv, TypeOK, ReturnVolume
    <2>2. Size(c)' = Size(c) /\ SizeGiB(c)' = SizeGiB(c)
        BY <2>1, SizeUndisturbed
    <2>3. SizeGiB(c)' <= InGiB(resp'[c].bytes) /\ InGiB(resp'[c].bytes) <= vol'[resp'[c].id].gib
        BY <1>2, <1>3, <2>1, <2>2
    <2>4. /\ req'[c].op = "create" => resp'[c].bytes = Size(c)' /\ SizeGiB(c)' # 0
          /\ req'[c].op = "expand" => resp'[c].id = req'[c].id /\ Whole(resp'[c].bytes)
        BY <1>3, <2>1, <2>2
    <2>5. resp'[c].id \in VolumesNamed(req[c].name)' /\ Size(c)' # OutOfRange
        BY <2>1, <2>2
    <2>6. /\ pc'[c] \notin {"GetSnapshot", "CreateVolume", "ResizeRestored", "waitAction"}
          /\ req'[c].op # "delete"
          /\ result'[c] \notin {"AlreadyExists", "DuplicateVolume", "OutOfRange"}
        BY <1>3, <2>1 DEF Inv, TypeOK, ReturnVolume
    <2>7. QED
        BY <2>3, <2>4, <2>5, <2>6, Zenon DEF Knows
<1>6. /\ pc' \in [Calls -> ApiSteps \union {"idle", "waitAction", "done"}]
      /\ result' \in [Calls -> Codes \union {"none"}] /\ resp' \in [Calls -> Responses]
    BY <1>3, ReturnVolumeType, Zenon DEF Inv
<1>7. /\ pc'[c] = "done"
      /\ \A d \in Calls \ {c} :
            pc'[d] = pc[d] /\ result'[d] = result[d] /\ resp'[d] = resp[d]
    BY <1>3 DEF Inv, TypeOK, ReturnVolume
<1>8. QED
    BY <1>4, <1>5, <1>6, <1>7

\* waitAction: a completed action has made the volume as large as it should be.
LEMMA WaitActionInv ==
    ASSUME Inv, NEW c \in Calls, WaitAction(c)
    PROVE  Inv'
<1>1. /\ pc[c] = "waitAction" /\ req[c].op \in {"create", "expand"} /\ Size(c) # OutOfRange
      /\ volID[c] # 0 => req[c].op = "create"
      /\ UNCHANGED <<vol, resizing, snapshots, coVars, req, expired, volID, action>>
    BY DEF WaitAction, Inv, HandlerInv, Consistent, apiVars
<1>2. CASE ~expired[c] /\ action[c] = "completed" /\ ReturnNewSize(c, Target(c))
    <2>1. /\ Target(c) \in VolumesNamed(req[c].name) /\ SizeGiB(c) <= vol[Target(c)].gib
          /\ SizeGiB(c) # 0
        BY <1>1, <1>2 DEF Inv, KnowledgeInv, Knows
    <2>2. Target(c) \in Ids /\ vol[Target(c)].gib \in Nat
        BY <2>1 DEF Inv, TypeOK, NoVolume, VolumesNamed
    <2>3. Target(c) \in VolumesNamed(req[c].name)' /\ (req[c].op = "expand" => Target(c) = req[c].id)
        BY <1>1, <2>1 DEF VolumesNamed, Live, Target
    <2>4. volID' \in [Calls -> Ids \union {0}]
        BY <1>1 DEF Inv, TypeOK
    <2> DEFINE i == Target(c)
    <2> HIDE DEF i
    <2>5. /\ Consistent(c)' /\ Knows(c)'
          /\ pc' \in [Calls -> ApiSteps \union {"idle", "waitAction", "done"}]
          /\ result' \in [Calls -> Codes \union {"none"}]
          /\ resp' \in [Calls -> Responses]
          /\ \A d \in Calls \ {c} :
               pc'[d] = pc[d] /\ result'[d] = result[d] /\ resp'[d] = resp[d]
          /\ pc'[c] = "done"
        <3>1. /\ i \in Ids /\ (req[c].op = "expand" => i = req[c].id) /\ ReturnNewSize(c, i)
              /\ i \in VolumesNamed(req[c].name)' /\ vol'[i].gib \in Nat
              /\ SizeGiB(c) <= vol'[i].gib
            BY <1>1, <1>2, <2>1, <2>2, <2>3 DEF i
        <3>2. QED
            BY <1>1, <1>2, <2>1, <2>4, <3>1, NewSizeReturned
    <2>6. TypeOK'
        BY <1>1, <2>5 DEF Inv, TypeOK, coVars
    <2>7. QED
        BY <1>1, <2>5, <2>6, OneCallMoves DEF Same
<1>3. CASE Return(c, "Internal")
    <2>1. Consistent(c)' /\ Knows(c)'
        BY <1>1, <1>3, ReturnError DEF Inv, TypeOK, Codes
    <2>2. TypeOK'
        BY <1>1, <1>3, ReturnType DEF Inv, TypeOK, coVars, Codes
    <2>3. QED
        BY <1>1, <1>3, <2>1, <2>2, OneCallMoves DEF Inv, TypeOK, Same, Return
<1>4. QED
    BY <1>2, <1>3 DEF WaitAction, ActionDone, Target

-----------------------------------------------------------------------------
(* Steps that change a volume *)

\* Volume i belongs to claim n, or comes to belong to it, and no other changes.
Concerns(i, n) ==
    /\ \A j \in Ids \ {i} : vol'[j] = vol[j] /\ resizing'[j] = resizing[j]
    /\ vol'[i].name = n /\ vol'[i].state # "free"
    /\ vol[i].state = "free" \/ vol[i].name = n
    /\ vol'[i].state = "live" => vol[i].state \in {"live", "free"}

\* The step leaves call d alone, except perhaps for an action it does not poll.
Steady(d) ==
    /\ pc'[d] = pc[d] /\ req'[d] = req[d] /\ result'[d] = result[d]
    /\ volID'[d] = volID[d] /\ resp'[d] = resp[d]
    /\ pc[d] = "waitAction" => action'[d] = action[d]

\* Then calls for other claims still know what they know, ...
LEMMA OthersKnow ==
    ASSUME Inv, NEW n \in Names, NEW i \in Ids, Concerns(i, n),
           NEW d \in Calls, Waiting(d), req[d].name # n, Steady(d)
    PROVE  Knows(d)'
<1>1. Knows(d) /\ req[d] \in Requests /\ req[d].name \in Names
    BY DEF Inv, KnowledgeInv, HandlerInv, Consistent, Requests
<1>2. VolumesNamed(req[d].name)' = VolumesNamed(req[d].name) /\ i \notin VolumesNamed(req[d].name)
    BY <1>1 DEF Concerns, VolumesNamed, Live, Steady
<1>3. req[d].op = "delete" => req[d].id \in Ids /\ vol[req[d].id].state # "free"
    BY <1>1 DEF Inv, DisciplineInv, ClaimInv, ClaimOK
<1>4. req[d].op = "delete" /\ ~Live(req[d].id) => ~Live(req[d].id)'
    BY <1>3 DEF Concerns, Live, Steady
<1>5. \A j \in VolumesNamed(req[d].name) : vol'[j] = vol[j] /\ resizing'[j] = resizing[j]
    BY <1>2 DEF Concerns, VolumesNamed
<1>6. Target(d)' = Target(d)
    BY DEF Steady, Target
<1>7. QED
    BY <1>1, <1>2, <1>4, <1>5, <1>6, SizeUndisturbed DEF Knows, Steady

\* ... and other claims are what they were.
LEMMA OtherClaims ==
    ASSUME Inv, NEW n \in Names, NEW i \in Ids, Concerns(i, n), UNCHANGED coVars,
           NEW m \in Names \ {n}
    PROVE  ClaimOK(m)'
<1>1. VolumesNamed(m)' = VolumesNamed(m) /\ i \notin VolumesNamed(m)
    BY DEF Concerns, VolumesNamed, Live
<1>2. \A j \in VolumesNamed(m) : vol'[j] = vol[j] /\ resizing'[j] = resizing[j]
    BY <1>1 DEF Concerns, VolumesNamed
<1>3. \A j \in Ids : vol[j].state # "free" => vol'[j].state # "free" /\ vol'[j].name = vol[j].name
    BY DEF Concerns
<1>4. ClaimSize(m)' = ClaimSize(m)
    BY DEF ClaimSize, coVars
<1>5. QED
    BY <1>1, <1>2, <1>3, <1>4 DEF Inv, ClaimInv, ClaimOK, coVars

\* A step of one call that is waited for and changes a volume of its claim.
LEMMA OneCallChangesVolume ==
    ASSUME Inv, TypeOK', NEW c \in Calls, Waiting(c), NEW i \in Ids,
           Concerns(i, req[c].name), UNCHANGED <<coVars, req, expired>>,
           \A d \in Calls \ {c} : Same(d),
           Consistent(c)', Knows(c)', ClaimOK(req[c].name)', ResizeInv'
    PROVE  Inv'
<1>1. req[c].name \in Names
    BY DEF Inv, HandlerInv, Consistent, Requests
<1>2. HandlerInv'
    BY ConsistentSame DEF Inv, HandlerInv
<1>3. DisciplineInv'
    BY DisciplineUndisturbed DEF Inv, Same
<1>4. ClaimInv'
    BY <1>1, OtherClaims DEF ClaimInv
<1>5. KnowledgeInv'
    <2> SUFFICES ASSUME NEW d \in Calls, Waiting(d)', d # c
                 PROVE  Knows(d)'
        BY DEF KnowledgeInv
    <2>1. Waiting(d) /\ Same(d) /\ req[d].name # req[c].name
        BY DEF Same, Inv, DisciplineInv
    <2>2. QED
        BY <1>1, <2>1, OthersKnow DEF Same, Steady
<1>6. QED
    BY <1>2, <1>3, <1>4, <1>5 DEF Inv

\* CreateVolume makes a volume only if there is none of the name.
LEMMA CreateVolumeInv ==
    ASSUME Inv, NEW c \in Calls, CreateVolume(c)
    PROVE  Inv'
<1> DEFINE n == req[c].name
<1>1. /\ pc[c] = "CreateVolume" /\ Waiting(c) /\ req[c].op = "create" /\ Size(c) # OutOfRange
      /\ result[c] = "none"
      /\ UNCHANGED <<resizing, snapshots, coVars, req, expired, action>>
    BY DEF CreateVolume, Inv, HandlerInv, Consistent, CreateSteps
<1>2. /\ n \in Names /\ req[c] \in Requests /\ phase[n] = "creating" /\ Size(c) = ClaimSize(n)
      /\ req[c].snapshot = want[n].snapshot /\ req[c].snapshot \in Snapshots \union {None}
      /\ Size(c) \in Nat /\ SizeGiB(c) = InGiB(Size(c)) /\ SizeGiB(c) \in Nat
    BY <1>1, CreateRequest, RequestSize
<1>3. VolumesNamed(n) = {}
    BY <1>1 DEF Inv, KnowledgeInv, Knows
<1>4. CASE UNCHANGED <<vol, volID>> /\ \E code \in {"ResourceExhausted", "Internal"} : Return(c, code)
    <2>1. PICK code \in {"ResourceExhausted", "Internal"} : Return(c, code)
        BY <1>4
    <2>2. Consistent(c)' /\ Knows(c)'
        BY <1>1, <1>4, <2>1, ReturnError DEF Inv, TypeOK, HandlerInv, Consistent, Codes
    <2>3. TypeOK'
        BY <1>1, <1>4, <2>1, ReturnType DEF Inv, TypeOK, coVars, Codes
    <2>4. QED
        BY <1>1, <1>4, <2>1, <2>2, <2>3, OneCallMoves DEF Inv, TypeOK, Same, Return
<1>5. ASSUME NEW i \in Ids, SizeGiB(c) # 0, Free(i),
             vol' = [vol EXCEPT ![i] = NewVolume(c, i)], volID' = [volID EXCEPT ![c] = i],
             \/ Return(c, "Internal")
             \/ NewVolume(c, i).gib < SizeGiB(c) /\ Goto(c, "ResizeRestored")
             \/ NewVolume(c, i).gib >= SizeGiB(c) /\ ReturnNewSize(c, i)
      PROVE  Inv'
    <2> DEFINE gib == NewVolume(c, i).gib
    <2>1. /\ gib \in Nat \ {0} /\ (req[c].snapshot = None => gib = SizeGiB(c))
          /\ NewVolume(c, i) = [state |-> "live", name |-> n, gib |-> gib]
        BY <1>2, <1>5, ProvisioningAssumption DEF NewVolume
    <2> HIDE DEF gib
    <2>2. vol' = [vol EXCEPT ![i] = [state |-> "live", name |-> n, gib |-> gib]]
        BY <1>5, <2>1
    <2>3. /\ vol' \in [Ids -> [state : {"live", "gone"}, name : Names, gib : Nat \ {0}]
                                   \union {NoVolume}]
          /\ volID' \in [Calls -> Ids \union {0}] /\ volID'[c] = i
          /\ vol'[i] = [state |-> "live", name |-> n, gib |-> gib]
        BY <1>2, <1>5, <2>1, <2>2 DEF Inv, TypeOK
    <2>4. Concerns(i, n) /\ resizing[i] = 0
        BY <1>1, <1>5, <2>2 DEF Concerns, Free, Inv, TypeOK, ResizeInv, Live
    <2>5. VolumesNamed(n)' = {i}
        BY <1>1, <1>2, <1>3, <2>3, <2>4 DEF Concerns, VolumesNamed, Live
    <2>6. ResizeInv'
        BY <1>1, <2>4 DEF Inv, ResizeInv, Concerns, Live
    <2>7. ClaimOK(n)'
        <3>1. ClaimSize(n)' = ClaimSize(n) /\ phase'[n] = "creating" /\ want' = want
            BY <1>1, <1>2 DEF ClaimSize, coVars
        <3>2. want[n].snapshot = None /\ Whole(ClaimSize(n)) => gib * giB = ClaimSize(n)
            BY <1>2, <2>1, BytesInGiB
        <3>3. QED
            BY <1>1, <2>3, <2>4, <2>5, <3>1, <3>2 DEF ClaimOK
    <2>8. CASE Return(c, "Internal")
        <3>1. Consistent(c)' /\ Knows(c)'
            BY <1>1, <2>3, <2>8, ReturnError DEF Codes
        <3>2. TypeOK'
            BY <1>1, <2>3, <2>8, ReturnType DEF Inv, TypeOK, coVars, Codes
        <3>3. QED
            BY <1>1, <1>5, <2>4, <2>6, <2>7, <2>8, <3>1, <3>2, OneCallChangesVolume
               DEF Inv, TypeOK, Same, Return
    <2>9. CASE gib < SizeGiB(c) /\ Goto(c, "ResizeRestored")
        <3>1. Consistent(c)' /\ Knows(c)'
            BY <1>1, <1>2, <2>1, <2>3, <2>5, <2>9, SizeUndisturbed
               DEF Inv, HandlerInv, TypeOK, Consistent, Knows, Goto, CreateSteps, ExpandSteps
        <3>2. TypeOK'
            BY <1>1, <2>3, <2>9, GotoType DEF Inv, TypeOK, coVars, Labels, ApiSteps, CreateSteps
        <3>3. QED
            BY <1>1, <1>5, <2>4, <2>6, <2>7, <2>9, <3>1, <3>2, OneCallChangesVolume
               DEF Inv, TypeOK, Same, Goto
    <2>10. CASE gib >= SizeGiB(c) /\ ReturnNewSize(c, i)
        <3>1. /\ Consistent(c)' /\ Knows(c)'
              /\ pc' \in [Calls -> ApiSteps \union {"idle", "waitAction", "done"}]
              /\ result' \in [Calls -> Codes \union {"none"}]
              /\ resp' \in [Calls -> Responses]
              /\ \A d \in Calls \ {c} :
                   pc'[d] = pc[d] /\ result'[d] = result[d] /\ resp'[d] = resp[d]
              /\ pc'[c] = "done"
            <4>1. /\ i \in VolumesNamed(req[c].name)' /\ vol'[i].gib \in Nat
                  /\ SizeGiB(c) <= vol'[i].gib /\ SizeGiB(c) # 0
                BY <1>2, <1>5, <2>1, <2>3, <2>5, <2>10
            <4>2. QED
                BY <1>1, <2>3, <2>10, <4>1, NewSizeReturned
        <3>2. TypeOK'
            BY <1>1, <2>3, <3>1 DEF Inv, TypeOK, coVars
        <3>3. QED
            BY <1>1, <1>5, <2>4, <2>6, <2>7, <3>1, <3>2, OneCallChangesVolume
               DEF Inv, TypeOK, Same
    <2>11. QED
        BY <1>5, <2>8, <2>9, <2>10 DEF gib
<1>6. QED
    BY <1>4, <1>5 DEF CreateVolume

\* A volume of the claim gets another size, or another pending size.
LEMMA ResizeInvariant ==
    ASSUME Inv, NEW c \in Calls, Waiting(c), pc[c] \in {"ResizeRestored", "ResizeVolume"},
           Resize(c, Target(c))
    PROVE  Inv'
<1> DEFINE n == req[c].name
           i == Target(c)
           gib == SizeGiB(c)
<1>1. /\ req[c].op \in {"create", "expand"} /\ req[c] \in Requests /\ n \in Names
      /\ result[c] = "none" /\ Size(c) # OutOfRange
      /\ req[c].op = "expand" => i = req[c].id
      /\ volID[c] # 0 => req[c].op = "create"
      /\ UNCHANGED <<snapshots, coVars, req, expired, volID>>
    BY DEF Resize, Inv, HandlerInv, Consistent, CreateSteps, ExpandSteps, Requests, Target
<1>2. /\ i \in VolumesNamed(n) /\ i \in Ids
      /\ req[c].op = "create" => phase[n] = "creating" /\ want[n].snapshot # None
      /\ req[c].op = "expand" => phase[n] = "bound"
    <2>1. CASE req[c].op = "create"
        BY <1>1, <2>1, CreateRequest
           DEF Inv, HandlerInv, Consistent, ExpandSteps, KnowledgeInv, Knows, Target, VolumesNamed
    <2>2. CASE req[c].op = "expand"
        BY <1>1, <2>2, ExpandRequest DEF Target
    <2>3. QED
        BY <1>1, <2>1, <2>2
<1>3. /\ gib \in Nat
      /\ vol[i] \in [state : {"live", "gone"}, name : Names, gib : Nat \ {0}]
      /\ vol[i].state = "live" /\ vol[i].name = n /\ Target(c)' = i
    BY <1>1, <1>2, RequestSize DEF Inv, TypeOK, NoVolume, VolumesNamed, Live, Target
<1>4. /\ \A j \in VolumesNamed(n) : j = i
      /\ phase[n] \notin {"absent", "deleting", "deleted"}
    BY <1>1, <1>2 DEF Inv, ClaimInv, ClaimOK
<1> HIDE DEF n, i, gib
<1>5. CASE Return(c, "Internal") /\ UNCHANGED <<vol, resizing, action>>
    <2>1. Consistent(c)' /\ Knows(c)'
        BY <1>1, <1>5, ReturnError DEF Inv, TypeOK, Codes
    <2>2. TypeOK'
        BY <1>1, <1>5, ReturnType DEF Inv, TypeOK, coVars, Codes
    <2>3. QED
        BY <1>1, <1>5, <2>1, <2>2, OneCallMoves DEF Inv, TypeOK, Same, Return
<1>6. ASSUME vol[i].gib < gib, resizing[i] = 0, UNCHANGED vol,
             resizing' = [resizing EXCEPT ![i] = gib],
             \/ action' = [action EXCEPT ![c] = "in-progress"] /\ Goto(c, "waitAction")
             \/ Return(c, "Internal") /\ UNCHANGED action
      PROVE  Inv'
    <2>1. Concerns(i, n) /\ resizing' \in [Ids -> Nat] /\ resizing'[i] = gib
        BY <1>2, <1>3, <1>6 DEF Concerns, Inv, TypeOK
    <2>2. VolumesNamed(n)' = VolumesNamed(n)
        BY <1>1, <1>6 DEF VolumesNamed, Live, n
    <2>3. ClaimOK(n)'
        BY <1>1, <1>2, <1>4, <1>6, <2>2 DEF Inv, ClaimInv, ClaimOK, coVars, n
    <2>4. ResizeInv'
        BY <1>2, <1>3, <1>6 DEF Inv, TypeOK, ResizeInv, Live
    <2>5. CASE action' = [action EXCEPT ![c] = "in-progress"] /\ Goto(c, "waitAction")
        <3>1. Consistent(c)'
            BY <1>1, <2>5, SizeUndisturbed
               DEF Inv, HandlerInv, TypeOK, Consistent, Goto, CreateSteps, ExpandSteps
        <3>2. req[c].op = "create" => req[c].snapshot # None
            BY <1>1, <1>2, CreateRequest DEF n
        <3>3. gib # 0
            BY <1>3, <1>6
        <3>4. Knows(c)'
            BY <1>1, <1>2, <1>3, <2>1, <2>2, <2>5, <3>2, <3>3, SizeUndisturbed
               DEF Inv, TypeOK, Knows, Goto, n, gib
        <3>5. TypeOK'
            BY <1>1, <1>6, <2>1, <2>5, GotoType DEF Inv, TypeOK, coVars, Labels
        <3>6. QED
            BY <1>1, <1>2, <2>1, <2>3, <2>4, <2>5, <3>1, <3>4, <3>5, OneCallChangesVolume
               DEF Inv, TypeOK, Same, Goto, n
    <2>6. CASE Return(c, "Internal") /\ UNCHANGED action
        <3>1. Consistent(c)' /\ Knows(c)'
            BY <1>1, <2>6, ReturnError DEF Inv, TypeOK, Codes
        <3>2. TypeOK'
            BY <1>1, <1>6, <2>1, <2>6, ReturnType DEF Inv, TypeOK, coVars, Codes
        <3>3. QED
            BY <1>1, <1>2, <2>1, <2>3, <2>4, <2>6, <3>1, <3>2, OneCallChangesVolume
               DEF Inv, TypeOK, Same, Return, n
    <2>7. QED
        BY <1>6, <2>5, <2>6
<1>7. ASSUME vol[i].gib < gib, resizing[i] = 0, UNCHANGED <<resizing, action>>,
             vol' = [vol EXCEPT ![i].gib = gib], ReturnNewSize(c, i)
      PROVE  Inv'
    <2>1. /\ Concerns(i, n) /\ vol'[i].gib = gib /\ vol'[i].state = "live"
          /\ vol' \in [Ids -> [state : {"live", "gone"}, name : Names, gib : Nat \ {0}]
                                   \union {NoVolume}]
        BY <1>2, <1>3, <1>7 DEF Concerns, Inv, TypeOK
    <2>2. VolumesNamed(n)' = VolumesNamed(n)
        BY <1>1, <1>2, <1>3, <2>1 DEF VolumesNamed, Live, Concerns, n
    <2>3. ClaimOK(n)'
        <3>1. phase[n] = "bound" => /\ bound[n].id = i /\ InGiB(bound[n].bytes) <= vol[i].gib
                                    /\ InGiB(bound[n].bytes) \in Nat
            BY <1>1, <1>4, BytesInGiB
               DEF Inv, TypeOK, ClaimInv, ClaimOK, Responses, NoResponse
        <3>2. phase[n] = "bound" => InGiB(bound[n].bytes) <= gib
            BY <1>3, <1>7, <3>1
        <3>3. QED
            BY <1>1, <1>2, <1>4, <1>7, <2>1, <2>2, <3>1, <3>2
               DEF Inv, ClaimInv, ClaimOK, coVars, n
    <2>4. ResizeInv'
        BY <1>2, <1>7, <2>1 DEF Inv, ResizeInv, Concerns, Live
    <2>5. /\ Consistent(c)' /\ Knows(c)'
          /\ pc' \in [Calls -> ApiSteps \union {"idle", "waitAction", "done"}]
          /\ result' \in [Calls -> Codes \union {"none"}]
          /\ resp' \in [Calls -> Responses]
          /\ \A d \in Calls \ {c} :
               pc'[d] = pc[d] /\ result'[d] = result[d] /\ resp'[d] = resp[d]
          /\ pc'[c] = "done"
        <3>1. /\ i \in VolumesNamed(req[c].name)' /\ vol'[i].gib \in Nat
              /\ SizeGiB(c) <= vol'[i].gib /\ volID' \in [Calls -> Ids \union {0}]
              /\ SizeGiB(c) # 0
            BY <1>1, <1>2, <1>3, <1>7, <2>1, <2>2 DEF Inv, TypeOK, n, gib
        <3>2. QED
            BY <1>1, <1>2, <1>7, <3>1, NewSizeReturned
    <2>6. TypeOK'
        BY <1>1, <1>7, <2>1, <2>5 DEF Inv, TypeOK, coVars
    <2>7. QED
        BY <1>1, <1>2, <1>7, <2>1, <2>3, <2>4, <2>5, <2>6, OneCallChangesVolume DEF Same, n
<1>8. QED
    BY <1>5, <1>6, <1>7 DEF Resize, ResizeAccepted, i, gib

LEMMA ResizeVolumeInv ==
    ASSUME Inv, NEW c \in Calls, ResizeRestored(c) \/ ResizeVolume(c)
    PROVE  Inv'
BY ResizeInvariant
   DEF ResizeRestored, ResizeVolume, Inv, HandlerInv, Consistent, CreateSteps, ExpandSteps, Target

\* DeleteVolume takes the volume of the claim away, or finds it gone.
LEMMA DeleteVolumeInv ==
    ASSUME Inv, NEW c \in Calls, DeleteVolume(c)
    PROVE  Inv'
<1> DEFINE n == req[c].name
           i == req[c].id
<1>1. /\ pc[c] = "DeleteVolume" /\ Waiting(c) /\ req[c].op = "delete" /\ result[c] = "none"
      /\ req[c] \in Requests /\ n \in Names /\ i \in Ids
      /\ UNCHANGED <<resizing, snapshots, coVars, req, expired, volID, action>>
    BY DEF DeleteVolume, Inv, HandlerInv, Consistent, Requests
<1>2. /\ phase[n] = "deleting" /\ i = bound[n].id /\ vol[i].state # "free"
      /\ vol[i].name = n /\ VolumesNamed(n) \subseteq {i}
    BY <1>1 DEF Inv, DisciplineInv, ClaimInv, ClaimOK
<1>3. CASE UNCHANGED vol /\ Return(c, "Unknown")
    <2>1. Consistent(c)' /\ Knows(c)'
        BY <1>1, <1>3, ReturnError DEF Inv, TypeOK, HandlerInv, Consistent, Codes
    <2>2. TypeOK'
        BY <1>1, <1>3, ReturnType DEF Inv, TypeOK, coVars, Codes
    <2>3. QED
        BY <1>1, <1>3, <2>1, <2>2, OneCallMoves DEF Inv, TypeOK, Same, Return
<1>4. CASE UNCHANGED vol /\ ~Live(i) /\ Return(c, "OK")
    <2>1. Consistent(c)' /\ Knows(c)'
        BY <1>1, <1>4, SizeUndisturbed
           DEF Inv, HandlerInv, TypeOK, Consistent, Knows, Return, CreateSteps, ExpandSteps, Live
    <2>2. TypeOK'
        BY <1>1, <1>4, ReturnType DEF Inv, TypeOK, coVars, Codes
    <2>3. QED
        BY <1>1, <1>4, <2>1, <2>2, OneCallMoves DEF Inv, TypeOK, Same, Return
<1>5. ASSUME Live(i), resizing[i] = 0, vol' = [vol EXCEPT ![i].state = "gone"],
             NEW code \in {"OK", "Unknown"}, Return(c, code)
      PROVE  Inv'
    <2>1. /\ vol[i] \in [state : {"live", "gone"}, name : Names, gib : Nat \ {0}]
          /\ vol'[i].state = "gone" /\ vol'[i].name = vol[i].name
          /\ \A j \in Ids \ {i} : vol'[j] = vol[j]
          /\ vol' \in [Ids -> [state : {"live", "gone"}, name : Names, gib : Nat \ {0}]
                                   \union {NoVolume}]
        BY <1>1, <1>5 DEF Inv, TypeOK, Live, NoVolume
    <2>2. n' = n /\ i' = i
        BY <1>1
    <2>3. Concerns(i, n)
        BY <1>1, <1>2, <2>1 DEF Concerns
    <2>4. VolumesNamed(n)' = {}
        BY <1>1, <1>2, <2>1, <2>2 DEF VolumesNamed, Live
    <2>5. ClaimOK(n)'
        BY <1>1, <1>2, <2>1, <2>2, <2>4 DEF ClaimOK, coVars
    <2>6. ResizeInv'
        BY <1>1, <1>5, <2>1 DEF Inv, ResizeInv, Live
    <2>7. Consistent(c)' /\ Knows(c)'
        BY <1>1, <1>5, <2>1, SizeUndisturbed
           DEF Inv, HandlerInv, TypeOK, Consistent, Knows, Return, CreateSteps, ExpandSteps, Live
    <2>8. TypeOK'
        BY <1>1, <1>5, <2>1, ReturnType DEF Inv, TypeOK, coVars, Codes
    <2>9. QED
        BY <1>1, <1>5, <2>3, <2>5, <2>6, <2>7, <2>8, OneCallChangesVolume
           DEF Inv, TypeOK, Same, Return
<1>6. QED
    BY <1>3, <1>4, <1>5 DEF DeleteVolume, DeleteCode

\* An action that ends makes the volume as large as was asked for, or leaves it
\* as it is.  Only the calls of its claim poll it.
LEMMA EndResizeInv ==
    ASSUME Inv, NEW i \in Ids, FinishResize(i) \/ FailResize(i)
    PROVE  Inv'
<1> DEFINE n == vol[i].name
<1>1. PICK gib \in Nat, status \in {"completed", "errored"} :
        /\ EndResize(i, gib, status) /\ vol[i].gib <= gib
        /\ status = "completed" => gib = resizing[i]
    <2>1. vol[i].gib \in Nat /\ resizing[i] \in Nat
        BY DEF Inv, TypeOK, NoVolume
    <2>2. CASE FinishResize(i)
        <3>1. EndResize(i, resizing[i], "completed") /\ resizing[i] # 0
            BY <2>2 DEF FinishResize, EndResize
        <3>2. vol[i].gib <= resizing[i]
            BY <2>1, <3>1 DEF Inv, ResizeInv
        <3>3. QED
            BY <2>1, <3>1, <3>2
    <2>3. CASE FailResize(i)
        BY <2>1, <2>3 DEF FailResize
    <2>4. QED
        BY <2>2, <2>3
<1>2. /\ Live(i) /\ resizing[i] # 0
      /\ vol[i] \in [state : {"live", "gone"}, name : Names, gib : Nat \ {0}]
      /\ UNCHANGED <<snapshots, coVars, pc, req, expired, result, volID, resp>>
    BY <1>1 DEF EndResize, Inv, ResizeInv, TypeOK, Live, NoVolume
<1>3. /\ n \in Names /\ i \in VolumesNamed(n) /\ gib \in Nat \ {0}
    BY <1>1, <1>2 DEF VolumesNamed
<1>4. /\ vol' \in [Ids -> [state : {"live", "gone"}, name : Names, gib : Nat \ {0}]
                               \union {NoVolume}]
      /\ vol'[i] = [vol[i] EXCEPT !.gib = gib]
      /\ \A j \in Ids \ {i} : vol'[j] = vol[j] /\ resizing'[j] = resizing[j]
      /\ resizing' \in [Ids -> Nat] /\ resizing'[i] = 0
    BY <1>1, <1>2, <1>3 DEF EndResize, Inv, TypeOK
<1>5. /\ action' \in [Calls -> {"none", "in-progress", "completed", "errored"}]
      /\ \A d \in Calls :
            action'[d] = IF action[d] = "in-progress" /\ i \in {req[d].id, volID[d]}
                         THEN status ELSE action[d]
    BY <1>1 DEF EndResize, Inv, TypeOK
<1>6. vol'[i].state = "live" /\ vol'[i].name = n /\ vol'[i].gib = gib
    BY <1>2, <1>4 DEF Live
<1>7. PICK m \in Names : m = n
    BY <1>3
<1> HIDE DEF n
<1>8. /\ Concerns(i, m) /\ i \in VolumesNamed(m) /\ VolumesNamed(m)' = VolumesNamed(m)
      /\ \A j \in VolumesNamed(m) : j = i
    BY <1>2, <1>3, <1>4, <1>6, <1>7
       DEF Concerns, VolumesNamed, Live, Inv, ClaimInv, ClaimOK, n
<1>9. TypeOK'
    BY <1>2, <1>4, <1>5 DEF Inv, TypeOK, coVars
<1>10. HandlerInv'
    <2> SUFFICES ASSUME NEW d \in Calls
                 PROVE  Consistent(d)'
        BY DEF HandlerInv
    <2>1. Consistent(d) /\ (pc[d] = "idle" => action'[d] = action[d])
        BY <1>5 DEF Inv, HandlerInv, Consistent
    <2>2. QED
        BY <1>2, <2>1, SizeUndisturbed DEF Consistent
<1>11. DisciplineInv'
    BY <1>2, DisciplineUndisturbed DEF Inv
<1>12. ResizeInv'
    BY <1>4 DEF Inv, ResizeInv, Live
<1>13. ClaimInv'
    <2>1. ClaimOK(m)'
        <3>1. ClaimOK(m) /\ ClaimSize(m)' = ClaimSize(m)
            BY <1>2 DEF Inv, ClaimInv, ClaimSize, coVars
        <3>2. phase[m] = "bound" => bound[m].id = i /\ InGiB(bound[m].bytes) <= gib
            <4> SUFFICES ASSUME phase[m] = "bound"
                         PROVE  bound[m].id = i /\ InGiB(bound[m].bytes) <= gib
                OBVIOUS
            <4>1. bound[m].id = i /\ InGiB(bound[m].bytes) <= vol[i].gib
                BY <1>8, <3>1 DEF ClaimOK
            <4>2. InGiB(bound[m].bytes) \in Nat
                BY BytesInGiB DEF Inv, TypeOK, Responses, NoResponse
            <4>3. QED
                BY <1>1, <1>2, <4>1, <4>2
        <3>3. phase[m] = "creating" => ~(want[m].snapshot = None /\ Whole(ClaimSize(m)))
            BY <1>2, <1>8, <3>1 DEF ClaimOK
        <3>4. QED
            BY <1>2, <1>4, <1>6, <1>7, <1>8, <3>1, <3>2, <3>3
               DEF ClaimOK, coVars
    <2>2. QED
        BY <1>2, <1>8, <2>1, OtherClaims DEF ClaimInv
<1>14. KnowledgeInv'
    <2> SUFFICES ASSUME NEW d \in Calls, Waiting(d)
                 PROVE  Knows(d)'
        BY <1>2 DEF KnowledgeInv
    <2>1. /\ Knows(d) /\ Consistent(d) /\ req[d] \in Requests
          /\ Target(d)' = Target(d)
        BY <1>2 DEF Inv, KnowledgeInv, HandlerInv, Consistent, Target
    <2>2. pc[d] = "waitAction" =>
             Target(d) \in VolumesNamed(req[d].name) /\ Target(d) \in {req[d].id, volID[d]}
        BY <2>1 DEF Knows, Target
    <2>3. pc[d] = "waitAction" /\ i \in {req[d].id, volID[d]} => Target(d) = i
        <3>1. i # 0
            BY ProvisioningAssumption
        <3>2. QED
            BY <2>1, <3>1 DEF Consistent, Requests, Target
    <2>4. CASE req[d].name = m
        <3>1. pc[d] = "waitAction" =>
                /\ Target(d) = i /\ action'[d] # "in-progress"
                /\ action'[d] = "completed" => SizeGiB(d) <= gib
            <4> SUFFICES ASSUME pc[d] = "waitAction"
                         PROVE  /\ Target(d) = i /\ action'[d] # "in-progress"
                                /\ action'[d] = "completed" => SizeGiB(d) <= gib
                OBVIOUS
            <4>1. Target(d) = i /\ i \in {req[d].id, volID[d]}
                BY <1>8, <2>2, <2>4
            <4>2. SizeGiB(d) \in Nat
                BY <2>1, RequestSize DEF Consistent
            <4>3. action[d] = "in-progress" => resizing[i] = SizeGiB(d)
                BY <2>1, <4>1 DEF Knows
            <4>4. action[d] = "completed" => SizeGiB(d) <= vol[i].gib
                BY <2>1, <4>1 DEF Knows
            <4>5. QED
                BY <1>1, <1>2, <1>5, <4>1, <4>2, <4>3, <4>4
        <3>2. result[d] = "OK" /\ req[d].op \in {"create", "expand"} =>
                resp[d].id = i /\ InGiB(resp[d].bytes) <= gib
            <4> SUFFICES ASSUME result[d] = "OK", req[d].op \in {"create", "expand"}
                         PROVE  resp[d].id = i /\ InGiB(resp[d].bytes) <= gib
                OBVIOUS
            <4>1. resp[d].id = i /\ InGiB(resp[d].bytes) <= vol[i].gib
                BY <1>8, <2>1, <2>4 DEF Knows
            <4>2. InGiB(resp[d].bytes) \in Nat
                BY BytesInGiB DEF Inv, TypeOK, Responses, NoResponse
            <4>3. QED
                BY <1>1, <1>2, <4>1, <4>2
        <3>3. req[d].op = "delete" /\ ~Live(req[d].id) => ~Live(req[d].id)'
            BY <1>2, <1>4, <2>1 DEF Live, Requests
        <3>4. QED
            BY <1>2, <1>6, <1>8, <2>1, <2>4, <3>1, <3>2, <3>3, SizeUndisturbed DEF Knows
    <2>5. CASE req[d].name # m
        <3>1. pc[d] = "waitAction" => action'[d] = action[d]
            BY <1>5, <1>7, <2>2, <2>3, <2>5 DEF VolumesNamed, n
        <3>2. QED
            BY <1>2, <1>8, <2>5, <3>1, OthersKnow DEF Steady
    <2>6. QED
        BY <2>4, <2>5
<1>15. QED
    BY <1>9, <1>10, <1>11, <1>12, <1>13, <1>14 DEF Inv

-----------------------------------------------------------------------------
(* The environment *)

LEMMA ExpireInv ==
    ASSUME Inv, NEW c \in Calls, Expire(c)
    PROVE  Inv'
<1>1. /\ pc[c] # "idle" /\ expired' \in [Calls -> BOOLEAN] /\ expired'[c]
      /\ \A d \in Calls \ {c} : expired'[d] = expired[d]
      /\ UNCHANGED <<vol, resizing, snapshots, coVars, pc, req, result, volID, action, resp>>
    BY DEF Expire, Inv, TypeOK, apiVars
<1>2. TypeOK'
    BY <1>1 DEF Inv, TypeOK, coVars
<1>3. HandlerInv'
    BY <1>1, SizeUndisturbed DEF Inv, HandlerInv, Consistent
<1>4. \A d \in Calls : Waiting(d)' => Waiting(d) /\ d # c
    BY <1>1
<1>5. KnowledgeInv'
    BY <1>1, <1>4, KnowsSame DEF Inv, KnowledgeInv, Same
<1>6. QED
    BY <1>1, <1>2, <1>3, <1>4, <1>5, DisciplineUndisturbed, ClaimsUndisturbed DEF Inv

\* A restart ends every call with an error.
LEMMA RestartInv ==
    ASSUME Inv, Restart
    PROVE  Inv'
<1>1. UNCHANGED <<vol, resizing, snapshots, coVars, req, expired, volID, action, resp>>
    BY DEF Restart, apiVars
<1>2. /\ pc' \in [Calls -> {"done", "idle"}] /\ result' \in [Calls -> {"Unavailable", "none"}]
      /\ \A d \in Calls :
            /\ pc'[d] = "idle" <=> pc[d] = "idle"
            /\ pc'[d] = "done" <=> result'[d] # "none"
    BY DEF Restart
<1>3. TypeOK'
    BY <1>1, <1>2 DEF Inv, TypeOK, coVars, Codes
<1>4. HandlerInv'
    BY <1>1, <1>2, SizeUndisturbed DEF Inv, HandlerInv, Consistent, CreateSteps, ExpandSteps
<1>5. KnowledgeInv'
    BY <1>1, <1>2 DEF KnowledgeInv, Knows
<1>6. QED
    BY <1>1, <1>2, <1>3, <1>4, <1>5, DisciplineUndisturbed, ClaimsUndisturbed DEF Inv

LEMMA DeleteSnapshotInv ==
    ASSUME Inv, NEW s, DeleteSnapshot(s)
    PROVE  Inv'
<1>1. snapshots' \subseteq snapshots /\ UNCHANGED <<vol, resizing, callVars, coVars>>
    BY DEF DeleteSnapshot
<1>2. TypeOK'
    BY <1>1 DEF Inv, TypeOK, callVars, coVars
<1>3. \A d \in Calls : Same(d)
    BY <1>1 DEF callVars, Same
<1>4. HandlerInv'
    BY <1>3, ConsistentSame DEF Inv, HandlerInv
<1>5. KnowledgeInv'
    BY <1>1, <1>3, KnowsSame DEF Inv, KnowledgeInv, Same
<1>6. QED
    BY <1>1, <1>2, <1>3, <1>4, <1>5, DisciplineUndisturbed, ClaimsUndisturbed
       DEF Inv, callVars

\* A new call for a claim no call is waited for.
LEMMA CallBegins ==
    ASSUME Inv, TypeOK', NEW c \in Calls, pc[c] = "idle", NEW r \in Requests, Quiet(r.name),
           req' = [req EXCEPT ![c] = r], UNCHANGED <<vol, resizing, want, bound, expired, volID, action>>,
           \A d \in Calls \ {c} : pc'[d] = pc[d] /\ result'[d] = result[d] /\ resp'[d] = resp[d],
           \A m \in Names \ {r.name} : phase'[m] = phase[m],
           Consistent(c)', Knows(c)', ClaimOK(r.name)',
           LET n == r.name IN
           /\ r.op = "create" =>
               /\ phase'[n] = "creating"
               /\ r.range = want[n].range /\ r.snapshot = want[n].snapshot
           /\ r.op = "expand" => phase'[n] = "bound" /\ r.id = bound[n].id
           /\ r.op = "delete" => phase'[n] = "deleting" /\ r.id = bound[n].id
    PROVE  Inv'
<1>1. r.name \in Names /\ req'[c] = r /\ \A d \in Calls \ {c} : Same(d)
    BY DEF Inv, TypeOK, Same, Requests
<1>2. HandlerInv'
    BY <1>1, ConsistentSame DEF Inv, HandlerInv
<1>3. \A d \in Calls \ {c} : Waiting(d)' => /\ Waiting(d) /\ req'[d] = req[d]
                                            /\ req[d].name \in Names \ {r.name}
    BY <1>1 DEF Same, Quiet, Inv, HandlerInv, Consistent, Requests
<1>4. DisciplineInv'
    <2>1. ASSUME NEW d \in Calls, NEW e \in Calls, Waiting(d)', Waiting(e)',
                 req'[d].name = req'[e].name
          PROVE  d = e
        BY <1>1, <1>3, <2>1 DEF Inv, DisciplineInv
    <2>2. ASSUME NEW d \in Calls, Waiting(d)'
          PROVE  LET n == req'[d].name IN
                 /\ req'[d].op = "create" =>
                     /\ phase'[n] = "creating"
                     /\ req'[d].range = want'[n].range /\ req'[d].snapshot = want'[n].snapshot
                 /\ req'[d].op = "expand" => phase'[n] = "bound" /\ req'[d].id = bound'[n].id
                 /\ req'[d].op = "delete" => phase'[n] = "deleting" /\ req'[d].id = bound'[n].id
        <3>1. CASE d = c
            BY <1>1, <3>1
        <3>2. CASE d # c
            BY <1>3, <2>2, <3>2 DEF Inv, DisciplineInv
        <3>3. QED
            BY <3>1, <3>2
    <2>3. QED
        BY <2>1, <2>2 DEF DisciplineInv
<1>5. ClaimInv'
    <2> SUFFICES ASSUME NEW m \in Names \ {r.name}
                 PROVE  ClaimOK(m)'
        BY <1>1 DEF ClaimInv
    <2>1. ClaimOK(m) /\ phase'[m] = phase[m] /\ VolumesNamed(m)' = VolumesNamed(m)
          /\ ClaimSize(m)' = ClaimSize(m)
        BY DEF Inv, ClaimInv, VolumesNamed, Live, ClaimSize
    <2>2. QED
        BY <2>1 DEF ClaimOK
<1>6. ResizeInv'
    BY DEF Inv, ResizeInv, Live
<1>7. KnowledgeInv'
    BY <1>1, <1>3, KnowsSame DEF Inv, KnowledgeInv
<1>8. QED
    BY <1>2, <1>4, <1>5, <1>6, <1>7 DEF Inv

\* A create: either its handler starts, or it refuses the request.
LEMMA COCreateInv ==
    ASSUME Inv, NEW c \in Calls, NEW n \in Names, COCreate(c, n)
    PROVE  Inv'
<1> DEFINE w == want[n]
           r == [op |-> "create", name |-> n, id |-> 0, range |-> w.range,
                 snapshot |-> w.snapshot]
<1>1. /\ pc[c] = "idle" /\ Quiet(n) /\ phase[n] \in {"absent", "creating"}
      /\ phase' = [phase EXCEPT ![n] = "creating"] /\ req' = [req EXCEPT ![c] = r]
      /\ UNCHANGED <<vol, resizing, snapshots, want, bound, expired, volID, action>>
      /\ \/ ClaimSize(n) # OutOfRange /\ Goto(c, "ListVolumes")
         \/ \E code \in {"OutOfRange", "InvalidArgument", "ResourceExhausted"} :
                Return(c, code) /\ (code = "OutOfRange" => ClaimSize(n) = OutOfRange)
    BY DEF COCreate, Begin, apiVars, ClaimSize
<1>2. /\ r \in Requests /\ w.range \in CreateRanges /\ w.snapshot \in Snapshots \union {None}
      /\ r.op = "create" /\ r.name = n /\ r.range = w.range /\ r.snapshot = w.snapshot
    BY DEF Inv, TypeOK, Claims, Requests
<1> HIDE DEF w, r
<1>3. /\ phase' \in [Names -> {"absent", "creating", "bound", "deleting", "deleted"}]
      /\ phase'[n] = "creating" /\ \A m \in Names \ {n} : phase'[m] = phase[m]
      /\ req' \in [Calls -> Requests \union {NoRequest}] /\ req'[c] = r
    BY <1>1, <1>2 DEF Inv, TypeOK
<1>4. ClaimOK(n)'
    BY <1>1, <1>3 DEF Inv, ClaimInv, ClaimOK, VolumesNamed, Live, ClaimSize
<1>5. Size(c)' = ClaimSize(n) /\ volID[c] = 0 /\ result[c] = "none" /\ action[c] = "none"
    BY <1>1, <1>2, <1>3 DEF Size, ClaimSize, w, Inv, HandlerInv, Consistent
<1>6. CASE ClaimSize(n) # OutOfRange /\ Goto(c, "ListVolumes")
    <2>1. Consistent(c)' /\ Knows(c)'
        BY <1>1, <1>2, <1>3, <1>5, <1>6
           DEF Inv, TypeOK, Consistent, Knows, Goto, CreateSteps, ExpandSteps
    <2>2. TypeOK'
        BY <1>1, <1>3, <1>6, GotoType DEF Inv, TypeOK, Labels, ApiSteps, CreateSteps
    <2>3. QED
        BY <1>1, <1>2, <1>3, <1>4, <1>6, <2>1, <2>2, CallBegins DEF Inv, TypeOK, Goto, w
<1>7. ASSUME NEW code \in {"OutOfRange", "InvalidArgument", "ResourceExhausted"}, Return(c, code),
             code = "OutOfRange" => ClaimSize(n) = OutOfRange
      PROVE  Inv'
    <2>1. Consistent(c)' /\ Knows(c)'
        BY <1>1, <1>2, <1>3, <1>5, <1>7
           DEF Inv, TypeOK, Consistent, Knows, Return, CreateSteps, ExpandSteps
    <2>2. TypeOK'
        BY <1>1, <1>3, <1>7, ReturnType DEF Inv, TypeOK, Codes
    <2>3. QED
        BY <1>1, <1>2, <1>3, <1>4, <1>7, <2>1, <2>2, CallBegins DEF Inv, TypeOK, Return, w
<1>8. QED
    BY <1>1, <1>6, <1>7

LEMMA COExpandInv ==
    ASSUME Inv, NEW c \in Calls, NEW n \in Names, NEW range \in ExpandRanges,
           COExpand(c, n, range)
    PROVE  Inv'
<1> DEFINE r == [op |-> "expand", name |-> n, id |-> bound[n].id, range |-> range,
                 snapshot |-> None]
<1>1. /\ pc[c] = "idle" /\ Quiet(n) /\ phase[n] = "bound" /\ UNCHANGED phase
      /\ req' = [req EXCEPT ![c] = r] /\ Goto(c, "ExpandGetVolume")
      /\ UNCHANGED <<vol, resizing, snapshots, want, bound, expired, volID, action>>
    BY DEF COExpand, Begin, apiVars
<1>2. bound[n].id \in Ids
    BY <1>1 DEF Inv, ClaimInv, ClaimOK, VolumesNamed
<1>3. /\ r \in Requests /\ r.op = "expand" /\ r.name = n /\ r.id = bound[n].id
    BY <1>2 DEF Requests
<1> HIDE DEF r
<1>4. req' \in [Calls -> Requests \union {NoRequest}] /\ req'[c] = r
    BY <1>1, <1>3 DEF Inv, TypeOK
<1>5. ClaimOK(n)'
    BY <1>1 DEF Inv, ClaimInv, ClaimOK, VolumesNamed, Live, ClaimSize
<1>6. volID[c] = 0 /\ result[c] = "none" /\ action[c] = "none"
    BY <1>1 DEF Inv, HandlerInv, Consistent
<1>7. Consistent(c)' /\ Knows(c)'
    BY <1>1, <1>3, <1>4, <1>6
       DEF Inv, TypeOK, Consistent, Knows, Goto, CreateSteps, ExpandSteps
<1>8. TypeOK'
    BY <1>1, <1>4, GotoType DEF Inv, TypeOK, Labels, ApiSteps, ExpandSteps
<1>9. QED
    BY <1>1, <1>3, <1>4, <1>5, <1>7, <1>8, CallBegins DEF Inv, TypeOK, Goto

LEMMA CODeleteInv ==
    ASSUME Inv, NEW c \in Calls, NEW n \in Names, CODelete(c, n)
    PROVE  Inv'
<1> DEFINE r == [op |-> "delete", name |-> n, id |-> bound[n].id,
                 range |-> NoRequest.range, snapshot |-> None]
<1>1. /\ pc[c] = "idle" /\ Quiet(n) /\ phase[n] \in {"bound", "deleting"}
      /\ phase' = [phase EXCEPT ![n] = "deleting"]
      /\ req' = [req EXCEPT ![c] = r] /\ Goto(c, "DeleteVolume")
      /\ UNCHANGED <<vol, resizing, snapshots, want, bound, expired, volID, action>>
    BY DEF CODelete, Begin, apiVars
<1>2. /\ bound[n].id \in Ids /\ vol[bound[n].id].state # "free" /\ vol[bound[n].id].name = n
      /\ VolumesNamed(n) \subseteq {bound[n].id} /\ \A i, j \in VolumesNamed(n) : i = j
    <2>1. ClaimOK(n)
        BY DEF Inv, ClaimInv
    <2>2. CASE phase[n] = "bound"
        BY <2>1, <2>2 DEF ClaimOK, VolumesNamed, Live
    <2>3. CASE phase[n] = "deleting"
        BY <2>1, <2>3 DEF ClaimOK
    <2>4. QED
        BY <1>1, <2>2, <2>3
<1>3. r \in Requests /\ r.op = "delete" /\ r.name = n /\ r.id = bound[n].id
    BY <1>2 DEF Requests
<1> HIDE DEF r
<1>4. /\ req' \in [Calls -> Requests \union {NoRequest}] /\ req'[c] = r
      /\ phase' \in [Names -> {"absent", "creating", "bound", "deleting", "deleted"}]
      /\ phase'[n] = "deleting" /\ \A m \in Names \ {n} : phase'[m] = phase[m]
    BY <1>1, <1>3 DEF Inv, TypeOK
<1>5. ClaimOK(n)'
    <2>1. VolumesNamed(n)' = VolumesNamed(n)
        BY <1>1 DEF VolumesNamed, Live
    <2>2. QED
        BY <1>1, <1>2, <1>4, <2>1 DEF ClaimOK
<1>6. volID[c] = 0 /\ result[c] = "none" /\ action[c] = "none"
    BY <1>1 DEF Inv, HandlerInv, Consistent
<1>7. Consistent(c)' /\ Knows(c)'
    BY <1>1, <1>3, <1>4, <1>6
       DEF Inv, TypeOK, Consistent, Knows, Goto, CreateSteps, ExpandSteps
<1>8. TypeOK'
    BY <1>1, <1>4, GotoType DEF Inv, TypeOK, Labels, ApiSteps
<1>9. QED
    BY <1>1, <1>3, <1>4, <1>5, <1>7, <1>8, CallBegins DEF Inv, TypeOK, Goto

\* An answer that is believed binds the claim to a volume that is what the
\* answer says, or tells that the claim's volume is gone.
LEMMA COCollectInv ==
    ASSUME Inv, NEW c \in Calls, COCollect(c)
    PROVE  Inv'
<1> DEFINE n == req[c].name
           believed == result[c] = "OK" /\ ~expired[c]
<1>1. /\ pc[c] = "done" /\ pc' = [pc EXCEPT ![c] = "idle"]
      /\ req' = [req EXCEPT ![c] = NoRequest] /\ expired' = [expired EXCEPT ![c] = FALSE]
      /\ result' = [result EXCEPT ![c] = "none"] /\ volID' = [volID EXCEPT ![c] = 0]
      /\ action' = [action EXCEPT ![c] = "none"] /\ resp' = [resp EXCEPT ![c] = NoResponse]
      /\ UNCHANGED <<vol, resizing, snapshots, want>>
    BY DEF COCollect, apiVars
<1>2. PICK m \in Names : m = n
    BY <1>1 DEF Inv, HandlerInv, Consistent, Requests
<1>3. /\ phase' = [phase EXCEPT ![m] =
             IF ~believed THEN @ ELSE IF req[c].op = "delete" THEN "deleted" ELSE "bound"]
      /\ bound' = [bound EXCEPT ![m] =
             IF believed /\ req[c].op # "delete" THEN resp[c] ELSE @]
    BY <1>2 DEF COCollect
<1>4. req[c] \in Requests /\ req[c].op \in {"create", "expand", "delete"}
    BY <1>1 DEF Inv, HandlerInv, Consistent, Requests
<1>5. believed => Waiting(c) /\ result[c] = "OK"
    BY <1>1
<1> HIDE DEF n, believed
<1>6. /\ expired' \in [Calls -> BOOLEAN]
      /\ phase' \in [Names -> {"absent", "creating", "bound", "deleting", "deleted"}]
      /\ bound' \in [Names -> Responses]
      /\ \A k \in Names \ {m} : phase'[k] = phase[k] /\ bound'[k] = bound[k]
      /\ ~believed => phase'[m] = phase[m] /\ bound'[m] = bound[m]
      /\ believed /\ req[c].op = "delete" => phase'[m] = "deleted"
      /\ believed /\ req[c].op # "delete" => phase'[m] = "bound" /\ bound'[m] = resp[c]
    BY <1>1, <1>3 DEF Inv, TypeOK
<1>7. TypeOK'
    BY <1>1, <1>6 DEF Inv, TypeOK, Responses, NoResponse
<1>8. Consistent(c)' /\ \A d \in Calls \ {c} : Same(d)
    BY <1>1 DEF Inv, TypeOK, Same, Consistent, CreateSteps, ExpandSteps, NoRequest
<1>9. HandlerInv'
    BY <1>8, ConsistentSame DEF Inv, HandlerInv
<1>10. \A d \in Calls : Waiting(d)' => d # c /\ Waiting(d)
    BY <1>1, <1>8 DEF Inv, TypeOK, Same
<1>11. KnowledgeInv'
    BY <1>1, <1>8, <1>10, KnowsSame DEF Inv, KnowledgeInv
<1>12. ResizeInv'
    BY <1>1 DEF Inv, ResizeInv, Live
<1>13. DisciplineInv'
    <2>1. ASSUME NEW d \in Calls, NEW e \in Calls, Waiting(d)', Waiting(e)',
                 req'[d].name = req'[e].name
          PROVE  d = e
        BY <1>8, <1>10, <2>1 DEF Inv, DisciplineInv, Same
    <2>2. ASSUME NEW d \in Calls, Waiting(d)'
          PROVE  LET k == req'[d].name IN
                 /\ req'[d].op = "create" =>
                     /\ phase'[k] = "creating"
                     /\ req'[d].range = want'[k].range /\ req'[d].snapshot = want'[k].snapshot
                 /\ req'[d].op = "expand" => phase'[k] = "bound" /\ req'[d].id = bound'[k].id
                 /\ req'[d].op = "delete" => phase'[k] = "deleting" /\ req'[d].id = bound'[k].id
        <3>1. Waiting(d) /\ d # c /\ req'[d] = req[d] /\ req[d].name \in Names
            BY <1>8, <1>10, <2>2 DEF Same, Inv, HandlerInv, Consistent, Requests
        <3>2. believed => req[d].name # m
            BY <1>2, <1>5, <3>1 DEF Inv, DisciplineInv, n
        <3>3. phase'[req[d].name] = phase[req[d].name] /\ bound'[req[d].name] = bound[req[d].name]
            BY <1>6, <3>1, <3>2
        <3>4. QED
            BY <1>1, <3>1, <3>3 DEF Inv, DisciplineInv
    <2>3. QED
        BY <2>1, <2>2 DEF DisciplineInv
<1>14. ClaimInv'
    <2> SUFFICES ASSUME NEW k \in Names
                 PROVE  ClaimOK(k)'
        BY DEF ClaimInv
    <2>1. ClaimOK(k) /\ VolumesNamed(k)' = VolumesNamed(k) /\ ClaimSize(k)' = ClaimSize(k)
        BY <1>1 DEF Inv, ClaimInv, VolumesNamed, Live, ClaimSize
    <2>2. CASE phase'[k] = phase[k] /\ bound'[k] = bound[k]
        BY <1>1, <2>1, <2>2 DEF ClaimOK
    <2>3. CASE k = m /\ believed /\ req[c].op = "delete"
        <3>1. VolumesNamed(k) \subseteq {req[c].id} /\ ~Live(req[c].id)
            BY <1>2, <1>5, <2>1, <2>3 DEF Inv, DisciplineInv, KnowledgeInv, Knows, ClaimOK, n
        <3>2. VolumesNamed(k) = {}
            BY <3>1 DEF VolumesNamed
        <3>3. QED
            BY <1>6, <2>1, <2>3, <3>2 DEF ClaimOK
    <2>4. CASE k = m /\ believed /\ req[c].op \in {"create", "expand"}
        <3>1. Waiting(c) /\ Knows(c) /\ result[c] = "OK"
            BY <1>5, <2>4 DEF Inv, KnowledgeInv
        <3>2. /\ resp[c].id \in VolumesNamed(k) /\ InGiB(resp[c].bytes) <= vol[resp[c].id].gib
              /\ Size(c) # OutOfRange
              /\ req[c].op = "create" => resp[c].bytes = Size(c)
              /\ req[c].op = "expand" => Whole(resp[c].bytes)
            BY <1>2, <2>4, <3>1 DEF Knows, n
        <3>3. WholeSizes => Whole(resp[c].bytes)
            <4>1. req[c].op = "create" => req[c].range \in CreateRanges
                BY <1>4 DEF Requests
            <4>2. QED
                BY <2>4, <3>2, <4>1 DEF WholeSizes, Size
        <3>4. phase'[k] = "bound" /\ bound'[k] = resp[c]
            BY <1>6, <2>4
        <3>5. QED
            BY <1>1, <2>1, <3>2, <3>3, <3>4 DEF ClaimOK
    <2>5. QED
        BY <1>4, <1>6, <2>2, <2>3, <2>4
<1>15. QED
    BY <1>7, <1>9, <1>11, <1>12, <1>13, <1>14 DEF Inv

-----------------------------------------------------------------------------
(* The theorems *)

LEMMA InitInv == Init => Inv
<1> SUFFICES ASSUME Init
             PROVE  Inv
    OBVIOUS
<1>1. TypeOK
    BY DEF Init, TypeOK, Responses
<1>2. HandlerInv
    BY DEF Init, HandlerInv, Consistent, CreateSteps, ExpandSteps
<1>3. \A n \in Names : VolumesNamed(n) = {} /\ phase[n] = "absent"
    BY DEF Init, VolumesNamed, Live, NoVolume
<1>4. ClaimInv
    BY <1>3 DEF ClaimInv, ClaimOK
<1>5. DisciplineInv /\ KnowledgeInv /\ ResizeInv
    BY DEF Init, DisciplineInv, KnowledgeInv, ResizeInv
<1>6. QED
    BY <1>1, <1>2, <1>4, <1>5 DEF Inv

LEMMA NextInv == Inv /\ [Next]_vars => Inv'
<1> SUFFICES ASSUME Inv, [Next]_vars
             PROVE  Inv'
    OBVIOUS
<1>1. ASSUME NEW c \in Calls, HandlerStep(c)
      PROVE  Inv'
    BY <1>1, ListVolumesInv, GetSnapshotInv, CreateVolumeInv, ResizeVolumeInv,
       ExpandGetVolumeInv, WaitActionInv, DeleteVolumeInv, ApiErrorInv DEF HandlerStep
<1>2. ASSUME UNCHANGED vars
      PROVE  Inv'
    <2>1. \A d \in Calls : Same(d)
        BY <1>2 DEF vars, callVars, Same
    <2>2. TypeOK'
        BY <1>2 DEF Inv, TypeOK, vars, apiVars, callVars, coVars
    <2>3. HandlerInv'
        BY <2>1, ConsistentSame DEF Inv, HandlerInv
    <2>4. KnowledgeInv'
        BY <1>2, <2>1, KnowsSame DEF Inv, KnowledgeInv, vars, apiVars, Same
    <2>5. QED
        BY <1>2, <2>1, <2>2, <2>3, <2>4, DisciplineUndisturbed, ClaimsUndisturbed
           DEF Inv, vars, apiVars, callVars
<1>3. QED
    BY <1>1, <1>2, ExpireInv, COCollectInv, COCreateInv, CODeleteInv, COExpandInv,
       RestartInv, EndResizeInv, DeleteSnapshotInv DEF Next, Finished

\* The inductive invariant holds: types, the discipline of calls, what every
\* claim's volumes are, and what every call that is waited for knows.
THEOREM ProvisioningInv == Spec => []Inv
BY InitInv, NextInv, PTL DEF Spec

\* However often a create is repeated, after errors, lost answers, timeouts
\* and restarts, and whatever else goes on, there is one volume of the name.
THEOREM NeverTwoVolumes == Spec => []OneVolumePerName
<1>1. Inv => OneVolumePerName
    <2> SUFFICES ASSUME Inv, NEW n \in Names
                 PROVE  Cardinality(VolumesNamed(n)) <= 1
        BY DEF OneVolumePerName
    <2>1. \A i, j \in VolumesNamed(n) : i = j
        BY DEF Inv, ClaimInv, ClaimOK
    <2>2. QED
        BY <2>1, AtMostOne
<1>2. QED
    BY <1>1, ProvisioningInv, PTL

\* After a DeleteVolume that the orchestrator believes, no volume of the claim's
\* name exists, not even one that an abandoned create made.
THEOREM DeleteLeavesNothing == Spec => []NothingLeftBehind
<1>1. Inv => NothingLeftBehind
    BY DEF Inv, ClaimInv, ClaimOK, NothingLeftBehind
<1>2. QED
    BY <1>1, ProvisioningInv, PTL

\* A CreateVolume for whole GiB without a snapshot never answers AlreadyExists
\* or finds two volumes, whatever earlier attempts did.
THEOREM PlainCreateRepeats == Spec => []PlainCreateIsIdempotent
<1>1. Inv => PlainCreateIsIdempotent
    BY DEF Inv, KnowledgeInv, Knows, PlainCreateIsIdempotent
<1>2. QED
    BY <1>1, ProvisioningInv, PTL

\* A claim that is bound names a volume of its name that exists and is as large
\* as the orchestrator was told, if claims come down to whole GiB.
THEOREM BoundVolumeIsReal == WholeSizes => (Spec => []BoundIsReal)
<1> SUFFICES ASSUME WholeSizes
             PROVE  Spec => []BoundIsReal
    OBVIOUS
<1>1. Inv => BoundIsReal
    <2> SUFFICES ASSUME Inv, NEW n \in Names, phase[n] = "bound"
                 PROVE  /\ bound[n].id \in VolumesNamed(n)
                        /\ bound[n].bytes <= vol[bound[n].id].gib * giB
        BY DEF BoundIsReal
    <2>1. /\ bound[n].id \in VolumesNamed(n) /\ Whole(bound[n].bytes)
          /\ InGiB(bound[n].bytes) <= vol[bound[n].id].gib
        BY DEF Inv, ClaimInv, ClaimOK
    <2>2. bound[n].bytes \in Nat /\ vol[bound[n].id].gib \in Nat
        BY <2>1 DEF Inv, TypeOK, Responses, NoResponse, NoVolume, VolumesNamed
    <2>3. InGiB(bound[n].bytes) \in Nat /\ bound[n].bytes = InGiB(bound[n].bytes) * giB
        BY <2>1, <2>2, BytesInGiB
    <2>4. InGiB(bound[n].bytes) * giB <= vol[bound[n].id].gib * giB
        BY <2>1, <2>2, <2>3, GiBMonotonic
    <2>5. QED
        BY <2>1, <2>3, <2>4
<1>2. QED
    BY <1>1, ProvisioningInv, PTL

\* A create or an expand that answers OK reports, and the volume has, at least
\* the capacity that was required, if ranges come down to whole GiB.
THEOREM CapacityIsDelivered == WholeSizes => (Spec => []CapacityAsRequested)
<1> SUFFICES ASSUME WholeSizes
             PROVE  Spec => []CapacityAsRequested
    OBVIOUS
<1>1. Inv => CapacityAsRequested
    <2> SUFFICES ASSUME Inv, NEW c \in Calls, Waiting(c), result[c] = "OK",
                        req[c].op \in {"create", "expand"}
                 PROVE  /\ vol[resp[c].id].gib * giB >= req[c].range.required
                        /\ resp[c].bytes >= req[c].range.required
        BY DEF CapacityAsRequested
    <2> DEFINE gib == vol[resp[c].id].gib
               bytes == resp[c].bytes
    <2>1. /\ resp[c].id \in VolumesNamed(req[c].name) /\ Size(c) # OutOfRange
          /\ SizeGiB(c) <= InGiB(bytes) /\ InGiB(bytes) <= gib
        BY DEF Inv, KnowledgeInv, Knows
    <2>2. /\ bytes \in Nat /\ gib \in Nat
          /\ req[c] \in Requests /\ req[c].range \in CreateRanges \union ExpandRanges
          /\ req[c].range.required \in Int
        <3>1. bytes \in Nat
            BY DEF Inv, TypeOK, Responses, NoResponse
        <3>2. gib \in Nat
            BY <2>1 DEF Inv, TypeOK, NoVolume, VolumesNamed
        <3>3. req[c] \in Requests
            BY DEF Inv, HandlerInv, Consistent
        <3>4. req[c].range \in CreateRanges \union ExpandRanges
            BY <3>3 DEF Requests
        <3>5. QED
            BY <3>1, <3>2, <3>3, <3>4, ProvisioningAssumption
    <2>3. /\ Size(c) \in Nat /\ req[c].range.required <= Size(c) /\ SizeGiB(c) = InGiB(Size(c))
          /\ Whole(Size(c))
        BY <2>1, <2>2, RequestSize DEF WholeSizes, Size
    <2>4. InGiB(Size(c)) \in Nat /\ Size(c) = InGiB(Size(c)) * giB
        BY <2>3, BytesInGiB
    <2>5. InGiB(bytes) \in Nat /\ InGiB(bytes) * giB <= bytes
        BY <2>2, WholePart
    <2> HIDE DEF gib, bytes
    <2>6. Size(c) <= InGiB(bytes) * giB /\ InGiB(bytes) * giB <= gib * giB
        BY <2>1, <2>2, <2>3, <2>4, <2>5, GiBMonotonic
    <2>7. InGiB(bytes) * giB \in Nat /\ gib * giB \in Nat
        BY <2>2, <2>5, CapacityAssumption
    <2>8. QED
        BY <2>2, <2>3, <2>5, <2>6, <2>7 DEF gib, bytes
<1>2. QED
    BY <1>1, ProvisioningInv, PTL

\* extractStorage's answer is the right one for every range a call is waited for
\* with: it refuses nothing it could serve but a lone limit that is too large,
\* and a create that answers OK stays within the range and the supported sizes.
THEOREM RangesAreHonoured == Spec => []RangeHonoured
<1>1. Inv => RangeHonoured
    <2> SUFFICES ASSUME Inv, NEW c \in Calls, Waiting(c)
                 PROVE  /\ result[c] = "OutOfRange" =>
                            \/ ~Satisfiable(req[c].range.required, req[c].range.limit)
                            \/ /\ ~isSet(req[c].range.required)
                               /\ req[c].range.limit > maximumVolumeSizeInBytes
                        /\ result[c] = "OK" /\ req[c].op = "create" =>
                            /\ minimumVolumeSizeInBytes <= resp[c].bytes
                            /\ Fits(resp[c].bytes, req[c].range.required, req[c].range.limit)
        BY DEF RangeHonoured
    <2>1. req[c] \in Requests
        BY DEF Inv, HandlerInv, Consistent
    <2>2. req[c].range.required \in Int /\ req[c].range.limit \in Int
        BY <2>1, ProvisioningAssumption DEF Requests, NoRequest
    <2>3. ASSUME result[c] = "OutOfRange"
          PROVE  \/ ~Satisfiable(req[c].range.required, req[c].range.limit)
                 \/ /\ ~isSet(req[c].range.required)
                    /\ req[c].range.limit > maximumVolumeSizeInBytes
        <3>1. Size(c) = OutOfRange
            BY <2>3 DEF Inv, KnowledgeInv, Knows
        <3>2. QED
            BY <2>2, <3>1, RefusesOnlyImpossibleRanges DEF Size
    <2>4. ASSUME result[c] = "OK", req[c].op = "create"
          PROVE  /\ minimumVolumeSizeInBytes <= resp[c].bytes
                 /\ Fits(resp[c].bytes, req[c].range.required, req[c].range.limit)
        <3>1. resp[c].bytes = Size(c) /\ SizeGiB(c) # 0 /\ Size(c) # OutOfRange
            BY <2>4 DEF Inv, KnowledgeInv, Knows
        <3>2. Size(c) \in Nat /\ SizeGiB(c) = InGiB(Size(c))
            BY <2>1, <3>1, RequestSize
        <3>3. InGiB(Size(c)) \in Nat /\ InGiB(Size(c)) * giB <= Size(c)
            BY <3>2, WholePart
        <3>4. giB <= InGiB(Size(c)) * giB
            BY <3>1, <3>2, <3>3, GiBMonotonic, CapacityAssumption
        <3>5. minimumVolumeSizeInBytes <= Size(c)
            BY <3>2, <3>3, <3>4, CapacityAssumption, ProvisioningAssumption
        <3>6. QED
            BY <2>2, <3>1, <3>5, ChosenSizeFitsRange DEF Size
    <2>5. QED
        BY <2>3, <2>4
<1>2. QED
    BY <1>1, ProvisioningInv, PTL

=============================================================================
