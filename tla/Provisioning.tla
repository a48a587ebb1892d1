---------------------------- MODULE Provisioning ----------------------------
(***************************************************************************)
(* The controller's CreateVolume, DeleteVolume and ControllerExpandVolume  *)
(* handlers (src/driver/controller.go) against the DigitalOcean API,       *)
(* called by an orchestrator that repeats a call until it succeeds.        *)
(*                                                                         *)
(* The API knows a volume by its ID and gives every create request a new   *)
(* one; the orchestrator knows it by its name until a create has returned  *)
(* OK.  What keeps a repeated create from making a second volume is only   *)
(* that the handler lists the volumes of that name first.  Sizes are bytes *)
(* in requests and responses and whole GiB in the API.                     *)
(***************************************************************************)
EXTENDS Capacity, FiniteSets

CONSTANTS
    Names,          \* volume names, one per claim
    Ids,            \* IDs the API hands out: 1..n, never used twice
    Calls,          \* slots for RPCs in flight
    None,
    Snapshots,      \* snapshot IDs
    SnapshotGiB,    \* size of the volume a snapshot restores to
    CreateRanges,   \* capacity ranges claims ask for
    ExpandRanges    \* capacity ranges claims are expanded to

ASSUME ProvisioningAssumption ==
    /\ None \notin Names \union Snapshots
    /\ Ids \subseteq Nat \ {0}
    /\ SnapshotGiB \in Nat \ {0}
    /\ CreateRanges \union ExpandRanges \subseteq [required : Int, limit : Int]
    /\ minimumVolumeSizeInBytes <= giB

VARIABLES
    \* the API (external)
    vol,         \* the volume of an ID: state, name and size in GiB
    resizing,    \* size a pending resize action leads to, or 0
    snapshots,   \* snapshots that exist
    \* the handlers
    pc, req, expired, result,
    volID,       \* the volume the handler works on, or 0
    action,      \* status of the action the handler polls
    resp,        \* the volume in an OK response
    \* the orchestrator (external)
    want,        \* what the claim of this name asks for: never changes
    phase,       \* what it believes about the claim
    bound        \* the volume of an OK response to a create or an expand

apiVars == <<vol, resizing, snapshots>>
callVars == <<pc, req, expired, result, volID, action, resp>>
coVars == <<want, phase, bound>>
vars == <<apiVars, callVars, coVars>>

-----------------------------------------------------------------------------
NoVolume == [state |-> "free", name |-> None, gib |-> 0]
NoResponse == [id |-> 0, bytes |-> 0, contentSource |-> None]
NoRequest == [op |-> "none", name |-> None, id |-> 0,
              range |-> [required |-> 0, limit |-> 0], snapshot |-> None]

Claims == [range : CreateRanges, snapshot : Snapshots \union {None}]
Requests ==
    [op : {"create"}, name : Names, id : {0}, range : CreateRanges,
     snapshot : Snapshots \union {None}]
    \union [op : {"expand"}, name : Names, id : Ids, range : ExpandRanges, snapshot : {None}]
    \union [op : {"delete"}, name : Names, id : Ids, range : {NoRequest.range},
            snapshot : {None}]
Responses ==
    [id : Ids, bytes : Nat, contentSource : Snapshots \union {None}] \union {NoResponse}

CreateSteps == {"ListVolumes", "GetSnapshot", "CreateVolume", "ResizeRestored"}
ExpandSteps == {"ExpandGetVolume", "ResizeVolume"}
ApiSteps == CreateSteps \union ExpandSteps \union {"DeleteVolume"}

\* What the handlers return; "DuplicateVolume" is the error without a code that
\* CreateVolume returns when it finds two volumes of the name.
Codes == {"OK", "InvalidArgument", "OutOfRange", "ResourceExhausted", "NotFound",
          "AlreadyExists", "DuplicateVolume", "Internal", "Unknown", "Unavailable"}

Active(c) == pc[c] # "idle"
Live(i) == vol[i].state = "live"
VolumesNamed(n) == {i \in Ids : Live(i) /\ vol[i].name = n}

TypeOK ==
    /\ vol \in [Ids -> [state : {"live", "gone"}, name : Names, gib : Nat \ {0}]
                            \union {NoVolume}]
    /\ resizing \in [Ids -> Nat]
    /\ snapshots \subseteq Snapshots
    /\ pc \in [Calls -> ApiSteps \union {"idle", "waitAction", "done"}]
    /\ req \in [Calls -> Requests \union {NoRequest}]
    /\ expired \in [Calls -> BOOLEAN]
    /\ result \in [Calls -> Codes \union {"none"}]
    /\ volID \in [Calls -> Ids \union {0}]
    /\ action \in [Calls -> {"none", "in-progress", "completed", "errored"}]
    /\ resp \in [Calls -> Responses]
    /\ want \in [Names -> Claims]
    /\ phase \in [Names -> {"absent", "creating", "bound", "deleting", "deleted"}]
    /\ bound \in [Names -> Responses]

Init ==
    /\ vol = [i \in Ids |-> NoVolume]
    /\ resizing = [i \in Ids |-> 0]
    /\ snapshots = Snapshots
    /\ pc = [c \in Calls |-> "idle"]
    /\ req = [c \in Calls |-> NoRequest]
    /\ expired = [c \in Calls |-> FALSE]
    /\ result = [c \in Calls |-> "none"]
    /\ volID = [c \in Calls |-> 0]
    /\ action = [c \in Calls |-> "none"]
    /\ resp = [c \in Calls |-> NoResponse]
    /\ want \in [Names -> Claims]
    /\ phase = [n \in Names |-> "absent"]
    /\ bound = [n \in Names |-> NoResponse]

-----------------------------------------------------------------------------
(* Steps of a handler *)

\* The size in bytes and in GiB the request of call c comes down to.  The
\* conversion to GiB drops a fraction.
Size(c) == extractStorage(req[c].range.required, req[c].range.limit)
SizeGiB(c) == Size(c) \div giB

Goto(c, label) ==
    /\ pc' = [pc EXCEPT ![c] = label]
    /\ UNCHANGED <<result, resp>>

Return(c, code) ==
    /\ pc' = [pc EXCEPT ![c] = "done"]
    /\ result' = [result EXCEPT ![c] = code]
    /\ UNCHANGED resp

ReturnVolume(c, i, bytes, source) ==
    /\ pc' = [pc EXCEPT ![c] = "done"]
    /\ result' = [result EXCEPT ![c] = "OK"]
    /\ resp' = [resp EXCEPT ![c] = [id |-> i, bytes |-> bytes, contentSource |-> source]]

\* The response of a create that made the volume, and of an expand that
\* resized it.  What it says of the node's part in the expansion is left out.
ReturnNewSize(c, i) ==
    IF req[c].op = "create" THEN ReturnVolume(c, i, Size(c), req[c].snapshot)
                            ELSE ReturnVolume(c, i, SizeGiB(c) * giB, None)

At(c, label) == pc[c] = label /\ ~expired[c]

\* Mutants: the size of the volume that was found does not matter; GiB are
\* compared with bytes; a volume of the name and of another size does not count.
SameSizeAny(c, i) == TRUE
SameSizeUnits(c, i) == vol[i].gib = Size(c)
FoundOfSize(c) == {i \in VolumesNamed(req[c].name) : vol[i].gib * giB = Size(c)}

\* The volumes a create takes for its own, and when their size agrees.
SameSize(c, i) == vol[i].gib * giB = Size(c)
Found(c) == VolumesNamed(req[c].name)

\* CreateVolume, first part: look for a volume of that name.  (A content source
\* without a snapshot ID, which is refused after that, is not an input here.)
ListVolumes(c) ==
    LET found == Found(c) IN
    /\ At(c, "ListVolumes")
    /\ \/ Cardinality(found) > 1 /\ Return(c, "DuplicateVolume")
       \/ /\ Cardinality(found) = 1
          /\ \E i \in found :
                \/ ~SameSize(c, i) /\ Return(c, "AlreadyExists")
                \/ SameSize(c, i) /\ ReturnVolume(c, i, Size(c), None)
       \/ /\ found = {}
          /\ Goto(c, IF req[c].snapshot # None THEN "GetSnapshot" ELSE "CreateVolume")
    /\ UNCHANGED <<apiVars, coVars, req, expired, volID, action>>

GetSnapshot(c) ==
    /\ At(c, "GetSnapshot")
    /\ \/ req[c].snapshot \notin snapshots /\ Return(c, "NotFound")
       \/ req[c].snapshot \in snapshots /\ Goto(c, "CreateVolume")
    /\ UNCHANGED <<apiVars, coVars, req, expired, volID, action>>

\* The API makes a new volume (external): a volume restored from a snapshot
\* has the snapshot's size, whatever size was asked for.
NewVolume(c, i) ==
    [state |-> "live", name |-> req[c].name,
     gib |-> IF req[c].snapshot = None THEN SizeGiB(c) ELSE SnapshotGiB]

Free(i) == vol[i].state = "free" /\ \A j \in Ids : vol[j].state = "free" => i <= j

\* The account's limit counts volumes of other regions and users as well, so
\* it can be hit at any time.
CreateVolume(c) ==
    /\ At(c, "CreateVolume")
    /\ \/ Return(c, "ResourceExhausted") /\ UNCHANGED <<vol, volID>>
       \/ /\ SizeGiB(c) = 0 \/ req[c].snapshot \notin snapshots \union {None}
          /\ Return(c, "Internal")
          /\ UNCHANGED <<vol, volID>>
       \/ /\ SizeGiB(c) # 0 /\ req[c].snapshot \in snapshots \union {None}
          /\ \E i \in Ids :
                /\ Free(i)
                /\ vol' = [vol EXCEPT ![i] = NewVolume(c, i)]
                /\ volID' = [volID EXCEPT ![c] = i]
                /\ \/ Return(c, "Internal")
                   \/ NewVolume(c, i).gib < SizeGiB(c) /\ Goto(c, "ResizeRestored")
                   \/ NewVolume(c, i).gib >= SizeGiB(c) /\ ReturnNewSize(c, i)
    /\ UNCHANGED <<resizing, snapshots, coVars, req, expired, action>>

\* The API takes one action of a volume at a time, and only enlarges it
\* (external).
ResizeAccepted(i, gib) == Live(i) /\ resizing[i] = 0 /\ vol[i].gib < gib

\* Resize, of a restored volume and of a volume that is expanded: the answer
\* is an action, an action that is completed already, or it is lost.
Resize(c, i) ==
    /\ \/ /\ ~ResizeAccepted(i, SizeGiB(c))
          /\ Return(c, "Internal")
          /\ UNCHANGED <<vol, resizing, action>>
       \/ /\ ResizeAccepted(i, SizeGiB(c))
          /\ resizing' = [resizing EXCEPT ![i] = SizeGiB(c)]
          /\ \/ /\ action' = [action EXCEPT ![c] = "in-progress"]
                /\ Goto(c, "waitAction")
             \/ Return(c, "Internal") /\ UNCHANGED action
          /\ UNCHANGED vol
       \/ /\ ResizeAccepted(i, SizeGiB(c))
          /\ vol' = [vol EXCEPT ![i].gib = SizeGiB(c)]
          /\ ReturnNewSize(c, i)
          /\ UNCHANGED <<resizing, action>>
    /\ UNCHANGED <<snapshots, coVars, req, expired, volID>>

ResizeRestored(c) == At(c, "ResizeRestored") /\ Resize(c, volID[c])

\* ControllerExpandVolume: nothing to do if the volume is large enough.
ExpandGetVolume(c) ==
    LET i == req[c].id IN
    /\ At(c, "ExpandGetVolume")
    /\ \/ ~Live(i) /\ Return(c, "Internal")
       \/ Live(i) /\ Size(c) = OutOfRange /\ Return(c, "OutOfRange")
       \/ /\ Live(i) /\ Size(c) # OutOfRange /\ SizeGiB(c) <= vol[i].gib
          /\ ReturnVolume(c, i, vol[i].gib * giB, None)
       \/ /\ Live(i) /\ Size(c) # OutOfRange /\ SizeGiB(c) > vol[i].gib
          /\ Goto(c, "ResizeVolume")
    /\ UNCHANGED <<apiVars, coVars, req, expired, volID, action>>

ResizeVolume(c) == At(c, "ResizeVolume") /\ Resize(c, req[c].id)

\* Mutant: an action that ended in an error counts as completed.
ActionEnded(status) == status \in {"completed", "errored"}

ActionDone(status) == status = "completed"

WaitAction(c) ==
    /\ pc[c] = "waitAction"
    /\ \/ /\ ~expired[c] /\ ActionDone(action[c])
          /\ ReturnNewSize(c, IF req[c].op = "create" THEN volID[c] ELSE req[c].id)
       \/ expired[c] /\ Return(c, "Internal")
    /\ UNCHANGED <<apiVars, coVars, req, expired, volID, action>>

\* Mutant: every refusal is taken for "deleted already".
DeleteCodeAnyError(answer) == "OK"

DeleteCode(answer) == IF answer = "not found" THEN "OK" ELSE "Unknown"

\* The API does not delete a volume that has an action pending (external).
DeleteVolume(c) ==
    LET i == req[c].id IN
    /\ At(c, "DeleteVolume")
    /\ \/ ~Live(i) /\ Return(c, DeleteCode("not found")) /\ UNCHANGED vol
       \/ Live(i) /\ resizing[i] # 0 /\ Return(c, DeleteCode("in use")) /\ UNCHANGED vol
       \/ /\ Live(i) /\ resizing[i] = 0
          /\ vol' = [vol EXCEPT ![i].state = "gone"]
          /\ Return(c, "OK") \/ Return(c, "Unknown")
    /\ UNCHANGED <<resizing, snapshots, coVars, req, expired, volID, action>>

\* A request fails without having had an effect; it always does once the
\* context is done.
ApiError(c) ==
    /\ pc[c] \in ApiSteps
    /\ Return(c, IF pc[c] \in {"GetSnapshot", "DeleteVolume"} THEN "Unknown" ELSE "Internal")
    /\ UNCHANGED <<apiVars, coVars, req, expired, volID, action>>

HandlerStep(c) ==
    \/ ListVolumes(c) \/ GetSnapshot(c) \/ CreateVolume(c) \/ ResizeRestored(c)
    \/ ExpandGetVolume(c) \/ ResizeVolume(c) \/ WaitAction(c)
    \/ DeleteVolume(c) \/ ApiError(c)

-----------------------------------------------------------------------------
(* The environment *)

Expire(c) ==
    /\ Active(c) /\ ~expired[c]
    /\ expired' = [expired EXCEPT ![c] = TRUE]
    /\ UNCHANGED <<apiVars, coVars, pc, req, result, volID, action, resp>>

Restart ==
    /\ \E c \in Calls : Active(c) /\ result[c] # "Unavailable"
    /\ pc' = [c \in Calls |-> IF Active(c) THEN "done" ELSE "idle"]
    /\ result' = [c \in Calls |-> IF Active(c) THEN "Unavailable" ELSE "none"]
    /\ UNCHANGED <<apiVars, coVars, req, expired, volID, action, resp>>

EndResize(i, gib, status) ==
    /\ resizing[i] # 0
    /\ vol' = [vol EXCEPT ![i].gib = gib]
    /\ resizing' = [resizing EXCEPT ![i] = 0]
    /\ action' = [c \in Calls |->
            IF action[c] = "in-progress" /\ i \in {req[c].id, volID[c]}
            THEN status ELSE action[c]]
    /\ UNCHANGED <<snapshots, coVars, pc, req, expired, result, volID, resp>>

FinishResize(i) == EndResize(i, resizing[i], "completed")
FailResize(i) == EndResize(i, vol[i].gib, "errored")

DeleteSnapshot(s) ==
    /\ s \in snapshots
    /\ snapshots' = snapshots \ {s}
    /\ UNCHANGED <<vol, resizing, callVars, coVars>>

\* The orchestrator waits for one call per claim, and gives up on it when its
\* deadline has passed.
Waiting(c) == Active(c) /\ ~expired[c]
Quiet(n) == \A c \in Calls : Waiting(c) => req[c].name # n

Begin(c, r, label) ==
    /\ pc[c] = "idle" /\ Quiet(r.name)
    /\ req' = [req EXCEPT ![c] = r]
    /\ Goto(c, label)
    /\ UNCHANGED <<apiVars, want, bound, expired, volID, action>>

\* The handler of a create checks the request before anything else.
COCreate(c, n) ==
    LET w == want[n]
        r == [op |-> "create", name |-> n, id |-> 0, range |-> w.range,
              snapshot |-> w.snapshot]
    IN
    /\ phase[n] \in {"absent", "creating"}
    /\ phase' = [phase EXCEPT ![n] = "creating"]
    /\ \/ /\ extractStorage(w.range.required, w.range.limit) # OutOfRange
          /\ Begin(c, r, "ListVolumes")
       \/ /\ pc[c] = "idle" /\ Quiet(n)
          /\ req' = [req EXCEPT ![c] = r]
          /\ \/ /\ extractStorage(w.range.required, w.range.limit) = OutOfRange
                /\ Return(c, "OutOfRange")
             \/ Return(c, "InvalidArgument")      \* name or capabilities
             \/ Return(c, "ResourceExhausted")    \* another region
          /\ UNCHANGED <<apiVars, want, bound, expired, volID, action>>

COExpand(c, n, r) ==
    /\ phase[n] = "bound"
    /\ UNCHANGED phase
    /\ Begin(c, [op |-> "expand", name |-> n, id |-> bound[n].id, range |-> r,
                 snapshot |-> None], "ExpandGetVolume")

CODelete(c, n) ==
    /\ phase[n] \in {"bound", "deleting"}
    /\ phase' = [phase EXCEPT ![n] = "deleting"]
    /\ Begin(c, [op |-> "delete", name |-> n, id |-> bound[n].id,
                 range |-> NoRequest.range, snapshot |-> None], "DeleteVolume")

COCollect(c) ==
    LET n == req[c].name
        believed == result[c] = "OK" /\ ~expired[c]
    IN
    /\ pc[c] = "done"
    /\ phase' = [phase EXCEPT ![n] =
            IF ~believed THEN @ ELSE IF req[c].op = "delete" THEN "deleted" ELSE "bound"]
    /\ bound' = [bound EXCEPT ![n] =
            IF believed /\ req[c].op # "delete" THEN resp[c] ELSE @]
    /\ pc' = [pc EXCEPT ![c] = "idle"]
    /\ req' = [req EXCEPT ![c] = NoRequest]
    /\ expired' = [expired EXCEPT ![c] = FALSE]
    /\ result' = [result EXCEPT ![c] = "none"]
    /\ volID' = [volID EXCEPT ![c] = 0]
    /\ action' = [action EXCEPT ![c] = "none"]
    /\ resp' = [resp EXCEPT ![c] = NoResponse]
    /\ UNCHANGED <<apiVars, want>>

\* Nothing is left to do once every claim's volume has been deleted.
Finished ==
    /\ \A n \in Names : phase[n] = "deleted"
    /\ \A c \in Calls : ~Active(c)
    /\ UNCHANGED vars

Next ==
    \/ \E c \in Calls : HandlerStep(c) \/ Expire(c) \/ COCollect(c)
    \/ \E c \in Calls, n \in Names : COCreate(c, n) \/ CODelete(c, n)
    \/ \E c \in Calls, n \in Names, r \in ExpandRanges : COExpand(c, n, r)
    \/ Restart
    \/ \E i \in Ids : FinishResize(i) \/ FailResize(i)
    \/ \E s \in Snapshots : DeleteSnapshot(s)
    \/ Finished

Spec == Init /\ [][Next]_vars

-----------------------------------------------------------------------------
(* Properties *)

\* However often a create is repeated, after errors, lost answers, timeouts
\* and restarts, there is one volume of that name at most.
OneVolumePerName ==
    \A n \in Names : Cardinality(VolumesNamed(n)) <= 1

\* Once the deletion of a claim's volume is confirmed no volume of its name is
\* left behind, not even one an abandoned create made.
NothingLeftBehind ==
    \A n \in Names : phase[n] = "deleted" => VolumesNamed(n) = {}

\* The volume a claim is bound to exists, has the claim's name, and is at least
\* as large as the last response the orchestrator believed said.
BoundIsReal ==
    \A n \in Names :
        phase[n] = "bound" =>
            /\ bound[n].id \in VolumesNamed(n)
            /\ bound[n].bytes <= vol[bound[n].id].gib * giB

\* A create or an expand that returns OK has the capacity that was asked for.
CapacityAsRequested ==
    \A c \in Calls :
        Waiting(c) /\ result[c] = "OK" /\ req[c].op \in {"create", "expand"} =>
            /\ vol[resp[c].id].gib * giB >= req[c].range.required
            /\ resp[c].bytes >= req[c].range.required

\* A range is only refused if no supported size fits it, or if it gives a limit
\* above the largest size and nothing else.  A create that returns OK stays
\* within its range and the supported sizes: a required size below the smallest
\* one, which extractStorage passes on if there is a limit, makes no volume.
RangeHonoured ==
    \A c \in Calls : Waiting(c) =>
        LET range == req[c].range IN
        /\ result[c] = "OutOfRange" =>
            \/ ~Satisfiable(range.required, range.limit)
            \/ ~isSet(range.required) /\ range.limit > maximumVolumeSizeInBytes
        /\ result[c] = "OK" /\ req[c].op = "create" =>
            /\ minimumVolumeSizeInBytes <= resp[c].bytes
            /\ Fits(resp[c].bytes, range.required, range.limit)

\* CreateVolume is idempotent: the same request again is never refused because
\* of the volume an earlier attempt made.
CreateIsIdempotent ==
    \A c \in Calls :
        Waiting(c) /\ req[c].op = "create" => result[c] \notin {"AlreadyExists", "DuplicateVolume"}

\* A claim for whole GiB without a snapshot: the size of its volume is the
\* size of the request as soon as the volume exists.
Plain(c) == req[c].snapshot = None /\ Size(c) % giB = 0

\* For these a create can be repeated at any time, after lost answers and
\* beside attempts that were given up on, and never conflicts with itself.
PlainCreateIsIdempotent ==
    \A c \in Calls :
        Waiting(c) /\ req[c].op = "create" /\ Plain(c)
        => result[c] \notin {"AlreadyExists", "DuplicateVolume"}

\* A create with a content source is answered with that content source, which
\* is what external-provisioner expects.
ContentSourceReturned ==
    \A c \in Calls :
        Waiting(c) /\ result[c] = "OK" /\ req[c].op = "create"
        => resp[c].contentSource = req[c].snapshot

-----------------------------------------------------------------------------
(* The inductive invariant of module ProvisioningProofs *)

\* A whole number of GiB, and the GiB of a size in bytes.
Whole(bytes) == bytes % giB = 0
InGiB(bytes) == bytes \div giB

\* Every range of a claim comes down to whole GiB.  For others the response
\* overstates the volume: the fraction is dropped when it is created.
WholeSizes ==
    \A r \in CreateRanges \union ExpandRanges :
        LET size == extractStorage(r.required, r.limit) IN
        size # OutOfRange => Whole(size)

ClaimSize(n) == extractStorage(want[n].range.required, want[n].range.limit)

\* Label, request and result of a call fit together.
Consistent(c) ==
    /\ pc[c] = "idle" =>
        /\ req[c] = NoRequest /\ ~expired[c]
        /\ volID[c] = 0 /\ action[c] = "none"
    /\ pc[c] # "idle" => req[c] \in Requests
    /\ pc[c] = "done" <=> result[c] # "none"
    /\ pc[c] \in CreateSteps => req[c].op = "create"
    /\ pc[c] \in ExpandSteps => req[c].op = "expand"
    /\ pc[c] = "DeleteVolume" => req[c].op = "delete"
    /\ pc[c] = "waitAction" => req[c].op \in {"create", "expand"}
    /\ volID[c] # 0 => req[c].op = "create"
    /\ pc[c] \in CreateSteps \union {"ResizeVolume", "waitAction"} => Size(c) # OutOfRange

HandlerInv == \A c \in Calls : Consistent(c)

\* A claim has one call that is waited for at most, and its phase tells which.
DisciplineInv ==
    /\ \A c, d \in Calls : Waiting(c) /\ Waiting(d) /\ req[c].name = req[d].name => c = d
    /\ \A c \in Calls : Waiting(c) =>
        LET n == req[c].name IN
        /\ req[c].op = "create" =>
            /\ phase[n] = "creating"
            /\ req[c].range = want[n].range /\ req[c].snapshot = want[n].snapshot
        /\ req[c].op = "expand" => phase[n] = "bound" /\ req[c].id = bound[n].id
        /\ req[c].op = "delete" => phase[n] = "deleting" /\ req[c].id = bound[n].id

\* What the volumes of a claim's name are, phase by phase.
ClaimOK(n) ==
    /\ \A i, j \in VolumesNamed(n) : i = j
    /\ phase[n] \in {"absent", "deleted"} => VolumesNamed(n) = {}
    /\ phase[n] = "creating" /\ want[n].snapshot = None /\ Whole(ClaimSize(n)) =>
        \A i \in VolumesNamed(n) : vol[i].gib * giB = ClaimSize(n) /\ resizing[i] = 0
    /\ phase[n] = "bound" =>
        /\ bound[n].id \in VolumesNamed(n)
        /\ InGiB(bound[n].bytes) <= vol[bound[n].id].gib
        /\ WholeSizes => Whole(bound[n].bytes)
    /\ phase[n] = "deleting" =>
        /\ bound[n].id \in Ids /\ vol[bound[n].id].state # "free"
        /\ vol[bound[n].id].name = n
        /\ VolumesNamed(n) \subseteq {bound[n].id}

ClaimInv == \A n \in Names : ClaimOK(n)

\* A volume with an action pending exists, and will become larger.
ResizeInv ==
    \A i \in Ids : resizing[i] # 0 => Live(i) /\ vol[i].gib < resizing[i]

\* The volume a create has made, or an expand works on.
Target(c) == IF req[c].op = "create" THEN volID[c] ELSE req[c].id

\* What a call that is waited for has learnt still holds: abandoned calls send
\* no request, but the actions they started go on.
Knows(c) ==
    LET mine == VolumesNamed(req[c].name) IN
    /\ pc[c] \in {"GetSnapshot", "CreateVolume"} => mine = {}
    /\ pc[c] = "ResizeRestored" => volID[c] \in mine
    /\ req[c].op = "create" /\ pc[c] \in {"ResizeRestored", "waitAction"} =>
        req[c].snapshot # None
    /\ pc[c] = "waitAction" =>
        /\ Target(c) \in mine /\ SizeGiB(c) # 0
        /\ action[c] = "in-progress" => resizing[Target(c)] = SizeGiB(c)
        /\ action[c] = "completed" => SizeGiB(c) <= vol[Target(c)].gib
    /\ result[c] = "OK" /\ req[c].op \in {"create", "expand"} =>
        /\ resp[c].id \in mine /\ Size(c) # OutOfRange
        /\ SizeGiB(c) <= InGiB(resp[c].bytes) /\ InGiB(resp[c].bytes) <= vol[resp[c].id].gib
        /\ req[c].op = "create" => resp[c].bytes = Size(c) /\ SizeGiB(c) # 0
        /\ req[c].op = "expand" => resp[c].id = req[c].id /\ Whole(resp[c].bytes)
    /\ result[c] = "OK" /\ req[c].op = "delete" => ~Live(req[c].id)
    /\ result[c] = "OutOfRange" => Size(c) = OutOfRange
    /\ req[c].op = "create" /\ Plain(c) => result[c] \notin {"AlreadyExists", "DuplicateVolume"}

KnowledgeInv == \A c \in Calls : Waiting(c) => Knows(c)

Inv ==
    /\ TypeOK /\ HandlerInv /\ DisciplineInv /\ ClaimInv /\ ResizeInv /\ KnowledgeInv

=============================================================================
