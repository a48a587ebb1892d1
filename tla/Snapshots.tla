----------------------------- MODULE Snapshots -----------------------------
(***************************************************************************)
(* The controller's CreateSnapshot, DeleteSnapshot and ListSnapshots (by   *)
(* ID) handlers (src/driver/controller.go) for the snapshots of one volume *)
(* against the DigitalOcean API, called by an orchestrator that repeats a  *)
(* call until it succeeds.                                                 *)
(*                                                                         *)
(* CreateSnapshot searches the volume's snapshots for its name, one page   *)
(* per request, before it creates one.  Other users of the account create  *)
(* and delete snapshots of the volume in between, so that pages shift.     *)
(***************************************************************************)
EXTENDS Integers, Sequences, SequencesExt, FiniteSets

CONSTANTS
    Names,       \* snapshot names, one per claim
    Calls,       \* slots for RPCs in flight; a slot is used again
    Other,       \* the name of every snapshot that belongs to someone else
    PerPage,     \* snapshots per page; 50 in the code
    MaxId        \* bound on the IDs the API hands out

ASSUME SnapshotsAssumption ==
    /\ Other \notin Names
    /\ PerPage \in Nat \ {0}
    /\ IsFiniteSet(Names) /\ MaxId \in Nat /\ MaxId >= Cardinality(Names)

VARIABLES
    \* the API (external)
    list,        \* the volume's snapshots in the order of the API's list
    nextId,      \* the ID of the next snapshot
    \* the handlers
    pc, req, expired, result,
    page,        \* opts.Page of a CreateSnapshot
    resp,        \* ID in an OK response; 0 if it names no snapshot
    \* the orchestrator (external)
    phase,       \* what it believes of the claim of a name
    bound,       \* the ID a create answered with
    \* history
    shrunk,      \* calls during which a snapshot was deleted
    stable       \* no request fails and no call is interrupted from here on

apiVars == <<list, nextId>>
coVars == <<phase, bound>>
vars == <<apiVars, pc, req, expired, result, page, resp, coVars, shrunk, stable>>

-----------------------------------------------------------------------------
Ids == 1..MaxId
SnapshotType == [id : Ids, name : Names \union {Other}]
Requests ==
    [op : {"create"}, name : Names, id : {0}]
        \union [op : {"delete", "list"}, name : Names, id : Ids]
NoRequest == [op |-> "none", name |-> Other, id |-> 0]

ApiSteps == {"ListSnapshots", "CreateSnapshot", "DeleteSnapshot", "GetSnapshot"}
Codes == {"OK", "InvalidArgument", "AlreadyExists", "Internal", "Unknown", "Unavailable"}

Active(c) == pc[c] # "idle"
Waiting(c) == Active(c) /\ ~expired[c]
Existing == ToSet(list)
Named(n) == {s \in Existing : s.name = n}

TypeOK ==
    /\ list \in Seq(SnapshotType)
    /\ nextId \in 1..MaxId + 1
    /\ pc \in [Calls -> ApiSteps \union {"idle", "done"}]
    /\ req \in [Calls -> Requests \union {NoRequest}]
    /\ expired \in [Calls -> BOOLEAN]
    /\ result \in [Calls -> Codes \union {"none"}]
    /\ page \in [Calls -> Nat]
    /\ resp \in [Calls -> Ids \union {0}]
    /\ phase \in [Names -> {"absent", "creating", "ready", "deleting", "deleted"}]
    /\ bound \in [Names -> Ids \union {0}]
    /\ shrunk \in SUBSET Calls
    /\ stable \in BOOLEAN

Init ==
    /\ list = <<>> /\ nextId = 1
    /\ pc = [c \in Calls |-> "idle"]
    /\ req = [c \in Calls |-> NoRequest]
    /\ expired = [c \in Calls |-> FALSE]
    /\ result = [c \in Calls |-> "none"]
    /\ page = [c \in Calls |-> 0]
    /\ resp = [c \in Calls |-> 0]
    /\ phase = [n \in Names |-> "absent"]
    /\ bound = [n \in Names |-> 0]
    /\ shrunk = {}
    /\ stable = FALSE

-----------------------------------------------------------------------------
(* The API's list (external) *)

Page(p) == SubSeq(list, (p - 1) * PerPage + 1,
                  IF p * PerPage < Len(list) THEN p * PerPage ELSE Len(list))
IsLastPage(p) == p * PerPage >= Len(list)

\* A new snapshot, at the end of the list or at its beginning: the order of
\* the list is the API's affair.
Add(n) ==
    LET s == [id |-> nextId, name |-> n] IN
    /\ nextId' = nextId + 1
    /\ list' \in {Append(list, s), <<s>> \o list}

Drop(s) ==
    /\ \E i \in DOMAIN list : list[i] = s /\ list' = RemoveAt(list, i)
    /\ shrunk' = shrunk \union {c \in Calls : Active(c)}
    /\ UNCHANGED nextId

-----------------------------------------------------------------------------
(* Steps of a handler *)

Goto(c, label) ==
    /\ pc' = [pc EXCEPT ![c] = label]
    /\ UNCHANGED <<result, resp>>

Answer(c, code, id) ==
    /\ pc' = [pc EXCEPT ![c] = "done"]
    /\ result' = [result EXCEPT ![c] = code]
    /\ resp' = [resp EXCEPT ![c] = id]

Return(c, code) == Answer(c, code, 0)

\* The handler is about to send this request and its context allows it.
At(c, label) == pc[c] = label /\ ~expired[c]

\* Mutants: any snapshot of the volume will do; only one page is searched; the
\* same page is read again; a page is left out.
MatchesVolume(s, n) == TRUE
SearchedOnePage(p) == TRUE
NextPageSame(p) == p
NextPageLater(p) == p + 2

\* Whether a snapshot of the page is the one that is asked for (all of them are
\* of the source volume), whether there is no page left to search, and which
\* page is next.
Matches(s, n) == s.name = n
Searched(p) == IsLastPage(p)
NextPage(p) == p + 1

\* CreateSnapshot, one turn of the search.
ListSnapshots(c) ==
    LET found == {s \in ToSet(Page(page[c])) : Matches(s, req[c].name)} IN
    /\ At(c, "ListSnapshots")
    /\ \/ (\E s \in found : Answer(c, "OK", s.id)) /\ UNCHANGED page
       \/ found = {} /\ Searched(page[c]) /\ Goto(c, "CreateSnapshot") /\ UNCHANGED page
       \/ /\ found = {} /\ ~Searched(page[c])
          /\ page' = [page EXCEPT ![c] = NextPage(@)]
          /\ UNCHANGED <<pc, result, resp>>
    /\ UNCHANGED <<apiVars, req, expired, coVars, shrunk, stable>>

\* The API refuses a second snapshot of a name; otherwise it makes one, and
\* its answer may be lost.
CreateSnapshot(c) ==
    /\ At(c, "CreateSnapshot")
    /\ \/ /\ Named(req[c].name) # {}
          /\ Return(c, "AlreadyExists")
          /\ UNCHANGED apiVars
       \/ /\ Named(req[c].name) = {}
          /\ Add(req[c].name)
          /\ Answer(c, "OK", nextId) \/ Return(c, "Internal")
    /\ UNCHANGED <<req, expired, page, coVars, shrunk, stable>>

DeleteSnapshot(c) ==
    /\ At(c, "DeleteSnapshot")
    /\ \/ /\ \A s \in Existing : s.id # req[c].id
          /\ Return(c, "OK")
          /\ UNCHANGED <<apiVars, shrunk>>
       \/ /\ \E s \in Existing : s.id = req[c].id /\ Drop(s)
          /\ Return(c, "OK") \/ Return(c, "Unknown")
    /\ UNCHANGED <<req, expired, page, coVars, stable>>

\* ListSnapshots with a snapshot ID: one entry, or none if the API answers 404.
GetSnapshot(c) ==
    /\ At(c, "GetSnapshot")
    /\ \/ (\E s \in Existing : s.id = req[c].id) /\ Answer(c, "OK", req[c].id)
       \/ (\A s \in Existing : s.id # req[c].id) /\ Return(c, "OK")
    /\ UNCHANGED <<apiVars, req, expired, page, coVars, shrunk, stable>>

\* Mutants: an error of DeleteSnapshot, or of snapshots.Get, is taken for 404.
ErrorCodeDelete(label) == IF label = "DeleteSnapshot" THEN "OK" ELSE "Internal"
ErrorCodeGet(label) == IF label = "GetSnapshot" THEN "OK" ELSE "Unknown"

\* How the failure of a request is reported.
ErrorCode(label) == IF label = "DeleteSnapshot" THEN "Unknown" ELSE "Internal"

\* A request fails without having had an effect; it always does once the
\* context is done.  The links of a page may also fail to name the current one.
ApiError(c) ==
    /\ pc[c] \in ApiSteps
    /\ Return(c, ErrorCode(pc[c])) \/ (pc[c] = "ListSnapshots" /\ Return(c, "Unknown"))
    /\ UNCHANGED <<apiVars, req, expired, page, coVars, shrunk, stable>>

Progress(c) ==
    \/ ListSnapshots(c) \/ CreateSnapshot(c) \/ DeleteSnapshot(c) \/ GetSnapshot(c)
    \/ expired[c] /\ ApiError(c)

-----------------------------------------------------------------------------
(* The environment *)

Expire(c) ==
    /\ Waiting(c)
    /\ expired' = [expired EXCEPT ![c] = TRUE]
    /\ UNCHANGED <<apiVars, pc, req, result, page, resp, coVars, shrunk, stable>>

\* The controller process dies and comes back: every call in flight is lost.
Restart ==
    /\ \E c \in Calls : Active(c) /\ result[c] # "Unavailable"
    /\ pc' = [c \in Calls |-> IF Active(c) THEN "done" ELSE "idle"]
    /\ result' = [c \in Calls |-> IF Active(c) THEN "Unavailable" ELSE "none"]
    /\ UNCHANGED <<apiVars, req, expired, page, resp, coVars, shrunk, stable>>

Fault ==
    /\ ~stable
    /\ \/ \E c \in Calls : ~expired[c] /\ ApiError(c)
       \/ \E c \in Calls : Expire(c)
       \/ Restart

Settle ==
    /\ ~stable /\ stable' = TRUE
    /\ UNCHANGED <<apiVars, pc, req, expired, result, page, resp, coVars, shrunk>>

\* Someone else creates or deletes a snapshot of the volume.
OtherCreates ==
    /\ nextId + Cardinality(Names) <= MaxId
    /\ Add(Other)
    /\ UNCHANGED <<pc, req, expired, result, page, resp, coVars, shrunk, stable>>

OtherDeletes ==
    /\ \E s \in Named(Other) : Drop(s)
    /\ UNCHANGED <<pc, req, expired, result, page, resp, coVars, stable>>

\* The orchestrator waits for one call per claim.
Quiet(n) == \A c \in Calls : Waiting(c) => req[c].name # n

\* A handler refuses a request that lacks a field before anything else.
Begin(c, op, n, label) ==
    /\ pc[c] = "idle" /\ Quiet(n)
    /\ req' = [req EXCEPT ![c] = [op |-> op, name |-> n, id |-> bound[n]]]
    /\ Goto(c, label) \/ (~stable /\ Return(c, "InvalidArgument"))
    /\ page' = [page EXCEPT ![c] = 1]
    /\ shrunk' = shrunk \ {c}
    /\ UNCHANGED <<apiVars, expired, bound, stable>>

COCreate(c, n) ==
    /\ phase[n] \in {"absent", "creating"}
    /\ phase' = [phase EXCEPT ![n] = "creating"]
    /\ Begin(c, "create", n, "ListSnapshots")

\* external-snapshotter asks for a snapshot's state by its ID.
COList(c, n) ==
    /\ phase[n] = "ready"
    /\ UNCHANGED phase
    /\ Begin(c, "list", n, "GetSnapshot")

CODelete(c, n) ==
    /\ phase[n] \in {"ready", "deleting"}
    /\ phase' = [phase EXCEPT ![n] = "deleting"]
    /\ Begin(c, "delete", n, "DeleteSnapshot")

COCollect(c) ==
    LET n == req[c].name
        believed == result[c] = "OK" /\ ~expired[c]
    IN
    /\ pc[c] = "done"
    /\ phase' = [phase EXCEPT ![n] =
            CASE believed /\ req[c].op = "create" -> "ready"
              [] believed /\ req[c].op = "delete" -> "deleted"
              [] OTHER -> @]
    /\ bound' = [bound EXCEPT ![n] = IF believed /\ req[c].op = "create" THEN resp[c] ELSE @]
    /\ pc' = [pc EXCEPT ![c] = "idle"]
    /\ req' = [req EXCEPT ![c] = NoRequest]
    /\ expired' = [expired EXCEPT ![c] = FALSE]
    /\ result' = [result EXCEPT ![c] = "none"]
    /\ page' = [page EXCEPT ![c] = 0]
    /\ resp' = [resp EXCEPT ![c] = 0]
    /\ shrunk' = shrunk \ {c}
    /\ UNCHANGED <<apiVars, stable>>

\* Nothing is left to do once every claim's snapshot has been deleted.
Finished ==
    /\ \A n \in Names : phase[n] = "deleted"
    /\ \A c \in Calls : ~Active(c)
    /\ UNCHANGED vars

Next ==
    \/ \E c \in Calls : Progress(c) \/ COCollect(c)
    \/ \E c \in Calls, n \in Names : COCreate(c, n) \/ COList(c, n) \/ CODelete(c, n)
    \/ Fault \/ Settle \/ OtherCreates \/ OtherDeletes
    \/ Finished

\* Handlers run, responses are taken, and the orchestrator repeats what it
\* has begun.
Fairness ==
    /\ \A c \in Calls : WF_vars(Progress(c)) /\ WF_vars(COCollect(c))
    /\ \A n \in Names :
        /\ WF_vars(phase[n] = "creating" /\ \E c \in Calls : COCreate(c, n))
        /\ WF_vars(phase[n] = "deleting" /\ \E c \in Calls : CODelete(c, n))

Spec == Init /\ [][Next]_vars /\ Fairness

-----------------------------------------------------------------------------
(* Properties *)

\* A CreateSnapshot that is repeated after a lost answer, a timeout or a
\* restart finds the snapshot an earlier attempt made, on whichever page it is.
\* It is refused because of that snapshot only if another one was deleted
\* during the search, which moves the snapshot to a page already read.
ConflictOnlyIfShrunk ==
    \A c \in Calls : Waiting(c) /\ result[c] = "AlreadyExists" => c \in shrunk

\* A snapshot the orchestrator believes ready exists, under the ID it was
\* told, and is the one of that name and the only one.
ReadyIsReal ==
    \A n \in Names : phase[n] = "ready" => Named(n) = {[id |-> bound[n], name |-> n]}

\* Once the deletion of a claim's snapshot is confirmed none of its name is left
\* behind, not even one that an abandoned create made.
NoSnapshotLeftBehind ==
    \A n \in Names : phase[n] = "deleted" => Named(n) = {}

\* ListSnapshots never tells a caller that waits for it that a snapshot it
\* knows to be ready is gone.
ReadyIsListed ==
    \A c \in Calls :
        Waiting(c) /\ req[c].op = "list" /\ result[c] = "OK" => resp[c] = req[c].id

\* Once requests and calls are no longer interrupted, a snapshot that is wanted
\* becomes ready and one that is to be deleted is deleted: a search that missed
\* its snapshot because others deleted theirs finds it once they stop.
SnapshotSettles ==
    \A n \in Names :
        /\ stable /\ phase[n] = "creating" ~> phase[n] = "ready"
        /\ stable /\ phase[n] = "deleting" ~> phase[n] = "deleted"

-----------------------------------------------------------------------------
(* The inductive invariant of module SnapshotsProofs *)

\* A call's label fits its request.
Consistent(c) ==
    /\ pc[c] = "idle" => req[c] = NoRequest /\ result[c] = "none" /\ ~expired[c]
    /\ pc[c] # "idle" => req[c] \in Requests
    /\ pc[c] \in ApiSteps => result[c] = "none"
    /\ pc[c] \in {"ListSnapshots", "CreateSnapshot"} => req[c].op = "create"
    /\ pc[c] = "DeleteSnapshot" => req[c].op = "delete"
    /\ pc[c] = "GetSnapshot" => req[c].op = "list"
    /\ pc[c] = "ListSnapshots" => page[c] >= 1

\* No two entries of the list share an ID, or the name of a claim.
Distinct ==
    \A i, j \in DOMAIN list :
        \/ list[i].id = list[j].id
        \/ list[i].name = list[j].name /\ list[i].name \in Names
        => i = j

\* The claims for which a snapshot may yet be created: there are IDs for them.
Outstanding == {n \in Names : phase[n] \in {"absent", "creating"} /\ Named(n) = {}}
IdsSuffice ==
    /\ nextId + Cardinality(Outstanding) <= MaxId + 1
    /\ \A s \in Existing : s.id < nextId

\* What the orchestrator believes of a claim is so.
ClaimInv(n) ==
    /\ phase[n] = "absent" => Named(n) = {}
    /\ phase[n] \in {"absent", "creating"} <=> bound[n] = 0
    /\ phase[n] = "ready" => Named(n) = {[id |-> bound[n], name |-> n]}
    /\ phase[n] = "deleting" => Named(n) \subseteq {[id |-> bound[n], name |-> n]}
    /\ phase[n] = "deleted" => Named(n) = {}
    /\ bound[n] < nextId
    /\ \A s \in Existing : s.id = bound[n] => s.name = n

\* A call that is waited for serves the claim as the orchestrator sees it, and
\* a response it has yet to take is true.
CallInv(c) ==
    LET n == req[c].name IN
    pc[c] # "idle" /\ ~expired[c] =>
        /\ req[c].op = "create" =>
            /\ phase[n] = "creating"
            /\ result[c] = "OK" => [id |-> resp[c], name |-> n] \in Existing
        /\ req[c].op = "delete" =>
            /\ phase[n] = "deleting" /\ req[c].id = bound[n]
            /\ result[c] = "OK" => Named(n) = {}
        /\ req[c].op = "list" =>
            /\ phase[n] = "ready" /\ req[c].id = bound[n]
            /\ result[c] = "OK" => resp[c] = req[c].id

\* A search that no deletion has disturbed has not passed its snapshot by.
SearchInv(c) ==
    pc[c] # "idle" /\ ~expired[c] /\ c \notin shrunk =>
        /\ pc[c] = "ListSnapshots" =>
            \A i \in DOMAIN list : list[i].name = req[c].name => i > (page[c] - 1) * PerPage
        /\ pc[c] = "CreateSnapshot" => Named(req[c].name) = {}
        /\ result[c] # "AlreadyExists"

OneCallPerClaim ==
    \A c, d \in Calls : Waiting(c) /\ Waiting(d) /\ req[c].name = req[d].name => c = d

Inv ==
    /\ TypeOK /\ Distinct /\ IdsSuffice /\ OneCallPerClaim
    /\ \A c \in Calls : Consistent(c) /\ CallInv(c) /\ SearchInv(c)
    /\ \A n \in Names : ClaimInv(n)

=============================================================================
