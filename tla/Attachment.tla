----------------------------- MODULE Attachment -----------------------------
(***************************************************************************)
(* The controller's ControllerPublishVolume, ControllerUnpublishVolume and *)
(* DeleteVolume handlers (src/driver/controller.go) running concurrently   *)
(* against the DigitalOcean API.                                           *)
(*                                                                         *)
(* A handler keeps nothing between two calls: whatever it knows it read    *)
(* from the API, one request at a time, and the API moves on in between.   *)
(* One step of a handler is one request to the API (or the return that     *)
(* follows from what it already read).  The API part is external: volumes, *)
(* droplets, and attach/detach actions that the API accepts at once and    *)
(* finishes, or fails, later.                                              *)
(*                                                                         *)
(* Nothing here restrains the caller: any call may start at any time.      *)
(* Module Attacher adds the discipline of a container orchestrator.        *)
(***************************************************************************)
EXTENDS Integers, FiniteSets

CONSTANTS
    Volumes,               \* volume IDs
    Droplets,              \* droplet IDs (CSI node IDs)
    Calls,                 \* slots for RPCs in flight; a slot is used again
    None,                  \* "no volume" / "no droplet"
    DoTag,                 \* whether the driver was started with --do-tag
    MaxVolumesPerDroplet   \* the API's limit on volumes of one droplet

ASSUME AttachmentAssumption ==
    /\ None \notin Volumes \union Droplets
    /\ DoTag \in BOOLEAN
    /\ MaxVolumesPerDroplet \in Nat

VARIABLES
    \* the API (external)
    exists,      \* volumes that exist
    live,        \* droplets that exist
    attached,    \* the droplet a volume is attached to, or None
    event,       \* the pending storage action of a droplet: at most one
    tagExists,   \* whether the tag --do-tag names exists
    tagged,      \* volumes that carry the tag
    \* the handlers
    pc,          \* where the handler of a call is
    req,         \* the request
    seen,        \* vol.DropletIDs as GetVolume returned it
    action,      \* status of the action the handler polls
    expired,     \* whether the context of the call is done
    result,      \* the gRPC code returned
    \* history
    held         \* whether what the call asks for was true during the call

apiVars == <<exists, live, attached, event, tagExists, tagged>>
callVars == <<pc, req, seen, action, expired, result>>
vars == <<apiVars, callVars, held>>

-----------------------------------------------------------------------------
(* Requests, codes and events *)

Requests ==
    [op : {"publish", "unpublish"}, vol : Volumes, node : Droplets]
        \union [op : {"delete"}, vol : Volumes, node : {None}]
NoRequest == [op |-> "none", vol |-> None, node |-> None]

Events == [kind : {"attach", "detach"}, vol : Volumes]
NoEvent == [kind |-> "none", vol |-> None]

\* What the handlers return.  "Unknown" stands for an error returned as it
\* came from the API client, "Unavailable" for a connection that broke.
Codes == {"OK", "InvalidArgument", "NotFound", "AlreadyExists",
          "FailedPrecondition", "Aborted", "ResourceExhausted",
          "Internal", "Unknown", "Unavailable"}

\* One label per API request, named for the request.
TagSteps == {"TagResources", "CreateTag", "RetryTagResources"}
PublishSteps == {"PublishGetVolume", "PublishGetDroplet", "Attach"}
UnpublishSteps == {"UnpublishGetVolume", "UnpublishGetDroplet", "Detach"}
ApiSteps == TagSteps \union PublishSteps \union UnpublishSteps
                \union {"DeleteVolume"}
Labels == {"idle", "waitAction", "done"} \union ApiSteps

Active(c) == pc[c] # "idle"

TypeOK ==
    /\ exists \in SUBSET Volumes
    /\ live \in SUBSET Droplets
    /\ attached \in [Volumes -> Droplets \union {None}]
    /\ event \in [Droplets -> Events \union {NoEvent}]
    /\ tagExists \in BOOLEAN
    /\ tagged \in SUBSET Volumes
    /\ pc \in [Calls -> Labels]
    /\ req \in [Calls -> Requests \union {NoRequest}]
    /\ seen \in [Calls -> Droplets \union {None}]
    /\ action \in [Calls -> {"none", "in-progress", "completed", "errored"}]
    /\ expired \in [Calls -> BOOLEAN]
    /\ result \in [Calls -> Codes \union {"none"}]
    /\ held \in [Calls -> BOOLEAN]

\* What the caller asked for is the case.
Goal(c) ==
    /\ req[c].op = "publish" => attached[req[c].vol] = req[c].node
    /\ req[c].op = "unpublish" => attached[req[c].vol] # req[c].node
    /\ req[c].op = "delete" => req[c].vol \notin exists

\* Every step remembers for which running calls the goal has been reached.
Track ==
    held' = [c \in Calls |->
        /\ pc'[c] # "idle"
        /\ (pc[c] # "idle" /\ held[c]) \/ Goal(c)']

Init ==
    /\ exists = Volumes
    /\ live = Droplets
    /\ attached = [v \in Volumes |-> None]
    /\ event = [d \in Droplets |-> NoEvent]
    /\ tagExists = FALSE
    /\ tagged = {}
    /\ pc = [c \in Calls |-> "idle"]
    /\ req = [c \in Calls |-> NoRequest]
    /\ seen = [c \in Calls |-> None]
    /\ action = [c \in Calls |-> "none"]
    /\ expired = [c \in Calls |-> FALSE]
    /\ result = [c \in Calls |-> "none"]
    /\ held = [c \in Calls |-> FALSE]

-----------------------------------------------------------------------------
(* The API's answers (external) *)

\* Attach: a droplet with a pending event takes no other action; a volume
\* is attached to one droplet at most.
AttachAnswer(v, d) ==
    CASE v \notin exists \/ d \notin live -> "not found"
      [] v \in exists /\ d \in live /\ event[d] # NoEvent -> "pending event"
      [] v \in exists /\ d \in live /\ event[d] = NoEvent
            /\ attached[v] # None -> "already attached"
      [] OTHER -> IF Cardinality({w \in Volumes : attached[w] = d})
                        >= MaxVolumesPerDroplet
                  THEN "limit" ELSE "accepted"

DetachAnswer(v, d) ==
    CASE v \notin exists \/ d \notin live -> "not found"
      [] v \in exists /\ d \in live /\ event[d] # NoEvent -> "pending event"
      [] v \in exists /\ d \in live /\ event[d] = NoEvent
            /\ attached[v] # d -> "attachment not found"
      [] OTHER -> "accepted"

\* A volume in use cannot be deleted.
DeleteAnswer(v) ==
    CASE v \notin exists -> "not found"
      [] v \in exists /\ (\/ attached[v] # None
                          \/ \E d \in Droplets : event[d].vol = v) -> "in use"
      [] OTHER -> "accepted"

-----------------------------------------------------------------------------
(* Steps of a handler *)

Goto(c, label) ==
    /\ pc' = [pc EXCEPT ![c] = label]
    /\ UNCHANGED result

Return(c, code) ==
    /\ pc' = [pc EXCEPT ![c] = "done"]
    /\ result' = [result EXCEPT ![c] = code]

\* Mutant: requests do not carry the context of the call.
AtAnyTime(c, label) == pc[c] = label

\* The handler is about to send the request of this label and its context
\* still allows it: a request with a context that is done fails at once.
At(c, label) == pc[c] = label /\ ~expired[c]

FirstStep(op) ==
    CASE op = "publish" -> "PublishGetVolume"
      [] op = "unpublish" -> "UnpublishGetVolume"
      [] op = "delete" -> "DeleteVolume"

Begin(c, r) ==
    /\ pc[c] = "idle"
    /\ Goto(c, FirstStep(r.op))
    /\ req' = [req EXCEPT ![c] = r]
    /\ UNCHANGED <<apiVars, seen, action, expired>>
    /\ Track

\* A request the handler refuses before it calls the API: a missing or
\* malformed field, or a read-only publish.
Refuse(c, r) ==
    /\ pc[c] = "idle"
    /\ \/ Return(c, "InvalidArgument")
       \/ r.op = "publish" /\ Return(c, "AlreadyExists")
    /\ req' = [req EXCEPT ![c] = r]
    /\ UNCHANGED <<apiVars, seen, action, expired>>
    /\ Track

\* What the handler keeps of the volume it reads.
Seen(v) == attached[v]

PublishGetVolume(c) ==
    LET v == req[c].vol IN
    /\ At(c, "PublishGetVolume")
    /\ \/ /\ v \notin exists
          /\ Return(c, "NotFound")
          /\ UNCHANGED seen
       \/ /\ v \in exists
          /\ seen' = [seen EXCEPT ![c] = Seen(v)]
          /\ Goto(c, IF DoTag /\ v \notin tagged THEN "TagResources"
                                                 ELSE "PublishGetDroplet")
    /\ UNCHANGED <<apiVars, req, action, expired>>
    /\ Track

\* tagVolume: 404 means that the tag does not exist yet (or that the volume
\* does not exist any more; the code takes both for the first).
TagResources(c) ==
    LET v == req[c].vol IN
    /\ At(c, "TagResources")
    /\ \/ /\ tagExists /\ v \in exists
          /\ tagged' = tagged \union {v}
          /\ Goto(c, "PublishGetDroplet") \/ Return(c, "Internal")
       \/ /\ ~(tagExists /\ v \in exists)
          /\ Goto(c, "CreateTag")
          /\ UNCHANGED tagged
    /\ UNCHANGED <<exists, live, attached, event, tagExists, req, seen, action, expired>>
    /\ Track

\* Mutant: the volume is not tagged again once the tag exists.
AfterCreateTagAttach == "PublishGetDroplet"

AfterCreateTag == "RetryTagResources"

CreateTag(c) ==
    /\ At(c, "CreateTag")
    /\ tagExists' = TRUE
    /\ Goto(c, AfterCreateTag) \/ Return(c, "Internal")
    /\ UNCHANGED <<exists, live, attached, event, tagged, req, seen, action, expired>>
    /\ Track

RetryTagResources(c) ==
    LET v == req[c].vol IN
    /\ At(c, "RetryTagResources")
    /\ \/ /\ v \in exists
          /\ tagged' = tagged \union {v}
          /\ Goto(c, "PublishGetDroplet") \/ Return(c, "Internal")
       \/ /\ v \notin exists
          /\ Return(c, "Internal")
          /\ UNCHANGED tagged
    /\ UNCHANGED <<exists, live, attached, event, tagExists, req, seen, action, expired>>
    /\ Track

\* droplets.Get, and the test of the droplet IDs GetVolume returned, which
\* may be stale by now.
PublishGetDroplet(c) ==
    LET d == req[c].node IN
    /\ At(c, "PublishGetDroplet")
    /\ \/ d \notin live /\ Return(c, "NotFound")
       \/ d \in live /\ seen[c] = d /\ Return(c, "OK")
       \/ d \in live /\ seen[c] \notin {d, None} /\ Return(c, "FailedPrecondition")
       \/ d \in live /\ seen[c] = None /\ Goto(c, "Attach")
    /\ UNCHANGED <<apiVars, req, seen, action, expired>>
    /\ Track

\* Mutant: a pending event is taken for the attach that is wanted.
AttachCodePendingOK(answer) ==
    CASE answer \in {"already attached", "pending event"} -> "OK"
      [] answer = "limit" -> "ResourceExhausted"
      [] OTHER -> "Unknown"

\* How a refused Attach is reported.
AttachCode(answer) ==
    CASE answer = "already attached" -> "OK"
      [] answer = "pending event" -> "Aborted"
      [] answer = "limit" -> "ResourceExhausted"
      [] OTHER -> "Unknown"

\* The API accepts the action of call c on its droplet: it answers with the
\* action, the answer is lost, or (a response without action) the volume is
\* attached or detached already.
Accepted(c, kind, droplet) ==
    LET v == req[c].vol
        d == req[c].node
    IN
    \/ /\ event' = [event EXCEPT ![d] = [kind |-> kind, vol |-> v]]
       /\ \/ /\ action' = [action EXCEPT ![c] = "in-progress"]
             /\ Goto(c, "waitAction")
          \/ Return(c, "Unknown") /\ UNCHANGED action
       /\ UNCHANGED attached
    \/ /\ attached' = [attached EXCEPT ![v] = droplet]
       /\ Return(c, "OK")
       /\ UNCHANGED <<event, action>>

PublishAttach(c) ==
    LET answer == AttachAnswer(req[c].vol, req[c].node) IN
    /\ At(c, "Attach")
    /\ \/ answer = "accepted" /\ Accepted(c, "attach", req[c].node)
       \/ /\ answer # "accepted"
          /\ Return(c, AttachCode(answer))
          /\ UNCHANGED <<attached, event, action>>
    /\ UNCHANGED <<exists, live, tagExists, tagged, req, seen, expired>>
    /\ Track

UnpublishGetVolume(c) ==
    /\ At(c, "UnpublishGetVolume")
    /\ \/ req[c].vol \notin exists /\ Return(c, "OK")
       \/ req[c].vol \in exists /\ Goto(c, "UnpublishGetDroplet")
    /\ UNCHANGED <<apiVars, req, seen, action, expired>>
    /\ Track

UnpublishGetDroplet(c) ==
    /\ At(c, "UnpublishGetDroplet")
    /\ \/ req[c].node \notin live /\ Return(c, "OK")
       \/ req[c].node \in live /\ Goto(c, "Detach")
    /\ UNCHANGED <<apiVars, req, seen, action, expired>>
    /\ Track

\* Mutants: a pending event is taken for the detach that is wanted; a volume
\* that is not attached cannot be detached.
DetachCodePendingOK(answer) == "OK"
DetachCodeMissing(answer) == IF answer = "not found" THEN "OK" ELSE "Aborted"

DetachCode(answer) ==
    CASE answer = "not found" -> "OK"
      [] answer = "attachment not found" -> "OK"
      [] answer = "pending event" -> "Aborted"

UnpublishDetach(c) ==
    LET answer == DetachAnswer(req[c].vol, req[c].node) IN
    /\ At(c, "Detach")
    /\ \/ answer = "accepted" /\ Accepted(c, "detach", None)
       \/ /\ answer # "accepted"
          /\ Return(c, DetachCode(answer))
          /\ UNCHANGED <<attached, event, action>>
    /\ UNCHANGED <<exists, live, tagExists, tagged, req, seen, expired>>
    /\ Track

DeleteVolume(c) ==
    LET v == req[c].vol
        answer == DeleteAnswer(v)
    IN
    /\ At(c, "DeleteVolume")
    /\ \/ /\ answer = "accepted"
          /\ exists' = exists \ {v}
          /\ Return(c, "OK") \/ Return(c, "Unknown")
       \/ /\ answer = "not found"
          /\ Return(c, "OK")
          /\ UNCHANGED exists
       \/ /\ answer = "in use"
          /\ Return(c, "Unknown")
          /\ UNCHANGED exists
    /\ UNCHANGED <<live, attached, event, tagExists, tagged, req, seen, action, expired>>
    /\ Track

\* Mutants: polling stops at any status other than in-progress; polling does
\* not look at the context.
ActionEnded(status) == status \in {"completed", "errored"}
GivesUpNever(c) == FALSE

ActionDone(status) == status = "completed"
GivesUp(c) == expired[c]

\* waitAction polls until the action is completed or the context is done.
\* A failed poll is polled again, and so is an action that ended in an
\* error: nothing looks at that status.
WaitAction(c) ==
    /\ pc[c] = "waitAction"
    /\ \/ ~expired[c] /\ ActionDone(action[c]) /\ Return(c, "OK")
       \/ GivesUp(c) /\ Return(c, "Internal")
    /\ UNCHANGED <<apiVars, req, seen, action, expired>>
    /\ Track

\* Mutant: any error of DeleteVolume means that the volume is gone.
ErrorCodeDeleteOK(label) ==
    IF label = "DeleteVolume" THEN "OK"
    ELSE IF label \in TagSteps THEN "Internal" ELSE "Unknown"

\* The code of a request that failed: tagVolume wraps the error.
ErrorCode(label) == IF label \in TagSteps THEN "Internal" ELSE "Unknown"

\* A request fails without having had an effect; it always does once the
\* context is done.
ApiError(c) ==
    /\ pc[c] \in ApiSteps
    /\ Return(c, ErrorCode(pc[c]))
    /\ UNCHANGED <<apiVars, req, seen, action, expired>>
    /\ Track

HandlerProgress(c) ==
    \/ PublishGetVolume(c)
    \/ TagResources(c)
    \/ CreateTag(c)
    \/ RetryTagResources(c)
    \/ PublishGetDroplet(c)
    \/ PublishAttach(c)
    \/ UnpublishGetVolume(c)
    \/ UnpublishGetDroplet(c)
    \/ UnpublishDetach(c)
    \/ DeleteVolume(c)
    \/ WaitAction(c)

HandlerStep(c) == HandlerProgress(c) \/ ApiError(c)

-----------------------------------------------------------------------------
(* The environment *)

\* The deadline the sidecar gave the call passes, or the sidecar cancels it.
Expire(c) ==
    /\ Active(c) /\ ~expired[c]
    /\ expired' = [expired EXCEPT ![c] = TRUE]
    /\ UNCHANGED <<apiVars, pc, req, seen, action, result>>
    /\ Track

\* The caller takes the response, and the slot is free again.
Collect(c) ==
    /\ pc[c] = "done"
    /\ pc' = [pc EXCEPT ![c] = "idle"]
    /\ req' = [req EXCEPT ![c] = NoRequest]
    /\ seen' = [seen EXCEPT ![c] = None]
    /\ action' = [action EXCEPT ![c] = "none"]
    /\ expired' = [expired EXCEPT ![c] = FALSE]
    /\ result' = [result EXCEPT ![c] = "none"]
    /\ UNCHANGED apiVars
    /\ Track

\* The controller process dies and comes back: every call in flight is lost.
Restart ==
    /\ \E c \in Calls : Active(c) /\ result[c] # "Unavailable"
    /\ pc' = [c \in Calls |-> IF Active(c) THEN "done" ELSE "idle"]
    /\ result' = [c \in Calls |-> IF Active(c) THEN "Unavailable" ELSE "none"]
    /\ UNCHANGED <<apiVars, req, seen, action, expired>>
    /\ Track

\* The action pending on droplet d ends with this status.
EndEvent(d, status) ==
    /\ event' = [event EXCEPT ![d] = NoEvent]
    /\ action' = [c \in Calls |->
            IF action[c] = "in-progress" /\ req[c].node = d
            THEN status ELSE action[c]]

\* An attach completes only if the volume is still there and still free.
FinishEvent(d) ==
    LET e == event[d] IN
    /\ e # NoEvent
    /\ \/ /\ e.kind = "attach" /\ e.vol \in exists /\ attached[e.vol] = None
          /\ attached' = [attached EXCEPT ![e.vol] = d]
          /\ EndEvent(d, "completed")
       \/ /\ e.kind = "detach" /\ attached[e.vol] = d
          /\ attached' = [attached EXCEPT ![e.vol] = None]
          /\ EndEvent(d, "completed")
    /\ UNCHANGED <<exists, live, tagExists, tagged, pc, req, seen, expired, result>>
    /\ Track

\* An action may end in an error at any time.
FailEvent(d) ==
    /\ event[d] # NoEvent
    /\ EndEvent(d, "errored")
    /\ UNCHANGED <<exists, live, attached, tagExists, tagged, pc, req, seen, expired, result>>
    /\ Track

\* Someone destroys a droplet: its volumes survive, detached.
DestroyDroplet(d) ==
    /\ d \in live
    /\ live' = live \ {d}
    /\ attached' = [v \in Volumes |-> IF attached[v] = d THEN None ELSE attached[v]]
    /\ EndEvent(d, "errored")
    /\ UNCHANGED <<exists, tagExists, tagged, pc, req, seen, expired, result>>
    /\ Track

ApiStep(d) == FinishEvent(d) \/ FailEvent(d) \/ DestroyDroplet(d)

Next ==
    \/ \E c \in Calls, r \in Requests : Begin(c, r) \/ Refuse(c, r)
    \/ \E c \in Calls : HandlerStep(c) \/ Expire(c) \/ Collect(c)
    \/ Restart
    \/ \E d \in Droplets : ApiStep(d)

Spec == Init /\ [][Next]_vars

-----------------------------------------------------------------------------
(* Properties *)

\* A ControllerUnpublishVolume or DeleteVolume that returns OK is honest: at
\* some moment of the call the volume was detached from that node, or gone.
\* Six different API answers lead to that OK, some of them errors that the
\* handlers read as "already done", while other calls and the API go on.
OKMeansDone ==
    \A c \in Calls :
        /\ result[c] = "OK"
        /\ req[c].op \in {"unpublish", "delete"}
        => held[c]

\* A ControllerPublishVolume that returns OK is honest as well: the volume
\* was attached to the requested node, and not to a different one, at some
\* moment of the call.  (What the comment in ControllerPublishVolume says:
\* a volume attached to a different node is an error.)
PublishOKMeansAttached ==
    \A c \in Calls :
        result[c] = "OK" /\ req[c].op = "publish" => held[c]

\* With --do-tag, no volume is handed out untagged, even if the tag had to be
\* created first, by this call or by another one at the same time.
TaggedBeforePublished ==
    \A c \in Calls :
        DoTag /\ result[c] = "OK" /\ req[c].op = "publish"
        => req[c].vol \in tagged

-----------------------------------------------------------------------------
(* The inductive invariant behind these properties *)

\* A handler's labels, request, action and result fit together.
HandlerInv ==
    \A c \in Calls :
        /\ Active(c) => req[c] \in Requests
        /\ ~Active(c) => seen[c] = None
        /\ pc[c] \in TagSteps \union PublishSteps => req[c].op = "publish"
        /\ pc[c] \in UnpublishSteps => req[c].op = "unpublish"
        /\ pc[c] = "DeleteVolume" => req[c].op = "delete"
        /\ action[c] # "none" => /\ pc[c] \in {"waitAction", "done"}
                                 /\ req[c].op # "delete"
        /\ result[c] # "none" => pc[c] = "done"

\* Whoever calls: only volumes and droplets that exist are attached or have an
\* action pending, and an action in progress is its droplet's event.
ExistenceInv ==
    /\ \A v \in Volumes : attached[v] # None => v \in exists /\ attached[v] \in live
    /\ \A d \in Droplets : event[d] # NoEvent => d \in live
    /\ \A c \in Calls : action[c] = "in-progress" =>
            event[req[c].node] = [kind |-> IF req[c].op = "publish" THEN "attach" ELSE "detach",
                                  vol |-> req[c].vol]

\* Labels that a publish reaches only with a tagged volume.
PastTagging == {"PublishGetDroplet", "Attach", "waitAction"}

\* held knows of every goal that is reached, and a call that is told, or about
\* to be told, of a success has reached its goal.
Honest(c) ==
    /\ Active(c) /\ Goal(c) => held[c]
    /\ req[c].op = "unpublish" /\ action[c] = "completed" => held[c]
    /\ req[c].op \in {"unpublish", "delete"} /\ result[c] = "OK" => held[c]
    /\ DoTag /\ req[c].op = "publish" /\ (pc[c] \in PastTagging \/ result[c] = "OK")
        => req[c].vol \in tagged

\* The inductive invariant of the handlers under any caller.
RaceInv ==
    /\ TypeOK
    /\ HandlerInv
    /\ ExistenceInv
    /\ \A c \in Calls : Honest(c)

=============================================================================
