------------------------------ MODULE Attacher ------------------------------
(***************************************************************************)
(* The controller's attach, detach and delete handlers of module           *)
(* Attachment, driven by a container orchestrator the way the CSI sidecars *)
(* drive them: one call at a time per volume, a volume given to one node   *)
(* until that node's unpublish succeeded, every failed call repeated.      *)
(*                                                                         *)
(* A call the orchestrator gave up on (its deadline passed) may still be   *)
(* running when the next one for the same volume starts, and the attach or *)
(* detach it asked for may still be pending in the API.  What the          *)
(* orchestrator believes about a volume is only what OK answers told it;   *)
(* the properties relate that belief to the API's state.                   *)
(***************************************************************************)
EXTENDS Attachment

VARIABLES
    phase,   \* what the orchestrator believes about a volume
    node     \* the node it last asked for, from publish to unpublish

coVars == <<phase, node>>
allVars == <<vars, coVars>>

Phases == {"detached", "attaching", "attached", "detaching", "deleting", "deleted"}

COTypeOK ==
    /\ TypeOK
    /\ phase \in [Volumes -> Phases]
    /\ node \in [Volumes -> Droplets \union {None}]

COInit ==
    /\ Init
    /\ phase = [v \in Volumes |-> "detached"]
    /\ node = [v \in Volumes |-> None]

-----------------------------------------------------------------------------
(* The orchestrator (external) *)

\* The call is still being waited for.
Waiting(c) == Active(c) /\ ~expired[c]

\* A new call for v starts only when no call for v is being waited for.
Quiet(v) == \A c \in Calls : Waiting(c) => req[c].vol # v

Believe(v, p, d) ==
    /\ phase' = [phase EXCEPT ![v] = p]
    /\ node' = [node EXCEPT ![v] = d]

COPublish(c, v, d) ==
    /\ Quiet(v)
    /\ \/ phase[v] = "detached"
       \/ phase[v] = "attaching" /\ node[v] = d
    /\ Believe(v, "attaching", d)
    /\ Begin(c, [op |-> "publish", vol |-> v, node |-> d])

COUnpublish(c, v) ==
    /\ Quiet(v)
    /\ phase[v] \in {"attaching", "attached", "detaching"}
    /\ Believe(v, "detaching", node[v])
    /\ Begin(c, [op |-> "unpublish", vol |-> v, node |-> node[v]])

CODelete(c, v) ==
    /\ Quiet(v)
    /\ phase[v] \in {"detached", "deleting"}
    /\ Believe(v, "deleting", None)
    /\ Begin(c, [op |-> "delete", vol |-> v, node |-> None])

\* A call that failed or that nobody waits for teaches nothing.
COCollect(c) ==
    LET v == req[c].vol IN
    /\ Collect(c)
    /\ \/ /\ result[c] = "OK" /\ ~expired[c]
          /\ \/ req[c].op = "publish" /\ Believe(v, "attached", node[v])
             \/ req[c].op = "unpublish" /\ Believe(v, "detached", None)
             \/ req[c].op = "delete" /\ Believe(v, "deleted", None)
       \/ /\ result[c] # "OK" \/ expired[c]
          /\ UNCHANGED coVars

COStep(c) ==
    \/ \E v \in Volumes, d \in Droplets : COPublish(c, v, d)
    \/ \E v \in Volumes : COUnpublish(c, v) \/ CODelete(c, v)
    \/ COCollect(c)

\* Everything else leaves the orchestrator's beliefs alone.
Silent ==
    \/ \E c \in Calls : HandlerStep(c) /\ UNCHANGED coVars
    \/ \E c \in Calls : Expire(c) /\ UNCHANGED coVars
    \/ Restart /\ UNCHANGED coVars
    \/ \E d \in Droplets : ApiStep(d) /\ UNCHANGED coVars

\* Once every volume is deleted there is nothing left to ask for.
Finished ==
    /\ \A v \in Volumes : phase[v] = "deleted"
    /\ \A c \in Calls : ~Active(c)
    /\ UNCHANGED allVars

CONext == (\E c \in Calls : COStep(c)) \/ Silent \/ Finished

COSpec == COInit /\ [][CONext]_allVars

-----------------------------------------------------------------------------
(* Properties *)

\* The API has neither an attachment of v nor an action under way for it.
Clear(v) ==
    /\ attached[v] = None
    /\ \A d \in Droplets : event[d].vol # v

\* A volume whose unpublish returned OK is detached and stays detached until
\* it is published again: no attach of an earlier, abandoned publish call is
\* still under way that would attach it behind the orchestrator's back.  So
\* it can be given to another node, or deleted.
CleanWhenDetached ==
    \A v \in Volumes :
        phase[v] \in {"detached", "deleting", "deleted"} => Clear(v)

\* A volume whose publish returned OK is attached to exactly that node, and
\* no leftover detach is under way, unless the droplet was destroyed.
AttachedWhenPublished ==
    \A v \in Volumes :
        phase[v] = "attached" =>
            /\ attached[v] = node[v] \/ node[v] \notin live
            /\ \A d \in Droplets : event[d].vol # v

\* A volume is attached, or about to be, to no other droplet than the one
\* the orchestrator last named, whatever calls it has given up on.
OneNodeAtATime ==
    \A v \in Volumes :
        /\ attached[v] \in {None, node[v]}
        /\ \A d \in Droplets : event[d].vol = v => d = node[v]

\* With a disciplined orchestrator no publish it waits for runs into "volume
\* is attached to the wrong droplet", and none is told OK by an answer about
\* another droplet ("This volume is already attached").
NoWrongDroplet ==
    \A c \in Calls :
        Waiting(c) /\ req[c].op = "publish" =>
            /\ result[c] # "FailedPrecondition"
            /\ result[c] = "OK" =>
                    attached[req[c].vol] = req[c].node \/ req[c].node \notin live

\* A volume whose deletion was confirmed does not exist any more.
DeletedMeansGone ==
    \A v \in Volumes : phase[v] = "deleted" => v \notin exists

\* The handlers keep the promise of module VolumeLifecycle: with all their
\* requests, retries, abandoned calls and late actions, a volume is attached,
\* detached and deleted only as it was last asked for, and what the
\* orchestrator is told is true when it is told.
Abstract == INSTANCE VolumeLifecycle
ImplementsLifecycle == Abstract!Spec

-----------------------------------------------------------------------------
(* The inductive invariant behind these properties (HandlerInv, the part   *)
(* that does not depend on the caller, is in module Attachment) *)

\* One call per volume is waited for, and it is the one the phase names.
DisciplineInv ==
    /\ \A c1, c2 \in Calls :
            Waiting(c1) /\ Waiting(c2) /\ req[c1].vol = req[c2].vol => c1 = c2
    /\ \A c \in Calls : Waiting(c) =>
            /\ req[c].op = "publish" => phase[req[c].vol] = "attaching"
            /\ req[c].op = "unpublish" => phase[req[c].vol] = "detaching"
            /\ req[c].op = "delete" => phase[req[c].vol] = "deleting"
            /\ req[c].op # "delete" => node[req[c].vol] = req[c].node
    /\ \A v \in Volumes :
            phase[v] \in {"attaching", "attached", "detaching"} => node[v] \in Droplets

\* Attachments and pending events are of volumes and droplets that exist; an
\* attach is pending only for a free volume, and no detach is pending for a
\* volume that is wanted; an action in progress is the droplet's event.
ApiInv ==
    /\ \A v \in Volumes : attached[v] # None => v \in exists /\ attached[v] \in live
    /\ \A d \in Droplets : event[d] # NoEvent =>
            /\ d \in live
            /\ event[d].vol \in exists
            /\ event[d].kind = "attach" => attached[event[d].vol] = None
            /\ event[d].kind = "detach" => phase[event[d].vol] = "detaching"
    /\ \A c \in Calls : action[c] = "in-progress" =>
            /\ event[req[c].node].vol = req[c].vol
            /\ req[c].op = "publish" => event[req[c].node].kind = "attach"
            /\ req[c].op = "unpublish" => event[req[c].node].kind = "detach"

\* What the handler of c has learnt is still true.
Knows(c) ==
    LET v == req[c].vol
        d == req[c].node
    IN
    /\ req[c].op = "publish" =>
        /\ seen[c] \in {None, d}
        /\ result[c] # "FailedPrecondition"
        /\ (seen[c] = d \/ action[c] = "completed" \/ result[c] = "OK")
            => (attached[v] = d \/ d \notin live)
    /\ req[c].op = "unpublish" /\ (action[c] = "completed" \/ result[c] = "OK")
        => Clear(v)
    /\ req[c].op = "delete" /\ result[c] = "OK" => v \notin exists

\* A handler that is waited for can rely on what it has learnt, although the
\* API has moved on since.
KnowledgeInv == \A c \in Calls : Waiting(c) => Knows(c)

\* The inductive invariant: what calls that are waited for know stays true
\* although calls that were given up on and their actions are still around.
Inv ==
    /\ COTypeOK
    /\ HandlerInv
    /\ DisciplineInv
    /\ ApiInv
    /\ KnowledgeInv
    /\ OneNodeAtATime
    /\ CleanWhenDetached
    /\ AttachedWhenPublished
    /\ DeletedMeansGone

=============================================================================
