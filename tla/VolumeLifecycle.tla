-------------------------- MODULE VolumeLifecycle --------------------------
(***************************************************************************)
(* What the controller promises an orchestrator about attaching, detaching *)
(* and deleting volumes, without calls, requests, actions, deadlines or    *)
(* retries: a volume is attached only to the node it was last asked for,   *)
(* detached or deleted only when that was asked for, and every success the *)
(* orchestrator was told of is true and stays true until it asks for       *)
(* something else.                                                         *)
(*                                                                         *)
(* Module Attacher implements it; module System builds on it.              *)
(***************************************************************************)
CONSTANTS
    Volumes, Droplets,
    None         \* "no droplet"

VARIABLES
    phase,       \* what the orchestrator has asked for, or was told, of a volume
    node,        \* the node it asked for
    attached,    \* the droplet a volume is attached to
    exists,      \* volumes that exist
    live         \* droplets that exist

vars == <<phase, node, attached, exists, live>>

Init ==
    /\ phase = [v \in Volumes |-> "detached"]
    /\ node = [v \in Volumes |-> None]
    /\ attached = [v \in Volumes |-> None]
    /\ exists = Volumes
    /\ live = Droplets

Believe(v, p, d) ==
    /\ phase' = [phase EXCEPT ![v] = p]
    /\ node' = [node EXCEPT ![v] = d]
    /\ UNCHANGED <<attached, exists, live>>

-----------------------------------------------------------------------------
(* The orchestrator asks *)

AskPublish(v, d) == phase[v] = "detached" /\ Believe(v, "attaching", d)
AskUnpublish(v) == phase[v] \in {"attaching", "attached"} /\ Believe(v, "detaching", node[v])
AskDelete(v) == phase[v] \in {"detached", "deleting"} /\ Believe(v, "deleting", None)

(* The volume changes *)

\* An attach that was asked for may still win while a detach is asked for.
Take(v) ==
    /\ phase[v] \in {"attaching", "detaching"}
    /\ attached[v] = None /\ v \in exists /\ node[v] \in live
    /\ attached' = [attached EXCEPT ![v] = node[v]]
    /\ UNCHANGED <<phase, node, exists, live>>

Drop(v) ==
    /\ phase[v] = "detaching" /\ attached[v] = node[v]
    /\ attached' = [attached EXCEPT ![v] = None]
    /\ UNCHANGED <<phase, node, exists, live>>

Delete(v) ==
    /\ phase[v] = "deleting" /\ attached[v] = None
    /\ exists' = exists \ {v}
    /\ UNCHANGED <<phase, node, attached, live>>

Destroy(d) ==
    /\ live' = live \ {d}
    /\ attached' = [v \in Volumes |-> IF attached[v] = d THEN None ELSE attached[v]]
    /\ UNCHANGED <<phase, node, exists>>

(* The orchestrator is told *)

ConfirmPublish(v) ==
    /\ phase[v] = "attaching" /\ (attached[v] = node[v] \/ node[v] \notin live)
    /\ Believe(v, "attached", node[v])

ConfirmUnpublish(v) ==
    /\ phase[v] = "detaching" /\ attached[v] = None
    /\ Believe(v, "detached", None)

ConfirmDelete(v) ==
    /\ phase[v] = "deleting" /\ v \notin exists
    /\ Believe(v, "deleted", None)

-----------------------------------------------------------------------------
Next ==
    \/ \E v \in Volumes :
        \/ \E d \in Droplets : AskPublish(v, d)
        \/ AskUnpublish(v) \/ AskDelete(v)
        \/ Take(v) \/ Drop(v) \/ Delete(v)
        \/ ConfirmPublish(v) \/ ConfirmUnpublish(v) \/ ConfirmDelete(v)
    \/ \E d \in Droplets : Destroy(d)

Spec == Init /\ [][Next]_vars

=============================================================================
