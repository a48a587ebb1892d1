------------------------------- MODULE System -------------------------------
(***************************************************************************)
(* One volume, a node that stages and publishes it (module NodeService)    *)
(* and the controller that attaches it to this node or to another one, as  *)
(* module VolumeLifecycle promises and module Attacher implements.         *)
(*                                                                         *)
(* The parts meet in the device: it appears when the volume is attached to *)
(* the node and is gone when it is detached.  The orchestrator connects    *)
(* them: the kubelet stages a volume whose publish was confirmed, and an   *)
(* unpublish is asked for when the kubelet has let go of the volume.       *)
(***************************************************************************)
EXTENDS NodeService

CONSTANTS
    Volume,      \* the volume
    Self,        \* the node of module NodeService
    Elsewhere,   \* other nodes
    None         \* "no node"

ASSUME SystemAssumption == Self \notin Elsewhere /\ None \notin Elsewhere \union {Self}

VARIABLES
    volPhase,    \* what the orchestrator believes of the volume
    volNode,     \* the node it asked for
    attached, exists, live

controllerVars == <<volPhase, volNode, attached, exists, live>>
systemVars == <<vars, controllerVars>>

Controller == INSTANCE VolumeLifecycle WITH
    Volumes <- {Volume}, Droplets <- Elsewhere \union {Self},
    phase <- volPhase, node <- volNode

SystemInit == Init /\ Controller!Init

-----------------------------------------------------------------------------
PublishedHere == volPhase[Volume] = "attached" /\ volNode[Volume] = Self

\* The kubelet reports the volume as unused.
LetGo == Quiet /\ \A p \in Paths : phase[p] = "out"

\* Steps of the node; Attach and Detach of module NodeService are now the
\* controller's.
NodeStep ==
    /\ \/ \E c \in Calls : HandlerStep(c) \/ GiveUp(c) \/ Collect(c)
       \/ \E c \in Calls : (PublishedHere /\ Stage(c)) \/ Unstage(c)
       \/ \E c \in Calls, t \in Targets : Publish(c, t) \/ Unpublish(c, t)
       \/ \E c \in Calls, p \in Paths : Expand(c, p)
       \/ Restart \/ Grow
    /\ UNCHANGED controllerVars

OrchestratorStep ==
    /\ \/ \E d \in Elsewhere \union {Self} : Controller!AskPublish(Volume, d)
       \/ (volNode[Volume] = Self => LetGo) /\ Controller!AskUnpublish(Volume)
       \/ Controller!AskDelete(Volume)
       \/ Controller!ConfirmPublish(Volume)
       \/ Controller!ConfirmUnpublish(Volume)
       \/ Controller!ConfirmDelete(Volume)
       \/ Controller!Delete(Volume)
       \/ \E d \in Elsewhere \cap live : Controller!Destroy(d)
    /\ UNCHANGED vars

\* The device comes and goes with the attachment.
AttachmentStep ==
    /\ Controller!Take(Volume) \/ Controller!Drop(Volume)
    /\ device' = CASE attached'[Volume] = Self -> "attaching"
                   [] attached[Volume] = Self -> "absent"
                   [] OTHER -> device
    /\ UNCHANGED <<devSize, fs, broken, fsSize, mounts>>
    /\ UNCHANGED <<attributes, callVars, kubeletVars, history>>

\* The kernel has found the device.
DeviceRuns == device = "attaching" /\ Attach /\ UNCHANGED controllerVars

Finished == volPhase[Volume] = "deleted" /\ UNCHANGED systemVars

SystemNext == NodeStep \/ OrchestratorStep \/ AttachmentStep \/ DeviceRuns \/ Finished

SystemSpec == SystemInit /\ [][SystemNext]_systemVars

-----------------------------------------------------------------------------
(* Properties *)

\* A node shows the volume to containers only while it is attached to that
\* node: it is never attached to another node, or deleted, under a container
\* that uses it, through restarts, failed commands, and retries of both parts.
InUseMeansAttached ==
    OneByOne /\ DeviceInUse => attached[Volume] = Self /\ Volume \in exists

-----------------------------------------------------------------------------
(* The inductive invariant of module SystemProofs *)

ControllerTypeOK ==
    /\ volPhase \in [{Volume} -> {"detached", "attaching", "attached", "detaching",
                                  "deleting", "deleted"}]
    /\ volNode \in [{Volume} -> Elsewhere \union {Self, None}]
    /\ attached \in [{Volume} -> Elsewhere \union {Self, None}]
    /\ exists \subseteq {Volume}
    /\ live \subseteq Elsewhere \union {Self}

\* The device is there while the volume is attached to this node, and the kubelet
\* deals with the volume only while it is published here.
LinkInv ==
    /\ device # "absent" <=> attached[Volume] = Self
    /\ Self \in live
    /\ attached[Volume] # None =>
        /\ attached[Volume] = volNode[Volume]
        /\ volPhase[Volume] \in {"attaching", "attached", "detaching"}
    /\ volPhase[Volume] \notin {"deleting", "deleted"} => Volume \in exists
    /\ PublishedHere => attached[Volume] = Self
    /\ ~LetGo => PublishedHere

SystemInv == NodeInv /\ DataInv /\ ControllerTypeOK /\ LinkInv

=============================================================================
