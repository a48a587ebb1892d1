---------------------------- MODULE NodeService ----------------------------
(***************************************************************************)
(* The node service (src/driver/node.go) and the mounter it uses           *)
(* (src/driver/mounter.go): staging, publishing, unpublishing, unstaging   *)
(* and expanding one volume on one node, and the kubelet that calls it.    *)
(* Handlers of different volumes share no path and no device.              *)
(*                                                                         *)
(* A handler's state is the node's: the device, the filesystem on it and   *)
(* the mounts.  One step is one command (blkid, mkfs, findmnt, mount,      *)
(* umount, resize2fs).  The kubelet has one call of the volume under way;  *)
(* no handler looks at its context, so one the kubelet gave up on runs on. *)
(***************************************************************************)
EXTENDS Integers, Sequences, SequencesExt

CONSTANTS
    Targets,              \* target paths: one per pod that uses the volume
    Staging,              \* the staging target path
    Calls,                \* slots for RPCs in flight; a slot is used again
    ValidateAttachment,   \* the flag --validate-attachment
    MaxAbandoned,         \* bound on calls the kubelet gives up on
    MaxFormats,           \* bound on mkfs runs
    MaxSize               \* bound on the size of the device

ASSUME NodeAssumption ==
    /\ Staging \notin Targets
    /\ ValidateAttachment \in BOOLEAN
    /\ MaxAbandoned \in Nat
    /\ MaxFormats \in Nat \ {0}
    /\ MaxSize \in Nat \ {0}

Paths == Targets \union {Staging}

VARIABLES
    \* the node (external)
    device,      \* "absent", "attaching" (not readable yet) or "running"
    devSize,     \* size of the device
    fs,          \* which filesystem is on the device; 0 if none is
    broken,      \* mkfs did not get to its end
    fsSize,      \* size of the filesystem
    mounts,      \* per path, what is mounted there; the last is on top
    \* the volume's attributes
    isBlock,     \* access type: raw block device or filesystem
    noFormat,    \* the volume context has the noformat annotation
    \* the handlers
    pc, req, result,
    abandoned,   \* calls the kubelet does not wait for any longer
    \* the kubelet
    phase,       \* what it believes of each path
    gaveUp,      \* how many calls it gave up on
    \* history
    unread,      \* calls before mkfs whose blkid ran on an unreadable device
    data         \* the filesystem holds data of a pod

nodeVars == <<device, devSize, fs, broken, fsSize, mounts>>
attributes == <<isBlock, noFormat>>
callVars == <<pc, req, result, abandoned>>
kubeletVars == <<phase, gaveUp>>
history == <<unread, data>>
vars == <<nodeVars, attributes, callVars, kubeletVars, history>>

-----------------------------------------------------------------------------
(* A mount shows the volume, or the bare directory under it *)

Sources == {"volume", "directory"}

Mounted(p) == mounts[p] # <<>>
DeviceInUse == \E p \in Paths : "volume" \in ToSet(mounts[p])

Requests ==
    [op : {"stage", "unstage"}, path : {Staging}, size : 1..MaxSize]
        \union [op : {"publish", "unpublish"}, path : Targets, size : 1..MaxSize]
        \union [op : {"expand"}, path : Paths, size : 1..MaxSize]
NoRequest == [op |-> "none", path |-> Staging, size |-> 0]

Codes == {"OK", "InvalidArgument", "NotFound", "Internal", "Unknown", "Unavailable"}

CleanupSteps == {"cleanupCheck", "cleanupUnmount", "cleanupRecheck"}
Commands == {"isFormatted", "format", "stageIsMounted", "stageMount", "stageResize",
             "findDevice", "publishIsMounted", "bindMount", "unstageIsMounted",
             "expandIsMounted", "resize"} \union CleanupSteps
Labels == {"idle", "stage", "expand", "done"} \union Commands

Active(c) == pc[c] # "idle"

TypeOK ==
    /\ device \in {"absent", "attaching", "running"}
    /\ devSize \in 1..MaxSize
    /\ fs \in 0..MaxFormats
    /\ broken \in BOOLEAN
    /\ fsSize \in 0..MaxSize
    /\ mounts \in [Paths -> Seq(Sources)]
    /\ isBlock \in BOOLEAN
    /\ noFormat \in BOOLEAN
    /\ pc \in [Calls -> Labels]
    /\ req \in [Calls -> Requests \union {NoRequest}]
    /\ result \in [Calls -> Codes \union {"none"}]
    /\ abandoned \in SUBSET Calls
    /\ phase \in [Paths -> {"out", "going in", "in", "going out"}]
    /\ gaveUp \in 0..MaxAbandoned
    /\ unread \in SUBSET Calls
    /\ data \in BOOLEAN

\* The volume is new, or has a filesystem already (one of the user, or one
\* restored from a snapshot, perhaps onto a larger device).  No handler looks
\* at the content or at the annotation of a block volume: one value of each.
Init ==
    /\ device = "absent"
    /\ devSize \in 1..MaxSize
    /\ isBlock \in BOOLEAN
    /\ noFormat \in IF isBlock THEN {FALSE} ELSE BOOLEAN
    /\ fs \in IF isBlock THEN {0} ELSE {0, 1}
    /\ broken = FALSE
    /\ fsSize \in IF fs = 0 THEN {0} ELSE 1..devSize
    /\ mounts = [p \in Paths |-> <<>>]
    /\ pc = [c \in Calls |-> "idle"]
    /\ req = [c \in Calls |-> NoRequest]
    /\ result = [c \in Calls |-> "none"]
    /\ abandoned = {}
    /\ phase = [p \in Paths |-> "out"]
    /\ gaveUp = 0
    /\ unread = {}
    /\ data = (fs # 0)

-----------------------------------------------------------------------------
(* Steps of a handler *)

Goto(c, label) == pc' = [pc EXCEPT ![c] = label] /\ UNCHANGED result

Return(c, code) ==
    /\ pc' = [pc EXCEPT ![c] = "done"]
    /\ result' = [result EXCEPT ![c] = code]

LeavesCall == UNCHANGED <<attributes, req, abandoned, kubeletVars>>
LeavesRest == LeavesCall /\ UNCHANGED history

\* The driver NewDriver makes of the flag --validate-attachment: the field
\* is not among those it sets.
NewDriver(flag) == [validateAttachment |-> FALSE]

\* The content of the device's state file (external), a line of text.
StateFile == IF device = "running" THEN "running\n" ELSE "blocked\n"

\* The content is compared as it is, with its newline.
IsAttached == device # "absent" /\ StateFile = "running"

\* NodeStageVolume up to the first command.
\* A block volume needs no staging.
NodeStageVolume(c) ==
    /\ pc[c] = "stage"
    /\ IF isBlock THEN Return(c, "OK")
       ELSE IF noFormat THEN Goto(c, "stageIsMounted")
       ELSE IF NewDriver(ValidateAttachment).validateAttachment /\ ~IsAttached
            THEN Return(c, "Unknown")
       ELSE Goto(c, "isFormatted")
    /\ UNCHANGED nodeVars /\ LeavesRest

\* blkid finds a filesystem, or exits with 2: on an empty device, and on one
\* that it cannot read.
IsFormatted(c) ==
    /\ pc[c] = "isFormatted"
    /\ Goto(c, IF device = "running" /\ fs # 0 THEN "stageIsMounted" ELSE "format")
    /\ unread' = IF device = "running" THEN unread ELSE unread \union {c}
    /\ UNCHANGED <<nodeVars, data>> /\ LeavesCall

\* mkfs refuses a device that is mounted.  When it fails on its way, what it
\* leaves may look like a filesystem to blkid.
Format(c) ==
    /\ pc[c] = "format"
    /\ \/ /\ device # "running" \/ DeviceInUse
          /\ Return(c, "Internal")
          /\ UNCHANGED <<nodeVars, data>>
       \/ /\ device = "running" /\ ~DeviceInUse /\ fs < MaxFormats
          /\ \/ /\ Goto(c, "stageIsMounted")
                /\ fs' = fs + 1 /\ broken' = FALSE /\ fsSize' = devSize
             \/ /\ Return(c, "Internal")
                /\ \/ fs' = 0 /\ broken' = FALSE
                   \/ fs' = fs + 1 /\ broken' = TRUE
                /\ fsSize' = 0
          /\ data' = FALSE
          /\ UNCHANGED <<device, devSize, mounts>>
    /\ unread' = unread \ {c}
    /\ LeavesCall

\* Mutant: a volume that is mounted already is taken to be staged.
StageIsMountedDone(c) ==
    /\ pc[c] = "stageIsMounted"
    /\ IF Mounted(Staging) THEN Return(c, "OK") ELSE Goto(c, "stageMount")
    /\ UNCHANGED nodeVars /\ LeavesRest

StageIsMounted(c) ==
    /\ pc[c] = "stageIsMounted"
    /\ Goto(c, IF Mounted(Staging) THEN "stageResize" ELSE "stageMount")
    /\ UNCHANGED nodeVars /\ LeavesRest

\* The kernel does not mount a filesystem over itself.
StageMount(c) ==
    LET mountable == /\ device = "running" /\ fs # 0 /\ ~broken
                     /\ ~Mounted(Staging)
    IN
    /\ pc[c] = "stageMount"
    /\ \/ /\ mountable
          /\ mounts' = [mounts EXCEPT ![Staging] = Append(@, "volume")]
          /\ Goto(c, "stageResize")
       \/ ~mountable /\ Return(c, "Internal") /\ UNCHANGED mounts
    /\ UNCHANGED <<device, devSize, fs, broken, fsSize>> /\ LeavesRest

\* os.Stat of the source, NeedResize and Resize.  Without the device there
\* is nothing to resize.  resize2fs and xfs_growfs get no size and fill it.
StageResize(c) ==
    /\ pc[c] = "stageResize"
    /\ \/ /\ device # "running"
          /\ Return(c, "OK")
          /\ UNCHANGED nodeVars
       \/ /\ device = "running" /\ fs # 0 /\ ~broken
          /\ fsSize' = devSize
          /\ Return(c, "OK")
          /\ UNCHANGED <<device, devSize, fs, broken, mounts>>
    /\ LeavesRest

\* nodePublishVolumeForBlock resolves the link to the device.
FindDevice(c) ==
    /\ pc[c] = "findDevice"
    /\ \/ device = "absent" /\ Return(c, "Internal")
       \/ device # "absent" /\ Goto(c, "publishIsMounted")
    /\ UNCHANGED nodeVars /\ LeavesRest

\* Mutant: the target is mounted whatever is there already.
PublishIsMountedNever(c) ==
    /\ pc[c] = "publishIsMounted"
    /\ Goto(c, "bindMount")
    /\ UNCHANGED nodeVars /\ LeavesRest

PublishIsMounted(c) ==
    /\ pc[c] = "publishIsMounted"
    /\ IF Mounted(req[c].path) THEN Return(c, "OK") ELSE Goto(c, "bindMount")
    /\ UNCHANGED nodeVars /\ LeavesRest

\* What a bind mount of the source shows: the device, what is on top of the
\* staging path, or, if nothing is mounted there, the directory itself.
BindSource ==
    IF isBlock \/ Mounted(Staging) THEN "volume" ELSE "directory"

\* Bind mounts stack.
BindMount(c) ==
    /\ pc[c] = "bindMount"
    /\ \/ /\ isBlock => device # "absent"
          /\ mounts' = [mounts EXCEPT ![req[c].path] = Append(@, BindSource)]
          /\ Return(c, "OK")
       \/ isBlock /\ device = "absent" /\ Return(c, "Internal") /\ UNCHANGED mounts
    /\ UNCHANGED <<device, devSize, fs, broken, fsSize>> /\ LeavesRest

UnstageIsMounted(c) ==
    /\ pc[c] = "unstageIsMounted"
    /\ IF Mounted(Staging) THEN Goto(c, "cleanupCheck") ELSE Return(c, "OK")
    /\ UNCHANGED nodeVars /\ LeavesRest

\* CleanupMountPoint: unmount the path if it is a mount point, and remove it
\* if it is not one any longer.  A corrupted mount is not looked at first, nor
\* is any path on a node whose umount says when there was nothing to unmount.
CleanupCheck(c) ==
    /\ pc[c] = "cleanupCheck"
    /\ \/ Goto(c, "cleanupUnmount")
       \/ ~Mounted(req[c].path) /\ Return(c, "OK")
    /\ UNCHANGED nodeVars /\ LeavesRest

\* Mutant: mounter.Unmount calls umount, not CleanupMountPoint.
UnmountedNow(c) == Return(c, "OK")

\* mounter.Unmount does not return when umount does.
Unmounted(c) == Goto(c, "cleanupRecheck")

\* umount takes off what is on top.  With nothing there it fails, or that is
\* taken for success.
CleanupUnmount(c) ==
    LET p == req[c].path IN
    /\ pc[c] = "cleanupUnmount"
    /\ \/ /\ Mounted(p)
          /\ mounts' = [mounts EXCEPT ![p] = Front(@)]
          /\ Unmounted(c)
       \/ /\ ~Mounted(p)
          /\ Return(c, "Unknown") \/ Unmounted(c)
          /\ UNCHANGED mounts
    /\ UNCHANGED <<device, devSize, fs, broken, fsSize>> /\ LeavesRest

\* A path that is still a mount point is an error, and so is its removal.
CleanupRecheck(c) ==
    /\ pc[c] = "cleanupRecheck"
    /\ Return(c, IF Mounted(req[c].path) THEN "Unknown" ELSE "OK")
    /\ UNCHANGED nodeVars /\ LeavesRest

\* NodeExpandVolume has nothing to do for a block volume.
NodeExpandVolume(c) ==
    /\ pc[c] = "expand"
    /\ IF isBlock THEN Return(c, "OK") ELSE Goto(c, "expandIsMounted")
    /\ UNCHANGED nodeVars /\ LeavesRest

ExpandIsMounted(c) ==
    /\ pc[c] = "expandIsMounted"
    /\ IF Mounted(req[c].path) THEN Goto(c, "resize") ELSE Return(c, "NotFound")
    /\ UNCHANGED nodeVars /\ LeavesRest

\* GetDeviceName and Resize, on the device of whatever is mounted there.
Resize(c) ==
    LET p == req[c].path IN
    /\ pc[c] = "resize"
    /\ \/ ~Mounted(p) /\ Return(c, "NotFound") /\ UNCHANGED fsSize
       \/ Mounted(p) /\ Last(mounts[p]) = "directory" /\ Return(c, "OK") /\ UNCHANGED fsSize
       \/ /\ Mounted(p) /\ Last(mounts[p]) = "volume"
          /\ fsSize' = devSize
          /\ Return(c, "OK")
    /\ UNCHANGED <<device, devSize, fs, broken, mounts>> /\ LeavesRest

\* Mutants: the error of a command that mounts, or of umount, is not looked at.
CommandCodeMountOK(label) ==
    IF label \in {"stageMount", "bindMount"} THEN "OK" ELSE "Unknown"
CommandCodeUnmountOK(label) == IF label = "cleanupUnmount" THEN "OK" ELSE "Unknown"

\* How the failure of a command is reported.
CommandCode(label) ==
    IF label \in {"format", "stageMount", "stageResize", "findDevice",
                  "bindMount", "expandIsMounted", "resize"}
    THEN "Internal" ELSE "Unknown"

\* Mutant: whatever blkid exits with, there is no filesystem.
CommandFailsFormats(c) ==
    /\ pc[c] \in Commands
    /\ IF pc[c] = "isFormatted" THEN Goto(c, "format") ELSE Return(c, CommandCode(pc[c]))
    /\ UNCHANGED nodeVars /\ LeavesRest

\* A command fails and changes nothing; every failure is returned.
CommandFails(c) ==
    /\ pc[c] \in Commands
    /\ Return(c, CommandCode(pc[c]))
    /\ UNCHANGED nodeVars /\ LeavesRest

HandlerStep(c) ==
    \/ NodeStageVolume(c) \/ IsFormatted(c) \/ Format(c) \/ StageIsMounted(c)
    \/ StageMount(c) \/ StageResize(c)
    \/ FindDevice(c) \/ PublishIsMounted(c) \/ BindMount(c)
    \/ UnstageIsMounted(c) \/ CleanupCheck(c) \/ CleanupUnmount(c) \/ CleanupRecheck(c)
    \/ NodeExpandVolume(c) \/ ExpandIsMounted(c) \/ Resize(c)
    \/ CommandFails(c)

-----------------------------------------------------------------------------
(* The kubelet and the controller (external) *)

\* The kubelet waits for one call of the volume at a time.
Waiting(c) == Active(c) /\ c \notin abandoned
Quiet == \A c \in Calls : ~Waiting(c)

\* Every handler refuses a request that lacks a field.
Call(c, op, p, label) ==
    /\ pc[c] = "idle" /\ Quiet
    /\ Goto(c, label) \/ Return(c, "InvalidArgument")
    /\ req' = [req EXCEPT ![c] = [op |-> op, path |-> p, size |-> devSize]]
    /\ UNCHANGED <<nodeVars, attributes, abandoned, gaveUp, history>>

\* The device is there once the controller has published the volume, readable
\* or not, and the kubelet may stage it again after a restart of its own.
Stage(c) ==
    /\ device # "absent"
    /\ phase' = [phase EXCEPT ![Staging] = "going in"]
    /\ Call(c, "stage", Staging, "stage")

Publish(c, t) ==
    /\ phase[Staging] = "in" /\ phase[t] # "going out"
    /\ phase' = [phase EXCEPT ![t] = "going in"]
    /\ Call(c, "publish", t, IF isBlock THEN "findDevice" ELSE "publishIsMounted")

Unpublish(c, t) ==
    /\ phase[t] # "out"
    /\ phase' = [phase EXCEPT ![t] = "going out"]
    /\ Call(c, "unpublish", t, "cleanupCheck")

Unstage(c) ==
    /\ phase[Staging] # "out" /\ \A t \in Targets : phase[t] = "out"
    /\ phase' = [phase EXCEPT ![Staging] = "going out"]
    /\ Call(c, "unstage", Staging, "unstageIsMounted")

Expand(c, p) ==
    /\ phase[p] = "in"
    /\ Call(c, "expand", p, "expand")
    /\ UNCHANGED phase

GiveUp(c) ==
    /\ Waiting(c) /\ gaveUp < MaxAbandoned
    /\ abandoned' = abandoned \union {c}
    /\ gaveUp' = gaveUp + 1
    /\ UNCHANGED <<nodeVars, attributes, pc, req, result, phase, history>>

Settled(op) == IF op \in {"stage", "publish"} THEN "in" ELSE "out"

\* A pod that gets the volume writes to it.
Collect(c) ==
    LET believed == result[c] = "OK" /\ c \notin abandoned /\ req[c].op # "expand" IN
    /\ pc[c] = "done"
    /\ phase' = [phase EXCEPT ![req[c].path] =
                    IF believed THEN Settled(req[c].op) ELSE @]
    /\ pc' = [pc EXCEPT ![c] = "idle"]
    /\ req' = [req EXCEPT ![c] = NoRequest]
    /\ result' = [result EXCEPT ![c] = "none"]
    /\ abandoned' = abandoned \ {c}
    /\ unread' = unread \ {c}
    /\ data' = (data \/ (believed /\ req[c].op = "publish" /\ fs # 0))
    /\ UNCHANGED <<nodeVars, attributes, gaveUp>>

\* The driver's container is restarted: no handler goes on, mounts stay.
Restart ==
    /\ \E c \in Calls : Active(c) /\ result[c] # "Unavailable"
    /\ pc' = [c \in Calls |-> IF Active(c) THEN "done" ELSE "idle"]
    /\ result' = [c \in Calls |-> IF Active(c) THEN "Unavailable" ELSE "none"]
    /\ UNCHANGED <<nodeVars, attributes, req, abandoned, kubeletVars, history>>

\* The volume is attached to this node, and the kernel finds the device.
Attach ==
    /\ device \in {"absent", "attaching"}
    /\ device' = IF device = "absent" THEN "attaching" ELSE "running"
    /\ UNCHANGED <<devSize, fs, broken, fsSize, mounts>>
    /\ UNCHANGED <<attributes, callVars, kubeletVars, history>>

\* The volume is detached once the kubelet has let go of it.
Detach ==
    /\ device # "absent" /\ Quiet /\ \A p \in Paths : phase[p] = "out"
    /\ device' = "absent"
    /\ UNCHANGED <<devSize, fs, broken, fsSize, mounts>>
    /\ UNCHANGED <<attributes, callVars, kubeletVars, history>>

\* ControllerExpandVolume.
Grow ==
    /\ devSize < MaxSize
    /\ devSize' = devSize + 1
    /\ UNCHANGED <<device, fs, broken, fsSize, mounts>>
    /\ UNCHANGED <<attributes, callVars, kubeletVars, history>>

Next ==
    \/ \E c \in Calls : HandlerStep(c) \/ GiveUp(c) \/ Collect(c)
    \/ \E c \in Calls : Stage(c) \/ Unstage(c)
    \/ \E c \in Calls, t \in Targets : Publish(c, t) \/ Unpublish(c, t)
    \/ \E c \in Calls, p \in Paths : Expand(c, p)
    \/ Restart \/ Attach \/ Detach \/ Grow

Spec == Init /\ [][Next]_vars

-----------------------------------------------------------------------------
(* Properties *)

\* The kubelet has given up on no call, so that handlers ran one by one.  The
\* handlers do not look at their context and promise little otherwise.
OneByOne == gaveUp = 0

\* A path the kubelet believes staged or published shows the volume and
\* nothing else, through every retry and restart: no container writes to a
\* directory of the node instead.
InMeansVolume ==
    \A p \in Paths : OneByOne /\ phase[p] = "in" /\ ~(isBlock /\ p = Staging) =>
        Mounted(p) /\ ToSet(mounts[p]) = {"volume"}

\* The node lets go of the device before the kubelet allows its detachment:
\* nothing shows the volume when no path is staged or published.
OutMeansReleased ==
    OneByOne /\ (\A p \in Paths : phase[p] = "out") => ~DeviceInUse

\* Data of a pod is lost only to a stage whose blkid ran before the device was
\* readable, or which the kubelet has given up on.  A stage the kubelet waits
\* for, and whose blkid could read the device, destroys nothing: not through
\* failed commands, restarts and retries, nor by what abandoned handlers of
\* earlier calls do between its blkid and its mkfs.
LostOnlyUnreadOrAbandoned ==
    [][data /\ ~data' =>
        \E c \in Calls :
            /\ pc[c] = "format" /\ pc'[c] # "format"
            /\ c \in unread \union abandoned]_vars

\* Staging never replaces a filesystem once completed by an empty one.
ExistingDataSurvives ==
    [][OneByOne /\ fs # 0 /\ ~broken => fs' = fs /\ ~broken']_vars

\* When a stage or an expand succeeds the filesystem is as large as the device
\* was when it was called, also if another attempt was cut short.
GrownToDevice ==
    \A c \in Calls :
        /\ OneByOne /\ ~isBlock
        /\ result[c] = "OK" /\ req[c].op \in {"stage", "expand"}
        => fsSize >= req[c].size

\* An unstage or unpublish that returns OK leaves nothing mounted at its path,
\* even if abandoned calls have stacked mounts there.
UnmountOKMeansUnmounted ==
    [][\A c \in Calls :
        result[c] # "OK" /\ result'[c] = "OK" /\ req[c].op \in {"unstage", "unpublish"}
        => mounts'[req[c].path] = <<>>]_vars

-----------------------------------------------------------------------------
(* The inductive invariant of module SystemProofs *)

\* Label, request and result of a call fit together.
Consistent(c) ==
    /\ pc[c] = "idle" => c \notin abandoned
    /\ pc[c] # "idle" => req[c] \in Requests /\ req[c].size <= devSize
    /\ pc[c] = "done" <=> result[c] # "none"
    /\ pc[c] \in {"stage", "isFormatted", "format", "stageIsMounted", "stageMount",
                  "stageResize"} => req[c].op = "stage"
    /\ pc[c] \in {"findDevice", "publishIsMounted", "bindMount"} => req[c].op = "publish"
    /\ pc[c] = "unstageIsMounted" => req[c].op = "unstage"
    /\ pc[c] \in CleanupSteps => req[c].op \in {"unstage", "unpublish"}
    /\ pc[c] \in {"expand", "expandIsMounted", "resize"} => req[c].op = "expand"
    /\ pc[c] \in {"isFormatted", "format", "stageIsMounted", "stageMount", "stageResize",
                  "expandIsMounted", "resize"} => ~isBlock

HandlerInv == \A c \in Calls : Consistent(c)

\* What the kubelet believes while it waits for a call, and in which order it
\* takes the volume in and out.
Believes(c) ==
    LET p == req[c].path IN
    /\ req[c].op = "stage" => phase[Staging] = "going in"
    /\ req[c].op = "publish" => phase[p] = "going in" /\ phase[Staging] = "in"
    /\ req[c].op = "unpublish" => phase[p] = "going out"
    /\ req[c].op = "unstage" =>
        phase[Staging] = "going out" /\ \A t \in Targets : phase[t] = "out"
    /\ req[c].op = "expand" => phase[p] = "in"

PhaseInv ==
    /\ \A c, d \in Calls : Waiting(c) /\ Waiting(d) => c = d
    /\ \A c \in Calls : Waiting(c) => Believes(c)
    /\ \A t \in Targets : phase[t] # "out" => phase[Staging] \in {"in", "going in"}
    /\ OneByOne => abandoned = {}

\* The device stays until the kubelet has let go of the volume.
DeviceInv ==
    /\ \A p \in Paths : phase[p] # "out" => device # "absent"
    /\ \A c \in Calls : Waiting(c) => device # "absent"

\* One mount of the volume at a path at most, and what the kubelet believes of it.
MountInv ==
    \A p \in Paths :
        /\ mounts[p] \in {<<>>, <<"volume">>}
        /\ phase[p] = "out" => mounts[p] = <<>>
        /\ phase[p] = "in" /\ ~(isBlock /\ p = Staging) => mounts[p] = <<"volume">>
        /\ mounts[p] # <<>> /\ ~isBlock => device = "running"

\* What a handler has learnt still holds.
Knows(c) ==
    LET p == req[c].path IN
    /\ pc[c] = "bindMount" => mounts[p] = <<>>
    /\ pc[c] = "stageResize" => mounts[p] = <<"volume">>
    /\ result[c] = "OK" =>
        /\ req[c].op = "publish" => mounts[p] = <<"volume">>
        /\ req[c].op = "stage" /\ ~isBlock => mounts[p] = <<"volume">>
        /\ req[c].op \in {"unstage", "unpublish"} => mounts[p] = <<>>
        /\ req[c].op \in {"stage", "expand"} /\ ~isBlock => req[c].size <= fsSize

KnowledgeInv == \A c \in Calls : Active(c) => Knows(c)

\* Data is on a filesystem, and a stage that is about to format a device which
\* its blkid could read has found none; the kubelet has put no pod on it since.
DataInv ==
    /\ data => fs # 0
    /\ \A c \in Calls : pc[c] = "format" /\ c \notin unread \union abandoned => ~data

NodeInv ==
    /\ TypeOK /\ HandlerInv /\ PhaseInv /\ DeviceInv
    /\ OneByOne => MountInv /\ KnowledgeInv

=============================================================================
