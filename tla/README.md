# A TLA+ model of csi-digitalocean

`csi-digitalocean` is a CSI driver: a gRPC server that turns the storage calls
of a container orchestrator (Kubernetes, through the CSI sidecars and the
kubelet) into requests to the DigitalOcean API and into mount commands on a
node.  It keeps no state of its own.  Whatever a handler knows it has read from
the API or from the node a moment ago, one request or command at a time, while
other calls, the API's asynchronous actions, timeouts, retries and restarts go
on.  That is what this project models and checks.

## Inventory

| Part | State | Operations | Correct when |
|---|---|---|---|
| Controller, attach/detach (`driver/controller.go`) | none; the API has volumes, droplets, attachments, one pending action per droplet, tags | `ControllerPublishVolume`, `ControllerUnpublishVolume`, `DeleteVolume`, `tagVolume`, `waitAction` | an OK is true and stays true: a volume is never on two nodes, never re-attached behind the orchestrator's back, never lost |
| Controller, provisioning (`driver/controller.go`) | none; the API has volumes by ID and name, resize actions, snapshots | `CreateVolume`, `DeleteVolume`, `ControllerExpandVolume`, `extractStorage` | one volume per name, no leak, sizes as promised, retries succeed |
| Controller, listing (`driver/paging.go`, `driver/controller.go`) | position in a paged list | `listResources` for `ListVolumes` and `ListSnapshots` | every item once, in order; a deletion costs one item at most |
| Controller, snapshots (`driver/controller.go`) | none; the API has snapshots | `CreateSnapshot`, `DeleteSnapshot`, `ListSnapshots` by ID | one snapshot per name, no leak, retries succeed |
| Controller, validation | none | `ValidateVolumeCapabilities`, `ControllerGetCapabilities` | - |
| Node service (`driver/node.go`) and mounter (`driver/mounter.go`) | none; the node has the device, the filesystem on it and mounts | `NodeStageVolume`, `NodePublishVolume`, `NodeUnpublishVolume`, `NodeUnstageVolume`, `NodeExpandVolume` | pods see the volume, data is never formatted away, the device is released before it is detached |
| Process (`cmd/do-csi-plugin/main.go`, `driver/driver.go`) | `ready` and its mutex, up to five goroutines, two servers, the context of the signal | `main`, `NewDriver`, `Run`, `checkLimit` | a signal ends it, nothing is cut off by a clean exit, options take effect |
| Identity service (`driver/identity.go`), health check (`driver/health.go`) | reads `ready` | `Probe`, `Check` | no "ready" answer once the shutdown has reset it, no health request cut off by a clean exit |

The parts meet in the API and on the node: external-provisioner calls
`CreateVolume`/`DeleteVolume`, external-attacher calls publish and unpublish,
external-resizer calls expand, external-snapshotter creates, lists and deletes
snapshots, and the kubelet calls the node service once the controller's publish
has returned OK.  Each of them repeats a call that failed, after a timeout that
the handler may outlive.  All handlers of a process share its start, its
readiness and its shutdown.  The behaviours that are hard to
test, with the line where each bites, are the `hazards` of `PROJECT.json`.

## Modules

| Module | Models | One step is |
|---|---|---|
| `Attachment` | publish, unpublish and delete handlers and the API, any caller | one API request of a handler, or one event of the API |
| `Attacher` | the same under an orchestrator with one call per volume | the same, or one decision of the orchestrator |
| `AttacherLive` | the same, with a time of faults that ends | the same |
| `VolumeLifecycle` | abstract: what the controller promises of a volume | asking, changing, being told |
| `AttacherProofs`, `AttacherRefinement` | theorems about `Attacher` | |
| `Capacity`, `CapacityProofs` | `extractStorage` as an operator, and theorems about it | |
| `Provisioning` | create, restore, expand, delete and their orchestrator | one API request, or one event of the API |
| `Snapshots` | snapshot create, delete and list by ID, their orchestrator, other users | one API request |
| `PageTokens` | the token arithmetic of `listResources` | |
| `PagingProofs` | theorems about `PageTokens` and `Paging` | |
| `Paging` | `ListVolumes`, `ListSnapshots` and a client that lists everything | one page |
| `NodeService` | the node handlers, the mounter's commands, the kubelet | one command |
| `System` | `NodeService` composed with `VolumeLifecycle` | a step of either, or an attachment with its device |
| `Lifecycle` | the process from `main` to exit, its goroutines, `Probe`, health requests | one step of a goroutine |
| `LifecycleProofs`, `ProvisioningProofs`, `SnapshotsProofs` | theorems about `Lifecycle`, `Provisioning`, `Snapshots` | |
| `SystemProofs` | theorems about `NodeService` and `System` | |
| `MC*` | instances for TLC | |

In every handler model `pc[c]` names the request (or command) the handler of
call `c` sends next, `req[c]` is what it was asked for and `result[c]` the gRPC
code it returned; the other per-call variables are the local variables of the
Go function that later steps use (`seen` is `vol.DropletIDs`, `action` the
polled action, `volID` the created volume, `skip` what is left of
`startingToken`).  A step contains everything the code does from one request up
to the next, including its early returns.  Log output, messages and fields the
properties do not tell apart are left out.

**Attachment.** `PublishGetVolume`, `TagResources`, `CreateTag`,
`RetryTagResources`, `PublishGetDroplet`, `PublishAttach` and `WaitAction` are
`ControllerPublishVolume`; the droplet IDs are tested after up to five more
requests, as in the code.  `AttachCode` and `DetachCode` are the translations of
the API's refusals.  The API (external) allows one pending storage event per
droplet and checks for it before it looks at the attachment, attaches a volume
to one droplet at most, accepts an action at once and completes or fails it
later.  Each request may fail without effect, or succeed with its answer lost.
`Expire` ends the context of a call at any moment, `Restart` ends all handlers,
`DestroyDroplet` removes a node.  `held` is history: whether what the call asks
for has been true at some moment of the call.

**Attacher.** `phase` and `node` are what the orchestrator believes, which only
OK answers it waited for change.  A call whose deadline has passed is not waited
for; its handler and the action it started remain.

**VolumeLifecycle and the refinement.** `VolumeLifecycle` has no calls, requests,
actions, deadlines or retries: an orchestrator asks for something, the volume
changes, the orchestrator is told.  `Attacher` has the same variables `phase`,
`node`, `attached`, `exists` and `live`, so that the refinement mapping is the
identity on them and hides the rest; `ImplementsLifecycle` is the abstract
specification as a property.  A repeated delete is a repeated `AskDelete`.

**AttacherLive.** Faults (failed requests, deadlines, restarts, failed actions,
destroyed droplets) happen until `Settle`; what they left behind stays.

**Provisioning.** IDs are handed out once.  Sizes are bytes in requests and
whole GiB in the API; with `giB = 2` the unit is half a GiB, so that fractions
occur.  A volume restored from a snapshot has the snapshot's size until it is
resized.  Left out: a content source without a snapshot ID (refused with
`InvalidArgument` after the search) and the field `NodeExpansionRequired` of the
answer to an expand; the API does not accept a size of zero GiB.

**Snapshots.** `ListSnapshots` is one turn of the search loop of `CreateSnapshot`;
`page` is `opts.Page`.  The API's list may be in either order, and other users
create and delete snapshots of the volume between two requests.  All snapshots of the
model are of the source volume, which is what the request asks for, so that the
handler's own comparison of `ResourceID` always succeeds.  `GetSnapshot` is the branch
of the RPC `ListSnapshots` that external-snapshotter uses.

**Paging.** Items are numbered by creation.  They are added at the end of the list
and removed anywhere while the client lists, and calls fail and are repeated.
`Filtered` is the loop of `filterSnapshotEntriesForVolumeID`, which sees the entries
after the pages have been cut, so that a filtered response may be short or empty.

**Lifecycle.** `pc` is `main` and `Run`; `serve`, `httpServe`, `httpDown` are the
members of the errgroup, `stopper` is the goroutine that calls `GracefulStop` and
that nobody waits for.  `readyMu` is modelled as a lock with an owner: the stopper
takes it, resets `ready` and lets go of it before `GracefulStop` closes the
listener, and RPCs arrive until then; a `Probe` reads `ready` under it and then
answers.  RPCs other than `Probe` need only to end, and so do the checks of a health
request: whether they succeed is the API's affair.  The flags and whether the process
runs on a droplet are chosen in `Init`.

**NodeService.** One volume on one node (handlers of different volumes share no
path or device).  `mounts[p]` is the stack of mounts at a path; each shows the
volume or, if a bind mount was made of an unmounted staging path, the directory
of the node.  `fs` numbers the filesystems made on the device, so that formatting
over data is visible; `data` is history and says that a pod has used the filesystem,
`unread` are the stages whose `blkid` ran on a device that was not readable yet, which
the kubelet does not wait for.  `mkfs` refuses a mounted device, and when it fails
half-way leaves something that `blkid` may or may not take for a filesystem.  The
kernel refuses to mount a device twice at one path but stacks bind mounts.  An unmount
is the vendored `CleanupMountPoint`: it looks whether the path is a mount point, or
skips that if the mount is corrupted or the mounter allows it, calls `umount`, takes
"not mounted" for success and, unless it has skipped the first look, looks again; the
directory is removed in the end, which fails for a mount point.  `IsAttached` compares
the state file with its newline.  The node handlers do not use their context: after
`GiveUp` they run on.

**System.** The device of `NodeService` comes and goes with the attachment of
`VolumeLifecycle`, which stands for the controller by the refinement above.  The
kubelet stages after the publish was confirmed, and the unpublish is asked for
when the kubelet has let go.  (Kubernetes detaches by force from a node that has
been out of reach for minutes; that is not in the model.)

## Runs

| Run | Instance | Shows |
|---|---|---|
| `attachment_race` | 1 volume, 2 droplets, 2 calls, `--do-tag` | `OKMeansDone`: no unpublish or delete claims a success that was not one, whoever calls; `TaggedBeforePublished`, the inductive invariant `RaceInv` |
| `attacher` | 2 volumes, 2 droplets that take one volume each, 2 calls | `CleanWhenDetached`, `AttachedWhenPublished`, `OneNodeAtATime`, `NoWrongDroplet`, `DeletedMeansGone`, the inductive invariant `Inv`, and the refinement `ImplementsLifecycle` |
| `attacher_live` | 1 volume, 1 droplet, 2 calls, `--do-tag` | `EveryCallReturns`; `VolumeSettles`: after the faults, repetition reaches its goal |
| `provisioning` | 1 name, 2 IDs, 3 calls, ranges that are valid, limited, refused, below the smallest and at and above the largest size, a snapshot smaller than the claim | `OneVolumePerName`, `NothingLeftBehind`, `BoundIsReal`, `CapacityAsRequested`, `RangeHonoured`, `PlainCreateIsIdempotent`, the inductive invariant `Inv` |
| `snapshots` | 1 claim, up to 3 snapshots of others, 2 per page, 2 calls | `ConflictOnlyIfShrunk`, `ReadyIsReal`, `NoSnapshotLeftBehind`, `ReadyIsListed`, `SnapshotSettles`, the inductive invariant `Inv` |
| `paging` | up to 10 items of which 2 are removed, pages of up to 4, `MaxEntries` 0 to 4, tokens that it divides and does not divide | `InOrderOnce`, `LossIsBounded`, the inductive invariant `Inv`; its module also compares the loop of the filter with `SelectSeq` |
| `system` | 2 targets, 2 calls, one of them abandoned, 2 sizes, 1 other node | `InMeansVolume`, `OutMeansReleased`, `InUseMeansAttached`, `LostOnlyUnreadOrAbandoned`, `GrownToDevice`, `UnmountOKMeansUnmounted`, the inductive invariant `SystemInv` |
| `lifecycle` | 2 RPCs, 2 health requests with the one check the driver configures, all flags | `ShutdownCompletes`, `ServeErrorEndsRun`, `CleanExitCutsNothing`, `NoReadyProbeInDrain`, the inductive invariant `Inv` |
| `attachment_wrong_node` | 1 volume, 2 droplets, 2 calls | finding, below |
| `provisioning_fraction`, `provisioning_source` | 1 name, 2 calls | findings |
| `node_early` | stage before the device is readable, with `--validate-attachment` | finding |

Bounds.  Two calls are one that is waited for and one that was given up on, or
two that compete; more calls repeat the same roles.  One volume and two droplets
are the smallest instance in which a volume can be on the wrong one; two volumes
on a droplet make one's pending event meet the other's request and hit the
droplet's limit.  Two IDs let a duplicate exist.  Lists are two to five pages long,
so that there are a first, a middle and a last page and items move between them;
two removals show that losses add up no faster than removals.  `MaxFormats` and
`MaxSize` leave room for one more format or growth than a correct run needs;
`MaxAbandoned` = 1 suffices for two handlers of one path at the same time.  Two
RPCs let one hold `readyMu` while another is in flight; two health requests let one
end while the other is still checking.  `system` is the largest run, with three
million states; `provisioning` has one size to expand to for that reason.
Symmetry sets are interchangeable model values and are used in runs without
liveness only.  Deadlock is checked in every run: a system with nothing left to
do takes the step `Finished` (an ended process the step `Exited`).

Fairness.
* `attacher_live`: a handler that can take a step takes one, answers are taken, the
  orchestrator repeats what it has begun, and deadlines pass: the sidecars give each
  call a deadline (`--timeout` in `deploy/kubernetes`, gRPC passes it on).
  `EveryCallReturns` needs nothing of the API: while faults last an action may never
  end.  `VolumeSettles` assumes that after `Settle` actions complete in time.
* `snapshots`: handlers run, answers are taken, the orchestrator repeats.  Others may
  go on creating and deleting snapshots; there are finitely many, by the bound.
* `lifecycle`: goroutines run, and handlers end (a controller's at its deadline, a
  health check after fifteen seconds, a node's with its command).  The lock is
  strongly fair, as Go's mutex hands over to a waiter that has starved.  Nothing is
  assumed of the API during `checkLimit`, which has no deadline; a process that hangs
  there is the exception that `ShutdownCompletes` states.

Assumption on the API client.  A request takes effect before the client gives up
on it, or never.  A request that is delayed in the network and processed after
the call's deadline could attach a volume later or create a second one of the
same name; nothing in the driver could prevent that, and it is listed as a
hazard without a property.

## Findings

* `attachment_wrong_node`: "This volume is already attached" is answered with OK,
  also if the volume is attached to another droplet since `GetVolume` was called.
  `attacher` and the theorem `NeverWrongDroplet` show that an orchestrator with one
  call per volume, and one node until unpublish succeeded, never sees it.
* `provisioning_fraction`: a repeated `CreateVolume` is refused with `AlreadyExists`
  by the volume its first attempt made when the size is not a whole number of GiB.
  The same comparison refuses the repetition of a restore from a smaller snapshot
  whose resize failed or timed out.  `PlainCreateIsIdempotent` says that it does not
  happen to claims for whole GiB without a snapshot.
* `provisioning_source`: a repeated restore is answered without content source.
* `node_early`: `NewDriver` does not store `--validate-attachment`, so the check
  that is documented to prevent formatting a volume that is not fully attached is
  never made.  (If it were, it would refuse every stage: `IsAttached` compares the
  state file's content, which ends in a newline, with the bare word.)

Observations without a run of their own:

* `extractStorage` returns a required size below the supported minimum unchanged
  when a limit is given, although its comment says that the minimum is returned.
  The theorem `BelowMinimumOnlyWithLimit` says that this is the only such case.  The
  API then refuses the create, as it comes down to zero GiB: `RangeHonoured` says that
  no create answers OK with less than the minimum.
* A token that `MaxEntries` divides leads to the item after the one it names (theorem
  `TokenReachesItem`, for all tokens), although a comment in `listResources` says that
  it is "the index of the first snapshot to return".  With `MaxEntries` 1 that happens
  to the first token the driver gives out: the second item is never returned.  A client
  that starts from the beginning with `MaxEntries` of two or more never holds such a
  token (`TokensStayReachable`).  `LossIsBounded` says that the client misses that one
  item and no more: the tokens that follow are just as far off, not further.
* `MaxEntries` above the API's largest page misplaces tokens.  A token without
  `MaxEntries` is dropped from the first page only: if it lies beyond the API's default
  page size, items that precede it are returned.  `TokensFit` excludes these two cases.
* For a size that is not a whole number of GiB, `CreateVolume` answers with the size
  that was asked for while the volume has the next smaller number of GiB.  So
  `BoundVolumeIsReal` and `CapacityIsDelivered` are proved under `WholeSizes`, which
  says that every range comes down to whole GiB; the other theorems about
  `Provisioning` hold for all ranges.
* `NewDriver` asks the metadata service for the droplet's ID even if `--region` is
  given, so that it fails outside of a droplet, where that flag is meant to be used;
  and it does not store the flag's region.
* When the gRPC server fails in a process with an HTTP server, `Run` goes on until
  a signal arrives (`ServeErrorEndsRun` is about the other case).  A signal that is
  handled before `Serve` is called makes the process exit with an error.
* `ValidateVolumeCapabilities` confirms without looking at what was requested.

## Proofs

`AttacherProofs` proves, for any sets of volumes, droplets and calls and any
limit, that `COSpec` implies `[]Inv` (`InvHolds`) and from it the safety
properties that the run `attacher` checks.  The assumptions are those of `Attachment`: `None`
is not a volume or droplet, the tag option is Boolean, the limit a natural number.

The properties are not inductive by themselves.  `CleanWhenDetached` needs to know
that no unpublish returns OK while an attach of an abandoned publish is pending,
and `AttachedWhenPublished` that what a handler read is still true when it answers.
`Inv` adds: `HandlerInv` (label, request, action and result of a call fit together),
`DisciplineInv` (one awaited call per volume, named by the phase), `ApiInv` (what
may be pending in which phase; an action in progress is its droplet's event) and
`KnowledgeInv`: for a call that is waited for, whatever it has learnt still holds
although abandoned calls and their actions go on.  The key to the last is that one
droplet has one pending event, so an abandoned attach is in the way of the detach
until it has ended, and that an expired context lets no further request through.
There is one lemma per action; `NextInv` combines them.

The first part of `AttacherProofs` is about a caller without any discipline:
`Spec` of `Attachment` implies `[]RaceInv` and from it `OKMeansDone` and
`TaggedBeforePublished`.  Neither is inductive, as a handler collects the reasons for its
answer over several requests.  `ExistenceInv` says that only volumes and droplets that
exist are attached or have an action pending (so that "not found" means detached) and
that an action in progress is its droplet's event (so that a completed one is what the
call asked for); `Honest` says which labels, action statuses and results a call may have
before its goal has been reached.  One lemma, `HonestStep`, shows that a step keeps a
call honest unless it makes up a success (`Justified`); every action is then shown not to.
`PublishOKMeansAttached` is the property this argument fails for: the answer "already
attached" does not say where (run `attachment_wrong_node`).

`AttacherRefinement` proves `RefinesLifecycle`: `COSpec` implies the abstract
specification.  Initial states map to initial states, and under `Inv` (before and
after the step) every action of `Attacher` maps to one of `VolumeLifecycle` or to a
stuttering step; `ConfirmPublish`, `ConfirmUnpublish` and `ConfirmDelete` are where
`KnowledgeInv` is needed, `Take` and `Drop` where `OneNodeAtATime` and `ApiInv` are.

`CapacityProofs` proves about `extractStorage`, for all integers and all constants
allowed by `CapacityAssumption`, that the size it returns honours the range, that it
refuses exactly the ranges that cannot be honoured (and a lone limit above the
maximum), and the statement on the minimum above.

`PagingProofs` proves the two statements on tokens above, for all naturals, and then
both properties of `Paging`, for lists of any length, any page sizes, and any number
of items created and removed between the requests.  `FilterKeeps` says what the loop
of the filter computes; it is an induction over the turns of the loop, done with the
set of the numbers for which the statement holds (`SetInduction`).  `TypeCorrect`
needs no condition.  The others assume `TokensFit` (`MaxEntries` is at most the API's
largest page, and a token without `MaxEntries` lies on the first page), which TLC
evaluates for the listings of `paging`.  Without it the properties fail as described
above.  The invariant behind them is `Inv`:

* `ListInv`: the item at position `k` has a number between `k` and `k + removed`, as
  every removal moves the items behind it by one.  This ties positions, which is what
  tokens and pages are, to items, which is what the properties are about.
* `CallInv`: where the current call stands.  `Start` is the number of items before the
  token, `Passed` the number of items before the next page and those of it that the token
  still cuts off; with `MaxEntries` the difference is what the call has used up of it.
* `ReceivedInv`: what earlier calls returned precedes the list from `Start` on, and what
  this call has collected lies behind that and precedes the list from `Passed` on.
  `InOrderOnce` alone is not inductive, since it says nothing of what is still to come.
* `LostInv`: `Lost` counts the items that the client wants, does not have and will not
  be shown, together with numbers not yet used that will fall into positions already
  passed.  A removal adds one to it at most, and so does a next token that overshoots
  when the one before did not; a creation or a page adds none.  It is stated
  twice, for going on from `Passed` and for starting again at `Start`, since a call that
  fails is repeated from its token.

`LifecycleProofs` proves, for any sets of RPCs, health requests and checks, that
`Spec` implies `[]Inv` and from it `CleanExitCutsNothing` and `NoReadyProbeInDrain`.
`Inv` consists of `StartInv` (nothing runs before `Run` starts it), `DrainInv` (`Serve`
returns nil only after the stopper, which has waited for the RPCs; `Shutdown` returns
nil only when no health request is left) and `MutexInv` (a `Probe` that has read
`ready` still holds `readyMu`, so that the stopper has not reset it; once it has, no
`Probe` finds the plugin ready).  Without `DrainInv` a clean exit says nothing about
the goroutines that are not waited for; without `MutexInv` a `Probe` could have read
`ready` before the reset and answer in the drain.  The actions are grouped by
goroutine: `Main`, `Grpc` and `Http` lemmas.

`ProvisioningProofs` proves, for any finite set of names and any sets of IDs, calls,
snapshots and ranges, that `Spec` implies `[]Inv`, and from it the other six properties
of the run `provisioning`; `RangesAreHonoured` also uses the theorems of
`CapacityProofs` and that the smallest supported size is at most a GiB (in the code it
is one GiB).  The properties say what the orchestrator may believe once a call is
over.  `Inv` says what is true in the middle of one: which label, request and local
variables go together (`Consistent`), that one call per claim is waited for, what
volumes of a name exist in each phase of its claim, and that what a call that is waited
for has read (that there is no volume of the name, or that its ID is the one volume of
the name, or that its resize has been asked for) still holds.  That an abandoned call
sends no further request is what keeps these facts true.

`SnapshotsProofs` proves the same for `Snapshots`, for pages of any size and any
number of snapshots: `Spec` implies `[]Inv` and from it all four safety properties of
the run.  `SearchInv` is the heart of `ConflictOnlyIfShrunk`: as long as nothing was
deleted, the snapshot looked for is not among the first `(page - 1) * PerPage` entries
of the list, whether others' snapshots are added before or behind it; when the last
page has been read there is none.  `Distinct` (no two entries share an ID, or a
claim's name) makes a deletion by ID remove the claim's snapshot and no other;
`IdsSuffice` counts the claims that may still need an ID, so that the bound `MaxId`
never stands in the way of a create.  The lemmas of the first part say what `Add`,
`Drop` and `Page` do to the sequence.

`SystemProofs` proves, for any sets of target paths and calls, that `NodeService`
implies `[]NodeInv` and from it `InMeansVolume`, `OutMeansReleased`, `GrownToDevice` and the
action property `UnmountOKMeansUnmounted`.  `NodeInv` has a
part that always holds (`HandlerInv`, `PhaseInv`, `DeviceInv`: label and request fit, the
calls that are waited for are the ones the phases name, the device is there while the
kubelet deals with the volume) and a part for a kubelet that has given up on no call
(`OneByOne`): `MountInv` (staging and each target have the mounts their phase says, one
at most) and `KnowledgeInv` (what the running handler has found out is still so, which
needs that no other handler runs).  `UnmountOKMeansUnmounted` needs no `OneByOne`: it is
the recheck at the end of the cleanup, and the refusal to remove a mount point, that
make it true.

Data is not safe in this driver: a stage whose `blkid` met a device that was not
readable yet formats it (run `node_early`), and so may a stage the kubelet has given up
on, once its repetition has made and used a filesystem.  `LostOnlyUnreadOrAbandoned` says
that these are the only two ways: with any number of failed commands, restarts,
repetitions and abandoned handlers, a stage that the kubelet waits for and whose `blkid`
could read the device destroys no data of a pod.  `DataLossExplained` proves it without
`OneByOne`.  The invariant is `DataInv`: such a stage, when it is about to format, has
found nothing on the device, and no pod has used it since, as the kubelet publishes only
after that stage has returned.

For the composition the module proves `SystemInvHolds` (`LinkInv`: the device is
attached here from the confirmed publish until the kubelet has let go) and with it
`SystemImplementsNode`: `SystemSpec` implies the specification of `NodeService`.  Every
step of the controller is `Attach`, `Detach` or a stuttering step of the node, and it is
`LinkInv` that shows that a detach happens only when `NodeService` allows it.  So the
node's theorems hold in the system (`SystemKeepsPromises`), and
`NeverDetachedInUse` follows.  As `Attacher` implements `VolumeLifecycle`, which is the
controller of `System`, the argument reaches from the handlers of both plugins to the
container that uses the volume.

Only model-checked: liveness (`EveryCallReturns`, `VolumeSettles`, `SnapshotSettles`,
`ShutdownCompletes`, `ServeErrorEndsRun`), as fairness and `ENABLED` are beyond the proof
system used here.  Every safety property that a passing run checks is also a theorem.

## Not modelled

`ValidateVolumeCapabilities`, the capability and information RPCs, `NodeGetInfo` and
`NodeGetVolumeStats` change nothing and decide nothing.  What a listed entry says of
its volume, malformed tokens, mount options and filesystem types, topology and rate
limiting do not interact with the properties.
`ListSnapshots` with both an ID and a source volume filters its single entry; no
sidecar asks that way.  A node handler that the kubelet gave up on can run `mkfs`
or mount late; the code does nothing against it, and the properties of `NodeService`
about mounts are stated for a kubelet that has given up on no call, except
`UnmountOKMeansUnmounted`.  `NodePublishVolume` does not check that the staging path is
mounted; that the kubelet stages first is part of the model.  Whether a health check
passes, and what the health request answers, is not modelled.  Manifests, tests and
vendored code are outside, except for `CleanupMountPoint` of `mount-utils`; the API, the
kubelet, the sidecars and the commands of the node are modelled from how `src/driver`
uses them.

## Plan

1. `Attachment`, `Attacher`, `AttacherLive` with their proofs, `VolumeLifecycle` and
   its refinement; `Capacity`; `Provisioning`; `Snapshots`; `Paging`; `NodeService` and
   `System`; `Lifecycle`: done.
2. Proofs of every safety property of `Attachment`, `Attacher`, `Provisioning`, `Snapshots`,
   `Paging`, `NodeService`, `System` and `Lifecycle`, and of both refinements: done.
3. Left to TLC: the liveness properties.
