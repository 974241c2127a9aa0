# Verification of the Huawei Cloud CSI drivers

TLA+ models of the CSI drivers in this repository, TLC runs on small instances,
and TLAPS proofs.  Paths below are relative to the root of the repository.

## 1. The system

Four CSI drivers (EVS block volumes, SFS Turbo shares, SFS shares, OBS parallel
file systems), each a controller plugin and a node plugin built from one binary
(`cmd/*/main.go`).  A driver holds almost no state of its own: no database, no
lock, no queue.  The state is in the cloud (volumes, shares, buckets, the jobs
that change them, the attachments) and in the node's kernel (mounts, devices).
Every handler reads the cloud, decides, and sends a request or two, while other
handlers do the same.  So the questions worth asking are about interleavings,
answers that never arrive, and operations that outlive the call that asked for them.

| component | state | operations | what is hard | what makes it correct |
|---|---|---|---|---|
| EVS controller, attach (`pkg/evs/controllerserver.go:260-420`, `services/computes.go`) | volume status, attachment list, attach and detach jobs (cloud) | ControllerPublishVolume, ControllerUnpublishVolume | two calls for one volume; a job that outlasts its wait; a decision on a stale reading; a lost answer | a success answer was true during the call; what was unpublished stays so; retries end well |
| EVS controller, provisioning (`controllerserver.go:32-247, 666-712`, `services/volumes.go`) | volumes by ID, name, status, size (cloud) | CreateVolume, DeleteVolume, ControllerExpandVolume | names are not unique: list, then create; asynchronous deletion; volumes below 10 GiB take another path | one volume for a name; the size asked for; a volume that can be used |
| EVS controller, snapshots (`:472-616`, `services/snapshots.go`) | snapshots (cloud) | CreateSnapshot, DeleteSnapshot | the same race; ReadyToUse is always true | one snapshot for a name; ready when it says so |
| EVS node server (`nodeserver.go`) | mounts and devices of the node | stage, unstage, publish, unpublish, expand | check, then mount; calls the CO gave up on run on | a pod sees its volume, keeps its data, and nothing is mounted when the volume leaves |
| ephemeral volumes (`nodeserver.go:285-322, 462-580`) | volumes related to a pod by their name only | publish (create, attach, mount), unpublish (unmount, detach, delete) | a failure in the middle; several volumes of the name | an answer OK was true |
| SFS Turbo (`pkg/sfsturbo`) | shares, their sub-status (cloud), mounts | create, delete and expand (all wait), publish, unpublish | name race; the sub-status of an earlier extension | as for EVS |
| SFS (`pkg/sfs`) | shares, access rules, mounts | create and grant, delete, publish, unpublish | the rule is granted again on each retry; one look at a new share | access was granted when the answer says so |
| OBS controller (`pkg/obs/controllerserver.go`, `services`) | buckets, objects, uploads, quotas | create and set quota, clean and delete, get, expand | partial failure; objects written while the bucket is cleaned | a capacity answered is kept; deleted means gone |
| OBS node server, connector (`pkg/obs/nodeserver.go`, `mount.go`, `cluster/images/obs-csi-plugin`) | credential files, mounts, commands under way | a mount command over a socket, unpublish | two processes delete one file; either process dies | no file outlives its use; mounts do not pile up |
| listings (all controllers) | nothing: pages of the cloud's list | ListVolumes, ListSnapshots | objects come and go between two pages | nothing that was there throughout is missed |
| node metadata (`pkg/utils/metadatas`) | a cache of the process, without a lock | NodeGetInfo | two readings of the cache in one call | ID and zone from one source |
| mount helpers (`pkg/utils/mounts`, mount-utils) | the kernel's mounts | check, mount, unmount and remove | the check does not see every mount | a path is removed only when nothing is mounted |

The container orchestrator (CO: Kubernetes with its sidecars) calls the drivers
over gRPC, one goroutine per request (`pkg/evs/server.go:53-91`).  The handlers
ignore the request's context: a call the CO gave up on runs on, beside its
retry.  Handlers meet only in the cloud and in the node's kernel.  A wait is
`common.WaitForCompleted` (`pkg/common/common.go:26-33`): 30 polls at most, the
last failing one ends it with an error.  `PROJECT.json` lists under "hazards"
each place where this can go wrong and the property that watches it.

## 2. The models

### EvsAttach

One volume, `Servers`, and `Calls`, the slots in which calls run side by side.

- *The call.*  `pc[c]` names the next request of the call.  Each request to the
  cloud, with all that the handler does before the next, is one action:

  | action | code |
  |---|---|
  | GetServer, GetVolume, Attach, WaitAttached, WaitAttaching, GetDevice | ControllerPublishVolume: publishValidation, the first GetVolume and the switch on volumeAttachmentStatus, block_devices.Attach, the poll of its job, the poll of the volume's status, the second GetVolume |
  | UnpublishGetVolume, UnpublishGetServer, Detach, WaitDetached | ControllerUnpublishVolume: the two requests of unpublishValidation and the skip, block_devices.Detach, the poll of its job, and Ecs.0111 in the error of either: the handler looks for it in the text, which may be that of a failed job |

  `attachmentStatus` is the local variable of the handler, `seen` the volume as
  last read, `polls` the polls of the current wait, `job` the job it polls.
- *The cloud* is external and modelled as far as the handlers depend on it: it
  accepts an attach only of an available volume (volumes are made not shareable:
  the driver only knows SINGLE_NODE_WRITER, `driver.go:67-69`) and a detach only
  of an in-use volume from a server that has it; it runs one operation at a
  time and finishes it whether or not anybody waits.  The attachment may be
  listed before the attach ends (`ListAttachment`): the handler's case
  VolumeAttachingCurrentServer depends on it.
- *Faults* is the set of what may go wrong: a request answered with an error, an
  answer lost after the request was carried out, an operation that outlasts the
  polls, one that fails, a crash of the driver, the deletion of an ECS instance.
- *History.*  `witness[c]` collects what was true of the volume during the call;
  `released` are the servers the CO was told are unpublished and has not asked
  for since.  They are written by `History` and read by no action of the code.

### EvsProvision

The volumes of one name.  `VolumeIds` are the IDs the cloud may give out, which
is also its quota; `status`, `size`, `goal` are what it knows of each.  The
actions CheckVolumeExists, CheckSnapshotExists, Create, WaitCreated, WaitCinder,
GetCreated are the requests of CreateVolume, in the code's order: a size below
`CinderLimit` takes the Cinder path, which has no job.  Delete is DeleteVolume,
which does not wait.  ExpandGetVolume, Expand, WaitExpanded are
ControllerExpandVolume.  Sizes are in GiB after rounding up.  "in-use" and
"available" are one status here, the handlers of this module treating them
alike.  The fault "lag" lets a volume created by a job appear in listings
later than its job was accepted.  Volume type, zone, IOPS, metadata,
encryption and the response's topology are left out: they do not change which
requests are made, except that a malformed number ends the call before Create,
which is among the errors of CheckSnapshotExists.

### CsiCall and EvsSnapshot

`CsiCall` holds what the other modules' handlers have in common: a call as a process (`pc`, `polls`, `reply`), its entry and return, the bounded
wait, and a crash of the driver.  `EvsSnapshot` models the snapshots of one name
on it; the name may be asked for of several `Volumes`.

| action | code |
|---|---|
| CheckDuplicateSnapshotName, GetVolume, CreateSnapshot, WaitSnapshotReady | the requests of CreateSnapshot, in order: list by name, read the volume, create, poll the status (only "creating" lets the wait go on) |
| DeleteSnapshot | DeleteSnapshot, which does not wait; not found is success |

A snapshot found by name is answered with ReadyToUse whatever its status
(`buildSnapshotResponse`), and the model does the same: that is why
OwnSnapshotWasReady speaks of the snapshots a call made itself.  In the cloud a
volume can be deleted once it has no snapshots (`VolumeGone`), between the
handler's reading of it and its request.

### NodeMounts, EvsNode and NodeLifeCycle

`NodeMounts` is the kernel as the node servers use it: the paths that exist and a
stack of mounts for each, with the mount library's UnmountPath as three steps
(Cleanup, Umount, RemovePath) taken from `mount_helper_common.go`, in both its
variants: `umountKind` says whether this node's umount tells an unmounted path
apart.  A path that is missing by now is an error of every umount, and a removal may
fail for reasons of its own (a directory that is not empty).  `LikelyMounted` keeps the blind spot of IsLikelyNotMountPoint: a bind
mount of a directory of the same disk is not seen.

`EvsNode` is one volume on one node.  Each handler (NodeStageVolume,
NodeUnstageVolume, NodePublishVolume, NodePublishVolumeForBlock,
NodeUnpublishVolume, NodeExpandVolume) is a disjunction of its steps, a step being
one request to the cloud, one shell command or one look at the kernel.  A mount
with options is two commands (Bind, Remount), formatting reads the disk before it
formats (Format, Mkfs).  After a failed mount of a raw device the target is
removed (`DropTarget`), also when only the second command failed.  `mode` is "fs", "clone" (made from a snapshot or volume:
it has data and may have to be enlarged) or "block".

The CO is part of the model, because what the handlers may rely on is the order
of its requests: it stages before it publishes, has the volume detached only when
told that it is unused, and sends one request at a time for one volume.  But it
stops waiting (`GiveUp`), and the handler does not: it ignores its context.
`told` is what the CO knows of each path, `watched` the call it waits for.  A call
still running when the CO changes its mind is in `stray`; once such a call changes
something, `strayed` is set.  The code has nothing against that (no lock, no
deadline), so the properties about mounts are stated for the behaviours until
then; until then the given-up calls of the same direction do interleave.

`NodeLifeCycle` is the abstract specification: attach, stage, publish, unpublish,
unstage, detach, reboot, four Booleans.  `FollowsLifeCycle` is its specification
under the mapping staged = the staging path shows the volume, published = the target
does, broken = strayed.

### EvsEphemeral

The ephemeral volumes of one name: publish creates, attaches, formats and mounts;
unpublish looks the CO's ID up (`known`: the cloud has a volume of that very ID),
then the name, unmounts, detaches, deletes.  Creation, attach and detach are waited for by
polling the job (`job`), whatever the volume's status says; an attachment may be
listed before its attach ends.  The validation shared with ordinary
volumes demands that the ID exist, and unpublish takes such an ID for an
ordinary volume, so the cleaning only happens if that volume vanished in between
(`KnownGone`): the model has it as the code does.  Duplicates of the name, volumes
left behind and retries that can never succeed are all in the behaviours; the
property says what an OK means.

### NodeMetadata

NodeGetInfo as two calls of Get, each a look at the cache, the sources in the
configured order, a store and a read of the variable.  `cache` holds the source of
its contents: two sources may name different zones.

### RemoteMount and ObsMount

`RemoteMount` has the publish and unpublish calls of SFS Turbo, SFS and OBS, any
number at a time for one target: SFS Turbo and SFS look into the table of
mounts and mount an NFS export, OBS asks the mount library and has its connector
mount.  SFS removes the target after a failed mount, and unmounts with a single
command; the others use UnmountPath.  `ObsMount` adds the credential file, the
command (posted, mounting, done, refused, broken) and the connector.
`StopConnector` is what `entrypoint.sh` does whenever the driver's container
starts: the connector's service is stopped, and with the default KillMode
systemd stops the obsfs processes as well, which leaves dead mounts ("dead").
The client that posts the command has no time-out, as in `mount.go`.

### FileShare, SfsTurbo and Sfs

`FileShare` holds the shares of one name as the cloud keeps them, and what both
drivers do alike: the look for the name, the creation, the bounded wait.  The
cloud makes, deletes and extends shares in its own time.  Until an extension
starts, the sub-status is that of the extension before (`ExtensionStarts`), which
is what WaitForShareExpanded may read.  `SfsTurbo` has the three operations with
their waits, and the rounding of sizes (at least 500 GiB, steps of at least 100);
`Sfs` the create call that looks at the new share once and grants access, also to
a share that it found.  Whether the cloud accepts a rule that exists is
unknown from the code: `regrant` takes both values.  `req[c].bytes` is the
capacity the handler is about to answer.  `Shares` puts the two drivers side by side,
a behaviour belonging to one of them, so that what both promise is checked and
proved once.

### ObsBucket

One bucket, its quota, objects and uploads, with pods that write while it is
cleaned.  A name is an ID here, so there is no race of names: CreateVolume fails
on a conflict.  The pages of a list have `PageSize` entries; uploads are listed
once, objects until none is left.  SetQuota sets what the call asks for, whatever
the quota has become since it was read: `behind` are the calls whose reading another
call has made out of date meanwhile, `outrun` says that such a call has changed the
quota of this bucket.  Both are history, as `promised`, the largest capacity answered
of the bucket as it is.

### Listings

The walk of a CO through the pages of a listing while objects appear and vanish:
after a marker (EVS ListVolumes, OBS ListVolumes) or after a number of entries
(EVS ListSnapshots, SFS Turbo ListVolumes).  OBS reads each bucket of its page in
requests of their own and fails the page when one is gone; when the marker is gone
its driver panics, here a walk that fails.

### Instances

`MCEvsAttach`, `MCEvsProvision` and `MCEvsSnapshot` hold the instances of the EVS
controller.  `MCNodes` (the EVS volume, ephemeral volumes, node metadata, the targets of
shares and buckets) and `MCStores` (shares, buckets,
listings) hold several components at once, of which
each behaviour runs one (`part`, or `server`, `driver`, `listing`), the others keeping
their initial state.  The operators named `Faulty...` are single mistakes one could
make in the definition that follows them; no specification uses them.

## 3. The runs

| run | instance | shows |
|---|---|---|
| EvsAttachSafe | 2 servers, 2 calls, every request, every fault, 2 polls | TypeOK; CallsKnowTheVolume, the inductive invariant; PublishedWasAttached; UnpublishedWasDetached; ReleasedStaysDetached |
| EvsAttachLive | 1 server, 2 calls, slow, lossy and failing cloud | CallsReturn; RetriesSucceed |
| EvsAttachLateAttach | 1 server, 1 call, time-outs | violated: UnpublishLeavesNoAttach |
| EvsAttachForeign | 2 servers, 2 calls, publish requests only, failing jobs | violated: PublishSuccessNamesServer |
| EvsProvisionSafe | 2 IDs, 2 calls, sizes 8 and 10, every fault but lag | TypeOK; CreateIsHonest; DeleteIsHonest; ExpandIsHonest; DuplicatesBounded |
| EvsProvisionLive | 2 IDs, 1 call, 30 polls, slow, lossy and lagging cloud | CallsReturn; RetriesConverge |
| EvsProvisionDuplicate | 2 IDs, 2 calls, no fault | violated: OneVolumePerName |
| EvsSnapshotSafe | 2 IDs, 2 volumes, 2 calls, every fault, 2 polls | TypeOK; CreateNamesItsVolume; OwnSnapshotWasReady; DeleteIsHonest; DuplicatesBounded |
| EvsProvisionUseless | 1 call, failing jobs | violated: NoUselessVolume |
| NodesSafe | parts volume, ephemeral, metadata, remote; 2 calls, 2 volume IDs, 2 files, 2 polls, every fault | NodeAnswersAreHonest; PublishedIsVolume; NothingMountedWhenDetached; StacksBounded; ExpandReachesFilesystem; DataSurvives; FollowsLifeCycle; EphemeralUnpublishIsHonest; NodeInfoIsWhole; RemoteAnswersAreHonest; CredentialsRemoved; RemoteStacksBounded |
| StoresSafe | parts shares, buckets, listings; 2 calls, 2 shares, 2 uploads, 1 object, 4 listed objects, 2 polls, every fault | ShareTypeOK; CreateNamesAShare; DeleteFinishes; ExpandReachesSize; SharesBounded; BucketAnswersAreHonest; QuotaKept; WalkMissesNothing |
| TurboCapacity | the instance of StoresSafe | violated: ExpandAnswersBytes |

What the violated ones tell:

- *UnpublishLeavesNoAttach.*  A publish call runs out of polls while its attach
  goes on.  The unpublish call that follows reads a volume that is attaching
  with an empty attachment list, and skips it with success
  (`controllerserver.go:381`).  The attach ends: the volume is in-use on a node
  the CO was told it is unpublished from, and cannot be attached elsewhere.
- *PublishSuccessNamesServer.*  A publish call that finds the volume attaching to
  its own server waits for the status in-use, not for its server
  (`services/computes.go:75`).  If that attach fails and another server gets the
  volume during the wait, the call answers success with an empty DevicePath.  In the
  run nobody asks for an unpublish, so nothing but that can lead there: one call's
  attach to s1 fails after its attachment was listed, that call slot publishes to s2,
  and the call that waited for s1 meets the volume in-use.
- *OneVolumePerName.*  List, then create, without a lock (`controllerserver.go:61`).
- *NoUselessVolume.*  The list by name does not look at the status
  (`services/volumes.go:111`): the retry of a create call that failed because
  the volume went to error answers success with that volume.

- *ExpandAnswersBytes.*  ControllerExpandVolume of SFS Turbo answers the new size
  in GiB (`pkg/sfsturbo/controllerserver.go:409`) in a field of bytes; twenty lines
  above, the answer for a share that needs nothing multiplies.

Seen while modelling, and not made into runs: ListVolumes of OBS with max_entries 0
(no limit, for the CSI specification) lists nothing, and that of SFS Turbo refuses it.

Bounds.  Two calls are what the properties are about: a call and its retry, or a
call for each of two nodes; the theorems hold for any number.  Two polls tell a
wait that goes on from one that ends; EvsProvisionLive keeps the 30 of the code,
so that the wait that ends is seen after all of them.  Two sizes stand on either
side of the Cinder limit, and one can be expanded to the other.  With two IDs
the quota is met, two volumes let calls want one name for different sources, and the state in which a third volume is about to be made is
still reached: DuplicatesBounded counts the calls about to create.  Symmetry is
used only where no liveness property is checked and the sets are not ordered.
The specifications never stop: the CO can always make another request, so
deadlock is checked in every run. NodeInit and the
other initial states hold the kinds of node, volume and driver, so that one run
covers them all.

On the node, `MaxMounts` = 2 bounds the mounts a CO that publishes again may stack
on a raw device; filesystems need no such bound (StacksBounded).  Two credential
files are as many as two calls need.  In StoresSafe the sizes 10, 550 and 610 GiB
with the code's limits of 500 and 100 and a largest size of 640 reach every branch:
rounding up to the smallest share, an extension by more than a step, one rounded up
to a step, and one a step would take beyond the largest; `GbByteSize` is 2, enough
to tell GiB from bytes.  A page of one entry lets two uploads exceed a page;
listings of up to 4 objects in pages of 1 to 3 have a full, a partial and an
empty last page.

History variables restrict some properties to where the code keeps them:
`strayed` (above), `alone` (NodeInfoIsWhole: no other call is fetching), `spoiled`
(CredentialsRemoved: no file was left by a driver that died or could not write it),
`outrun` (QuotaKept: no call has set the quota on a stale reading), `shrunk` (WalkMissesNothing by
offset: nothing went away).  In each case the hazard of the same name in
`PROJECT.json` says what the code does beyond.

Fairness.  `LiveSpec` asks only that a handler whose next step is possible takes
it: the Go scheduler runs every goroutine and every request has a client-side
end.  Nothing is asked of the cloud there, so CallsReturn rests on the limit of
polls alone.  RetriesSucceed and RetriesConverge say what follows *if* the CO
keeps trying (its sidecars retry with back-off for ever) and the cloud's
operations end; in EvsAttach moreover that an attach tried again and again does
not always fail, strong fairness because a failing attempt disables it in
between.  RetriesConverge also supposes that the cloud lists what it accepted.

## 4. The proofs

`EvsAttachProofs`, `EvsProvisionProofs`, `EvsSnapshotProofs`, `ShareProofs` (SfsTurbo, Sfs),
`ObsBucketProofs`, `EvsNodeProofs` (EvsNode, NodeMetadata), `TargetProofs` (RemoteMount,
ObsMount, EvsEphemeral) and `ListingsProofs`; their theorems hold for every value
of the constants that satisfies the assumptions named in the modules: any
servers, IDs, sizes, poll limit, page size and set of faults, and any finite number
of calls (that the calls and the IDs of one name are finitely many is what lets them be counted).
Every safety invariant and action property that a passing run checks is stated by a theorem.

- *EvsAttach.*  `TypeCorrect`; then `CallsAreRight`, the inductive invariant
  CallsKnowTheVolume.  PublishedWasAttached alone is not inductive: a wait that
  is about to succeed must already know that its job's success was an
  attachment to its own server.  Hence the three parts.  StatusFollowsOperation ties the
  volume's status to the cloud's operation; JobIsOwn says that a polled job is
  the operation in progress, that it is the call's own, and that no two calls
  poll it; Knows(c) says what each point of each handler may conclude.  A step of one
  call leaves the others' fields alone (`HandlerStep`, `UnmovedKnows`), so each
  action is treated once for the call that takes it.  `PublishIsHonest`,
  `UnpublishIsHonest` and `JobsAreOwn` follow.
  `ReleaseIsFinal` proves ReleasedStaysDetached from it and ReleasedForGood:
  a server nobody asks for and nothing attaches to cannot come back into the
  list (`QuietStaysDetached`), and an unpublish call nothing disturbed knows
  this of its own server.
- *EvsProvision.*  `TypeCorrect`.  `RaceIsBounded`: without lag, volumes plus
  calls about to create never exceed the number of calls; a call commits itself only
  when it saw no volume, so the count can only grow while every volume is still
  to be made by a call in progress.  `SerialIsIdempotent`: with one call at a
  time that is OneVolumePerName, the property two concurrent calls violate.
  `CreationIsHonest`, `DeletionIsHonest` and `ExpansionIsHonest` rest on Knows(c),
  what each request of a call may conclude.  None of the three is inductive: an
  expand call that is told its job succeeded must know that the job was its own
  extension, so Knows says that while such a job runs the volume is being
  extended to the size this call asked for.  `UnmovedKnows` says that no step of
  another call, or of the cloud, takes that knowledge away.
- *EvsSnapshot.*  The same two arguments: Knows(c) gives `CreateIsHonest`,
  `ReadyIsHonest`, `DeletionIsHonest`; the count of snapshots and committed calls
  gives `RaceIsBounded`, here without any assumption on the faults.

- *EvsNode.*  `TypeCorrect`, `PodSeesVolume` and `DetachedIsUnused` from one inductive
  invariant, NodeInv.  PublishedIsVolume says nothing of the calls that are about to mount
  or unmount, so two parts are added.  Discipline is the order of the CO's requests: a call
  it has not turned its back on is of the current direction, and of a kind that
  fits what the CO knows of the paths.  Truthful says that what the CO knows is what is mounted, nothing
  but the volume being mounted, and that a stage call that will format or resize
  meets what it takes for granted.  A step of a call the CO turned its back on sets
  `strayed` if it changes a mount or the data, and so keeps Truthful trivially
  (`StrayKeepsTruth`); the step of another is checked against Discipline
  (`CurrentKeepsTold`, `CurrentKeepsStages`).
  `StacksStayBounded` counts mounts and calls about to bind: a call begins to bind only when it
  finds nothing mounted, and NodeInv says that the check is right, since a mount there is the volume.
  `NodeAnswersHonest` and `ExpandReachesPod` add Honest(c): what a call has witnessed by
  the time it resizes.  `PodKeepsData` is an action property: the only step that writes
  a filesystem is Mkfs, and Truthful says that a current stage call which is there
  while the data is written finds the volume mounted, on which mkfs fails.
  `ImplementsLifeCycle` is the refinement of NodeLifeCycle, the initial states and then step by
  step: attach, detach and reboot map to themselves, a mount or an unmount of
  one of the paths to Stage, Publish, Unpublish or Unstage or, when another mount lies beneath it, to
  a stutter, everything else to a stutter; a step that sets `strayed` maps to the step that breaks.
- *Targets of shares and buckets.*  RemoteBase: types, the steps a call may be at, that
  a call has a credential file exactly while its command is under way, that what is mounted has its path, and that
  shares never lie upon each other.  `RemoteAnswersHonest` adds Frank(c): whoever waits
  for a command that is done has seen the mount, for the connector answers after it.
  `NoCredentialStays`: every file belongs to a call, whichever process deletes it, until one is spoiled.
  RemoteStacksBounded is not inductive: it counts the commands of all files, and a call gives way
  to its command.  `RemoteStacksStayBounded` proves StacksCounted, which adds that while the driver
  runs every command the connector has not answered has its call waiting, so that mounts,
  calls before the command and commands are together no more than the calls; after a
  death of the driver there are no calls to add, and the commands that remain are counted already.
- *EvsEphemeral.*  `EphemeralIsHonest` from EphemeralGood: a call goes on to detach and
  delete only when the target was seen unmounted and it has a volume, so its answer needs only the last request.
- *NodeMetadata.*  `NodeInfo`: NodeInfoIsWhole alone is not inductive, because a call
  between its two readings must know that the cache still holds what it took its
  ID from; so KnowsCache(c) says that a call that took its ID alone finds the cache as it
  left it and nobody fetching, which no step of another call takes away
  (`UnmovedKnows`), since a filled cache is not fetched again.
- *SfsTurbo and Sfs*, together in `ShareProofs`.  `TypeCorrect`, then Knows(c) again, for
  `CreationIsHonest`, `DeletionIsHonest`, `ExpansionIsHonest`: a share a call has the ID of is
  one that was made, a call about to create has made none yet, and the size an
  extension is asked for, rounded up or not, is never below the size the CO asked
  for.  That last part is why ExpandReachesSize holds although the wait may read the
  sub-status of an earlier extension: the handler looks at the size once more
  (CheckSize).  `RaceIsBounded` counts shares and calls about to make one, as in EvsSnapshot.
- *ObsBucket*.  `AnswersAreHonest` from Knows(c), which adds that no call gets past its
  first request on a bucket that is not a parallel file system, and that a call that
  made the bucket has set its quota by the time it answers.  `QuotaIsKept` needs PromiseKept:
  a call that is not behind is about to set no less than the quota there is, or to
  answer no more than it, and what was promised lies below the quota until it is
  outrun.  So the race at `controllerserver.go:278` is the only way for a capacity
  answered to be taken back, for any number of calls side by side.
- *Listings.*  `WalkIsComplete`.  WalkMissesNothing says nothing of a walk that goes on.  WalkInv
  says for pages by marker that wherever the last entry taken still is in the list, all
  before it that was there throughout is taken and nothing after it is (SplitAtMarker), which
  insertions and deletions anywhere keep; when that entry is gone the
  page by marker is where EVS refuses and OBS panics, so that the walk fails.  For counted pages it
  says that every steadfast object among the places counted is listed.  The
  lemmas before it are about the places of a sequence that is cut, joined, or loses or gains an entry.

The strengthened invariants live in the proof modules; TLC checked those of EvsProvision, EvsSnapshot,
EvsNode, EvsEphemeral, RemoteMount with ObsMount (with three calls) and Listings on instances as large as
those of the runs or larger before they were proved.  The types of EvsNode, RemoteMount and ObsMount are
theorems only (`TypeCorrect`, `RemoteTypeCorrect`): in NodesSafe the parts share `pc` and the mounts.

Only model-checked are the liveness properties CallsReturn (of both EVS modules), RetriesSucceed
and RetriesConverge: ENABLED and fairness are beyond the prover.  RaceIsBounded of EvsProvision
supposes a cloud that does not lag, as the run does.

## 5. Not modelled, and the plan

Left out, with the reason:

- NodeGetVolumeStats, GetDeviceStats and the block device ioctls: they only read.
- The contents of a list entry (published nodes, sizes), zones, types, metadata,
  ACLs, tags: data no decision of a handler depends on.
- `isMounted` of SFS and SFS Turbo answers "not mounted" when its shell command
  fails; that failure is left out.
- RoundUpSize and the limit of a capacity range: sizes enter the models rounded.
- Configuration, HTTP clients, logging, identity services, main programs: no state
  that changes.
- Liveness of the node servers, SFS, SFS Turbo and OBS: their waits are the same
  WaitForCompleted whose end EvsAttachLive and EvsProvisionLive check, except the OBS
  client that waits for its connector without an end, where no call need return.

Next: the composition of EvsProvision and EvsAttach, a volume deleted or expanded while it is
attached, and of EvsNode with the cloud's side of the volume, so that unstage and
expand meet one that is gone (`nodeserver.go:189`); an upper bound for the ephemeral volumes
that failed calls leave behind, if the CO's side is given one.
