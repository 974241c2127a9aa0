------------------------------- MODULE EvsNode -------------------------------
(***************************************************************************)
(* The EVS node server (pkg/evs/nodeserver.go): one volume on one node,    *)
(* from the moment it is attached, with the CO that has it staged and      *)
(* published and turned back.  The CO sends one request at a time, but it  *)
(* gives up on a call that takes too long and sends the next one: the call *)
(* it gave up on runs on, the handlers being without a lock or a deadline. *)
(***************************************************************************)
EXTENDS NodeMounts, FiniteSets

CONSTANTS
  MaxMounts, \* the CO publishes again below this number of mounts at its target
  NoCall     \* no call

ASSUME MaxMountsAssumption == MaxMounts \in Nat /\ NoCall \notin Calls

VARIABLES
  mode,    \* "fs", "clone" (made from a snapshot: has data, may be too small) or "block"
  data,    \* what is on the volume
  fits,    \* the filesystem is as large as the volume
  device,  \* the volume's device on this node
  rpc,     \* rpc[c]: the kind of call c
  told,    \* told[p]: what the CO knows of p: is the volume there?
  phase,   \* whether the CO wants the volume "up" or "down"
  watched, \* the call the CO is waiting for
  stray,   \* history: calls still running since the CO changed its mind
  strayed, \* history: such a call changed something
  witness  \* history: what was true of the path of the call during the call

disk == <<data, fits, device>>
co == <<told, phase, watched>>
call == <<pc, polls, reply>>
nodeVars == <<paths, mounts, umountKind, mode, data, fits, device, rpc, told, phase,
              watched, stray, strayed, witness, pc, polls, reply>>

Step == {"GetVolume", "FindDevice", "CheckMount", "Format", "Mkfs", "MountDevice",
         "ResizeStaged", "Bind", "Remount", "MakeFile", "BindDevice", "FindMountFs",
         "ResizeMounted", "ResizeOther", "Cleanup", "Umount", "RemovePath"}

PathOf(c) == IF rpc[c] \in {"stage", "unstage"} THEN "staging" ELSE "target"

NodeInit ==
  /\ mode \in {"fs", "clone", "block"}
  /\ data = (IF mode = "clone" THEN "written" ELSE "blank")
  /\ fits = (mode # "clone")
  /\ device = "away"
  /\ NoMounts
  /\ told = [p \in Path |-> "no"] /\ phase = "up" /\ watched = NoCall
  /\ stray = {} /\ strayed = FALSE
  /\ rpc = [c \in Calls |-> "none"]
  /\ witness = [c \in Calls |-> {}]
  /\ NoCalls

----------------------------------------------------------------------------
(* The CO.                                                                 *)

\* A request of kind k; the CO makes the staging path itself.
Begin(c, k) ==
  /\ watched = NoCall
  /\ Enter(c, "GetVolume")
  /\ rpc' = [rpc EXCEPT ![c] = k]
  /\ watched' = c
  /\ paths' = IF k = "stage" THEN paths \cup {"staging"} ELSE paths
  /\ UNCHANGED <<mounts, umountKind, mode, disk, phase>>

Doubt(p) == told' = [told EXCEPT ![p] = "maybe"]

BeginStage(c) ==
  /\ phase = "up" /\ device # "away" /\ told["staging"] # "yes"
  /\ Begin(c, "stage") /\ Doubt("staging")

BeginPublish(c) ==
  /\ phase = "up" /\ told["staging"] = "yes" /\ told["target"] # "yes"
  /\ Len(mounts["target"]) < MaxMounts
  /\ Begin(c, "publish") /\ Doubt("target")

BeginUnpublish(c) ==
  /\ phase = "down" /\ told["target"] # "no"
  /\ Begin(c, "unpublish") /\ Doubt("target")

BeginUnstage(c) ==
  /\ phase = "down" /\ told["target"] = "no" /\ told["staging"] # "no"
  /\ Begin(c, "unstage") /\ Doubt("staging")

BeginExpand(c) ==
  /\ phase = "up" /\ told["target"] = "yes"
  /\ Begin(c, "expand") /\ UNCHANGED told

\* The CO stops waiting; the call does not stop.
GiveUp ==
  /\ "timeout" \in Faults /\ watched # NoCall
  /\ watched' = NoCall
  /\ UNCHANGED <<kernel, mode, disk, rpc, told, phase, call>>

\* The pod goes, or the CO has the volume back.
Turn ==
  /\ watched = NoCall /\ device # "away"
  /\ phase = "down" => \A p \in Path : told[p] = "no"
  /\ phase' = IF phase = "up" THEN "down" ELSE "up"
  /\ UNCHANGED <<kernel, mode, disk, rpc, told, watched, call>>

Attach ==
  /\ device = "away" /\ device' = "coming"
  /\ phase' = "up"
  /\ UNCHANGED <<kernel, mode, data, fits, rpc, told, watched, call>>

DeviceAppears ==
  /\ device = "coming" /\ device' = "here"
  /\ UNCHANGED <<kernel, mode, data, fits, rpc, co, call>>

\* The CO has a volume detached only when it was told that it is unused.
Detach ==
  /\ phase = "down" /\ watched = NoCall /\ device # "away"
  /\ \A p \in Path : told[p] = "no"
  /\ device' = "away"
  /\ UNCHANGED <<kernel, mode, data, fits, rpc, co, call>>

GrowDevice ==
  /\ data # "blank" /\ fits /\ mode # "block"
  /\ fits' = FALSE
  /\ UNCHANGED <<kernel, mode, data, device, rpc, co, call>>

PodWrites ==
  /\ told["target"] = "yes" /\ Shows("target") = "volume" /\ data # "written"
  /\ data' = "written"
  /\ UNCHANGED <<kernel, mode, fits, device, rpc, co, call>>

\* The driver dies; with the node, its mounts go as well.
Down(m) ==
  /\ "crash" \in Faults
  /\ mounts' = m
  /\ pc' = [c \in Calls |-> "idle"]
  /\ reply' = [c \in Calls |-> IF InProgress(c) THEN "ERR" ELSE reply[c]]
  /\ watched' = NoCall
  /\ UNCHANGED <<paths, umountKind, mode, disk, rpc, phase, polls>>

Crash == (\E c \in Calls : InProgress(c)) /\ Down(mounts) /\ UNCHANGED told

Reboot ==
  /\ Down([p \in Path |-> <<>>])
  /\ told' = [p \in Path |-> IF told[p] = "no" THEN "no" ELSE "maybe"]

----------------------------------------------------------------------------
(* Steps of a call.                                                        *)

\* Every handler asks the cloud for the volume before anything else.
GetVolume(c) ==
  /\ pc[c] = "GetVolume"
  /\ \/ Goto(c, CASE rpc[c] \in {"unstage", "unpublish"} -> "Cleanup"
                  [] rpc[c] = "expand" -> "FindMountFs"
                  [] rpc[c] = "publish" /\ mode # "block" -> "CheckMount"
                  [] OTHER -> "FindDevice")
     \/ "api" \in Faults /\ Return(c, "ERR")
  /\ UNCHANGED <<kernel, disk, polls>>

\* Only a raw device is left unmounted by a stage call.
FaultySkipsAnyMode == TRUE
NothingToStage == mode = "block"

DeviceFound == device = "here"

\* getDevicePath scans for the device until it appears or the attempts are used up.
FindDevice(c) ==
  /\ pc[c] = "FindDevice"
  /\ \/ /\ DeviceFound
        /\ \/ rpc[c] = "stage" /\ NothingToStage /\ Return(c, "OK")
           \/ rpc[c] = "stage" /\ ~NothingToStage /\ Goto(c, "CheckMount")
           \/ rpc[c] = "publish" /\ Goto(c, "MakeFile")
        /\ UNCHANGED polls
     \/ ~DeviceFound /\ NotYet(c)
     \/ "api" \in Faults /\ Return(c, "ERR") /\ UNCHANGED polls
  /\ UNCHANGED <<kernel, disk>>

\* A publish call that finds its target mounted has nothing to do; a stage call
\* still sees to the size of a volume made from another.
Mounted(c) == IF rpc[c] = "stage" /\ mode = "clone" THEN Goto(c, "ResizeStaged") ELSE Return(c, "OK")

FaultyNeverMounted(p) == FALSE
FaultyTakesAnyPath(p) == p \in paths
FoundMounted(p) == LikelyMounted(p)

\* IsLikelyNotMountPointAttach makes a path that is missing.
CheckMount(c) ==
  /\ pc[c] = "CheckMount"
  /\ LET p == PathOf(c)
     IN  \/ FoundMounted(p) /\ Mounted(c) /\ UNCHANGED kernel
         \/ /\ ~FoundMounted(p)
            /\ Goto(c, IF rpc[c] = "stage" THEN "Format" ELSE "Bind")
            /\ MakePath(p)
  /\ UNCHANGED <<disk, polls>>

FaultyAlwaysFormats == TRUE
Blank == data = "blank"

\* FormatAndMount: the disk's format is read, a blank disk formatted, then mounted.
Format(c) ==
  /\ pc[c] = "Format"
  /\ \/ device = "here" /\ Goto(c, IF Blank THEN "Mkfs" ELSE "MountDevice")
     \/ (device # "here" \/ "jobfail" \in Faults) /\ Return(c, "ERR")
  /\ UNCHANGED <<kernel, disk, polls>>

\* mkfs refuses a device that is mounted.
InUse == \E p \in Path : \E i \in 1 .. Len(mounts[p]) : mounts[p][i] = "volume"

Mkfs(c) ==
  /\ pc[c] = "Mkfs"
  /\ \/ /\ device = "here" /\ ~InUse
        /\ data' = "empty" /\ fits' = TRUE /\ UNCHANGED device
        /\ Goto(c, "MountDevice")
     \/ /\ device # "here" \/ InUse \/ "jobfail" \in Faults
        /\ Return(c, "ERR") /\ UNCHANGED disk
  /\ UNCHANGED <<kernel, polls>>

\* The kernel does not mount a filesystem twice upon itself.
CanMount == device = "here" /\ data # "blank" /\ "staging" \in paths /\ Shows("staging") # "volume"

MountDevice(c) ==
  /\ pc[c] = "MountDevice"
  /\ \/ CanMount /\ Stack("staging", "volume") /\ Mounted(c)
     \/ /\ ~CanMount \/ "jobfail" \in Faults
        /\ Return(c, "ERR") /\ UNCHANGED kernel
  /\ UNCHANGED <<disk, polls>>

\* Only a filesystem that is mounted can be enlarged.
EnlargeAt(c, p) ==
  \/ Shows(p) = "volume" /\ device = "here" /\ fits' = TRUE /\ Return(c, "OK")
  \/ /\ Shows(p) # "volume" \/ device # "here" \/ "jobfail" \in Faults
     /\ Return(c, "ERR") /\ UNCHANGED fits

ResizeStaged(c) ==
  /\ pc[c] = "ResizeStaged"
  /\ \/ fits /\ Return(c, "OK") /\ UNCHANGED fits
     \/ ~fits /\ EnlargeAt(c, "staging")
  /\ UNCHANGED <<kernel, data, device, polls>>

\* The bind mount of what the staging path shows; bind mounts do stack.

Bind(c) ==
  /\ pc[c] = "Bind"
  /\ \/ "staging" \in paths /\ Stack("target", Shows("staging")) /\ Goto(c, "Remount")
     \/ /\ "staging" \notin paths \/ "target" \notin paths \/ "jobfail" \in Faults
        /\ Return(c, "ERR") /\ UNCHANGED kernel
  /\ UNCHANGED <<disk, polls>>

\* After a failed mount of a device the target is removed, unless it is a mount
\* point.
DropTarget == Remove("target") \/ (IsMounted("target") /\ UNCHANGED kernel)

\* The mount library binds and then sets the options with a second mount command.
Remount(c) ==
  /\ pc[c] = "Remount"
  /\ \/ IsMounted("target") /\ Return(c, "OK") /\ UNCHANGED kernel
     \/ /\ ~IsMounted("target") \/ "jobfail" \in Faults
        /\ IF mode = "block" THEN DropTarget ELSE UNCHANGED kernel
        /\ Return(c, "ERR")
  /\ UNCHANGED <<disk, polls>>

\* The block branch does not look whether its target is mounted.
MakeFile(c) ==
  /\ pc[c] = "MakeFile"
  /\ MakePath("target") /\ Goto(c, "BindDevice")
  /\ UNCHANGED <<disk, polls>>

\* The bind mount of the device on the file.
BindDevice(c) ==
  /\ pc[c] = "BindDevice"
  /\ \/ device = "here" /\ Stack("target", "volume") /\ Goto(c, "Remount")
     \/ /\ device # "here" \/ "target" \notin paths \/ "jobfail" \in Faults
        /\ DropTarget
        /\ Return(c, "ERR")
  /\ UNCHANGED <<disk, polls>>

FaultyNeverTheVolume == FALSE
ShowsFilesystem == Shows("target") = "volume" /\ mode # "block"

\* findmnt --target answers with the filesystem the path belongs to: that of the
\* node's disk if the volume is not mounted there.
FindMountFs(c) ==
  /\ pc[c] = "FindMountFs"
  /\ \/ /\ "target" \in paths
        /\ Goto(c, IF ShowsFilesystem THEN "ResizeMounted" ELSE "ResizeOther")
     \/ "target" \notin paths /\ Return(c, "ERR")
  /\ UNCHANGED <<kernel, disk, polls>>

ResizeMounted(c) ==
  /\ pc[c] = "ResizeMounted"
  /\ EnlargeAt(c, "target")
  /\ UNCHANGED <<kernel, data, device, polls>>

\* The root filesystem already fits its disk; the "device" of a raw device bound
\* to a file has no filesystem.
ResizeOther(c) ==
  /\ pc[c] = "ResizeOther"
  /\ Return(c, "OK")
  /\ UNCHANGED <<kernel, disk, polls>>

Unmount(c) == UnmountPath(c, PathOf(c), "return") /\ UNCHANGED disk

----------------------------------------------------------------------------
(* What the CO hears, and history.                                         *)

Hear(c) ==
  IF c = watched /\ ~InProgress(c)'
  THEN /\ watched' = NoCall
       /\ told' = IF reply'[c] # "OK" \/ rpc[c] = "expand" THEN told
                  ELSE [told EXCEPT ![PathOf(c)] =
                          IF rpc[c] \in {"stage", "publish"} THEN "yes" ELSE "no"]
  ELSE UNCHANGED <<watched, told>>

Fact == {"promise", "fits", "stray"}

\* What a call promises of its path when it answers OK.
Promise(c) ==
  CASE rpc[c] = "stage" -> Shows("staging") = "volume"
    [] rpc[c] = "publish" -> IsMounted("target")
    [] rpc[c] = "expand" -> fits
    [] OTHER -> ~IsMounted(PathOf(c))

\* What is true now of the path of call c.
Facts(c) ==
  {f \in Fact : \/ f = "promise" /\ Promise(c)
                \/ f = "fits" /\ rpc[c] = "stage" /\ mode = "clone" /\ fits
                \/ f = "stray" /\ rpc[c] = "expand" /\ (strayed \/ c \in stray)}

History ==
  /\ stray' = IF phase' # phase THEN {c \in Calls : InProgress(c)'}
              ELSE {c \in stray : InProgress(c)'}
  /\ witness' = [c \in Calls |->
       IF reply'[c] = "ERR" THEN {}
       ELSE IF InProgress(c) THEN witness[c] \cup Facts(c)'
       ELSE IF InProgress(c)' THEN Facts(c)'
       ELSE witness[c]]

Quiet == UNCHANGED strayed

\* A call the CO knows nothing of any more has changed something.
Traces(c) == strayed' = (strayed \/ (c \in stray /\ <<paths, mounts, data, fits>>' # <<paths, mounts, data, fits>>))

----------------------------------------------------------------------------
NodeStageVolume(c) ==
  /\ rpc[c] = "stage"
  /\ \/ GetVolume(c) \/ FindDevice(c) \/ CheckMount(c) \/ Format(c) \/ Mkfs(c)
     \/ MountDevice(c) \/ ResizeStaged(c)

NodeUnstageVolume(c) == rpc[c] = "unstage" /\ (GetVolume(c) \/ Unmount(c))

NodePublishVolume(c) ==
  /\ rpc[c] = "publish" /\ mode # "block"
  /\ GetVolume(c) \/ CheckMount(c) \/ Bind(c) \/ Remount(c)

NodePublishVolumeForBlock(c) ==
  /\ rpc[c] = "publish" /\ mode = "block"
  /\ GetVolume(c) \/ FindDevice(c) \/ MakeFile(c) \/ BindDevice(c) \/ Remount(c)

NodeUnpublishVolume(c) == rpc[c] = "unpublish" /\ (GetVolume(c) \/ Unmount(c))

NodeExpandVolume(c) ==
  /\ rpc[c] = "expand"
  /\ GetVolume(c) \/ FindMountFs(c) \/ ResizeMounted(c) \/ ResizeOther(c)

NodeHandle(c) ==
  /\ \/ NodeStageVolume(c) \/ NodeUnstageVolume(c) \/ NodePublishVolume(c)
     \/ NodePublishVolumeForBlock(c) \/ NodeUnpublishVolume(c) \/ NodeExpandVolume(c)
  /\ UNCHANGED <<mode, rpc, phase>>
  /\ Hear(c) /\ Traces(c) /\ History

Orchestrator ==
  /\ \/ \E c \in Calls : \/ BeginStage(c) \/ BeginPublish(c) \/ BeginUnpublish(c)
                         \/ BeginUnstage(c) \/ BeginExpand(c)
     \/ GiveUp \/ Turn \/ Attach \/ Detach
  /\ Quiet /\ History

Surroundings ==
  /\ DeviceAppears \/ GrowDevice \/ PodWrites \/ Crash \/ Reboot
  /\ Quiet /\ History

NodeNext == (\E c \in Calls : NodeHandle(c)) \/ Orchestrator \/ Surroundings

NodeSpec == NodeInit /\ [][NodeNext]_nodeVars

----------------------------------------------------------------------------
(* Properties.                                                             *)

\* Every variable stays in its range.
NodeTypeOK ==
  /\ mode \in {"fs", "clone", "block"} /\ data \in {"blank", "empty", "written"}
  /\ fits \in BOOLEAN /\ device \in {"away", "coming", "here"}
  /\ paths \subseteq Path /\ mounts \in [Path -> Seq({"volume", "dir"})]
  /\ told \in [Path -> {"no", "maybe", "yes"}] /\ phase \in {"up", "down"}
  /\ watched \in Calls \cup {NoCall} /\ stray \subseteq Calls /\ strayed \in BOOLEAN
  /\ rpc \in [Calls -> {"none", "stage", "unstage", "publish", "unpublish", "expand"}]
  /\ pc \in [Calls -> {"idle"} \cup Step]
  /\ polls \in [Calls -> 0 .. MaxPolls - 1]
  /\ reply \in [Calls -> {"none", "OK", "ERR"}]
  /\ witness \in [Calls -> SUBSET Fact]

NodeAnswered(c, kind) == ~InProgress(c) /\ reply[c] = "OK" /\ rpc[c] = kind

\* A node call that answers OK saw at some moment what it answers: the staging
\* path showing the volume (of a raw device nothing is said), the filesystem of
\* one made from another large enough, the target mounted, the path free.
NodeAnswersAreHonest ==
  \A c \in Calls :
    /\ \/ NodeAnswered(c, "stage") /\ mode # "block"
       \/ \E k \in {"publish", "unpublish", "unstage"} : NodeAnswered(c, k)
       => "promise" \in witness[c]
    /\ NodeAnswered(c, "stage") /\ mode = "clone" => "fits" \in witness[c]

\* While no call the CO turned its back on has interfered, the pod whose target
\* path was reported published sees the volume there, never the bare directory
\* of the node, whatever calls the CO gave up on are still running.
PublishedIsVolume ==
  ~strayed /\ told["target"] = "yes" => Shows("target") = "volume"

\* When the volume is detached nothing of it is left mounted: every unpublish and
\* unstage that was reported done was.
NothingMountedWhenDetached ==
  ~strayed /\ device = "away" => ~InUse

\* However often the CO repeats a publish call, the mounts stacked upon the
\* target are no more than the calls that can run side by side.
StacksBounded ==
  ~strayed /\ mode # "block" =>
    Len(mounts["target"]) + Cardinality({c \in Calls : pc[c] = "Bind"}) <= Cardinality(Calls)

\* What the pod has written is not formatted away.
DataSurvives ==
  [][data = "written" => data' = "written" \/ strayed']_nodeVars

\* An expand call the CO has not turned its back on, when it answers OK, found or
\* made the filesystem as large as the volume.
ExpandReachesFilesystem ==
  \A c \in Calls :
    NodeAnswered(c, "expand") /\ mode # "block" /\ "stray" \notin witness[c]
      => "promise" \in witness[c]

\* The node server implements the life cycle of NodeLifeCycle: with several calls
\* of a kind at work and others given up on, a target never comes to show the
\* volume before it is staged, nor is a volume unstaged or detached under it.
LifeCycle == INSTANCE NodeLifeCycle WITH
  raw <- mode = "block",
  here <- device # "away",
  staged <- Shows("staging") = "volume",
  published <- Shows("target") = "volume",
  broken <- strayed

FollowsLifeCycle == LifeCycle!Spec
=============================================================================
