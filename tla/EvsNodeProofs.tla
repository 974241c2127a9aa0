----------------------------- MODULE EvsNodeProofs -----------------------------
(* Theorems about the EVS node server: its volume (EvsNode), for any number of *)
(* calls, every number of polls, every bound of stacked mounts and every set   *)
(* of faults; and what it tells of its node (NodeMetadata), for any order of   *)
(* the sources.                                                                *)
EXTENDS EvsNode, NodeMetadata, FiniteSetTheorems, SequenceTheorems, TLAPS

USE DEF InProgress

Source == {"volume", "dir"}
Kinds == {"none", "stage", "unstage", "publish", "unpublish", "expand"}

----------------------------------------------------------------------------
(* Mounts upon each other.                                                 *)

\* Everything mounted at p is the volume.
Pure(p) == \A i \in 1 .. Len(mounts[p]) : mounts[p][i] = "volume"

\* What is seen at a path is what is mounted there, or a directory.
LEMMA WhatIsSeen ==
  ASSUME NodeTypeOK, NEW p \in Path
  PROVE  /\ mounts[p] \in Seq(Source) /\ Len(mounts[p]) \in Nat
         /\ Shows(p) \in Source
         /\ Shows(p) = "volume" => IsMounted(p)
         /\ Pure(p) /\ IsMounted(p) => Shows(p) = "volume"
         /\ ~IsMounted(p) => Pure(p) /\ Len(mounts[p]) = 0
<1>1. mounts[p] \in Seq(Source)
  BY DEF NodeTypeOK, Source
<1>2. Len(mounts[p]) \in Nat
  BY <1>1
<1>3. mounts[p] # <<>> => Len(mounts[p]) \in 1 .. Len(mounts[p])
  BY <1>1, EmptySeq
<1>4. mounts[p] # <<>> => mounts[p][Len(mounts[p])] \in Source
  BY <1>1, <1>3, ElementOfSeq
<1>5. mounts[p] = <<>> => Len(mounts[p]) = 0
  OBVIOUS
<1>6. QED BY <1>1, <1>2, <1>3, <1>4, <1>5 DEF Shows, IsMounted, Pure, Source

\* One more mount at p.
LEMMA Stacked ==
  ASSUME NodeTypeOK, NEW p \in Path, NEW s \in Source,
         mounts' = [mounts EXCEPT ![p] = Append(@, s)]
  PROVE  /\ mounts' \in [Path -> Seq(Source)]
         /\ IsMounted(p)' /\ Shows(p)' = s /\ Len(mounts'[p]) = Len(mounts[p]) + 1
         /\ \A q \in Path : q # p => mounts'[q] = mounts[q]
         /\ s = "volume" /\ Pure(p) => Pure(p)'
<1>1. mounts[p] \in Seq(Source) /\ mounts \in [Path -> Seq(Source)]
  BY DEF NodeTypeOK, Source
<1>2. mounts'[p] = Append(mounts[p], s) /\ \A q \in Path : q # p => mounts'[q] = mounts[q]
  BY <1>1
<1>3. /\ mounts'[p] \in Seq(Source) /\ mounts'[p] # <<>>
      /\ Len(mounts'[p]) = Len(mounts[p]) + 1
      /\ \A i \in 1 .. Len(mounts[p]) : mounts'[p][i] = mounts[p][i]
      /\ mounts'[p][Len(mounts[p]) + 1] = s
  BY <1>1, <1>2, AppendProperties
<1>4. mounts' \in [Path -> Seq(Source)]
  BY <1>1, <1>3
<1>5. Len(mounts[p]) \in Nat
  BY <1>1
<1>6. QED BY <1>2, <1>3, <1>4, <1>5 DEF Shows, IsMounted, Pure

\* One mount less at p.
LEMMA Unstacked ==
  ASSUME NodeTypeOK, NEW p \in Path, IsMounted(p),
         mounts' = [mounts EXCEPT ![p] = SubSeq(@, 1, Len(@) - 1)]
  PROVE  /\ mounts' \in [Path -> Seq(Source)]
         /\ Len(mounts'[p]) = Len(mounts[p]) - 1
         /\ \A q \in Path : q # p => mounts'[q] = mounts[q]
         /\ Pure(p) => Pure(p)'
<1>1. mounts[p] \in Seq(Source) /\ mounts \in [Path -> Seq(Source)]
  BY DEF NodeTypeOK, Source
<1> DEFINE n == Len(mounts[p])
<1>2. n \in Nat \ {0}
  BY <1>1, EmptySeq DEF IsMounted
<1>3. mounts'[p] = SubSeq(mounts[p], 1, n - 1) /\ \A q \in Path : q # p => mounts'[q] = mounts[q]
  BY <1>1
<1>4. \A i \in 1 .. n - 1 : mounts[p][i] \in Source
  BY <1>1, <1>2, ElementOfSeq
<1>5. /\ mounts'[p] \in Seq(Source)
      /\ Len(mounts'[p]) = n - 1
      /\ \A i \in 1 .. n - 1 : mounts'[p][i] = mounts[p][i]
  <2>1. 1 \in Int /\ n - 1 \in Int
    BY <1>2
  <2>2. /\ SubSeq(mounts[p], 1, n - 1) \in Seq(Source)
        /\ Len(SubSeq(mounts[p], 1, n - 1)) = IF 1 <= n - 1 THEN n - 1 - 1 + 1 ELSE 0
        /\ \A i \in 1 .. n - 1 - 1 + 1 : SubSeq(mounts[p], 1, n - 1)[i] = mounts[p][1 + i - 1]
    BY <1>4, <2>1, SubSeqProperties
  <2>3. QED BY <1>2, <1>3, <2>2
<1>6. mounts' \in [Path -> Seq(Source)]
  BY <1>1, <1>5
<1>7. QED BY <1>2, <1>3, <1>5, <1>6 DEF Pure

----------------------------------------------------------------------------
(* What a step of a handler may do.                                        *)

\* The call goes on to another request or returns.
Advances(c) ==
  /\ InProgress(c)
  /\ \/ \E l \in Step : pc' = [pc EXCEPT ![c] = l] /\ reply' = reply
     \/ \E r \in {"OK", "ERR"} : Return(c, r)

\* A mount is added to the staging path or the target, or one is taken away.
StagesVolume(c) ==
  /\ rpc[c] = "stage" /\ pc[c] = "MountDevice" /\ CanMount
  /\ mounts' = [mounts EXCEPT !["staging"] = Append(@, "volume")]
BindsVolume(c) ==
  /\ rpc[c] = "publish" /\ mode # "block" /\ pc[c] = "Bind"
  /\ mounts' = [mounts EXCEPT !["target"] = Append(@, Shows("staging"))]
BindsDevice(c) ==
  /\ rpc[c] = "publish" /\ mode = "block" /\ device = "here"
  /\ mounts' = [mounts EXCEPT !["target"] = Append(@, "volume")]
TakesAway(c) ==
  /\ rpc[c] \in {"unstage", "unpublish"} /\ IsMounted(PathOf(c))
  /\ mounts' = [mounts EXCEPT ![PathOf(c)] = SubSeq(@, 1, Len(@) - 1)]

MovesMounts(c) ==
  UNCHANGED mounts \/ StagesVolume(c) \/ BindsVolume(c) \/ BindsDevice(c) \/ TakesAway(c)

\* Only mkfs changes the data.
MovesData(c) ==
  \/ UNCHANGED data
  \/ rpc[c] = "stage" /\ pc[c] = "Mkfs" /\ ~InUse /\ data' = "empty"

\* A path on which something is mounted exists.
MountsHavePaths == \A p \in Path : IsMounted(p) => p \in paths

\* What a step of a call may do, the history and what the CO was told apart.
StepEffect(c) ==
  /\ Advances(c) /\ MovesMounts(c) /\ MovesData(c)
  /\ UNCHANGED <<mode, rpc, phase, device>>
  /\ fits' \in BOOLEAN /\ polls' \in [Calls -> 0 .. MaxPolls - 1]
  /\ paths' \subseteq Path /\ MountsHavePaths'

\* A step that leaves the kernel and the disk alone.
LEMMA LookEffect ==
  ASSUME NodeTypeOK, MountsHavePaths, NEW c \in Calls, Advances(c), UNCHANGED <<kernel, disk, mode, rpc, phase>>,
         UNCHANGED polls \/ NotYet(c)
  PROVE  StepEffect(c)
<1>1. UNCHANGED <<paths, mounts, data, fits, device>>
  BY DEF kernel, disk
<1>2. polls' \in [Calls -> 0 .. MaxPolls - 1]
  <2>1. polls \in [Calls -> 0 .. MaxPolls - 1]
    BY DEF NodeTypeOK
  <2>2. CASE NotYet(c)
    <3>1. polls[c] + 1 < MaxPolls => polls[c] + 1 \in 0 .. MaxPolls - 1
      BY <2>1, MaxPollsAssumption
    <3>2. QED BY <2>1, <2>2, <3>1 DEF NotYet
  <2>3. QED BY <2>1, <2>2
<1>3. MountsHavePaths'
  BY <1>1 DEF MountsHavePaths, IsMounted
<1>4. QED BY <1>1, <1>2, <1>3 DEF StepEffect, MovesMounts, MovesData, NodeTypeOK

\* The requests and checks that change nothing but the call.
Looks(c) == GetVolume(c) \/ FindDevice(c) \/ Format(c) \/ FindMountFs(c) \/ ResizeOther(c)

\* Each of them has such an effect.
LEMMA LooksEffect ==
  ASSUME NodeTypeOK, MountsHavePaths, NEW c \in Calls, Looks(c), UNCHANGED <<mode, rpc, phase>>
  PROVE  StepEffect(c)
<1> USE DEF Step
<1>1. UNCHANGED <<kernel, disk>> /\ (UNCHANGED polls \/ NotYet(c))
  BY DEF Looks, GetVolume, FindDevice, Format, FindMountFs, ResizeOther
<1>2. Advances(c)
  <2>1. ASSUME NEW l \in Step, Goto(c, l), InProgress(c) PROVE Advances(c)
    BY <2>1 DEF Goto, Advances
  <2>2. ASSUME NEW r \in {"OK", "ERR"}, Return(c, r), InProgress(c) PROVE Advances(c)
    BY <2>2 DEF Advances
  <2>3. ASSUME NotYet(c), pc[c] = "FindDevice" PROVE Advances(c)
    <3>1. pc' = [pc EXCEPT ![c] = "FindDevice"] \/ Return(c, "ERR")
      BY <2>3 DEF NotYet, NodeTypeOK
    <3>2. QED BY <2>3, <3>1, <2>2 DEF NotYet, Advances
  <2>4. CASE GetVolume(c)
    BY <2>1, <2>2, <2>4 DEF GetVolume
  <2>5. CASE FindDevice(c)
    BY <2>1, <2>2, <2>3, <2>5 DEF FindDevice
  <2>6. CASE Format(c) \/ FindMountFs(c) \/ ResizeOther(c)
    BY <2>1, <2>2, <2>6 DEF Format, FindMountFs, ResizeOther
  <2>7. QED BY <2>4, <2>5, <2>6 DEF Looks
<1>3. QED BY <1>1, <1>2, LookEffect

\* Going on or returning advances a call.
LEMMA Advancing ==
  ASSUME NEW c \in Calls, InProgress(c),
         (\E l \in Step : Goto(c, l)) \/ (\E r \in {"OK", "ERR"} : Return(c, r))
  PROVE  Advances(c)
BY DEF Goto, Advances

\* The check of a path, which makes it when it is missing.
LEMMA CheckEffect ==
  ASSUME NodeTypeOK, MountsHavePaths, NEW c \in Calls, CheckMount(c) \/ MakeFile(c),
         UNCHANGED <<mode, rpc, phase>>
  PROVE  StepEffect(c)
<1> USE DEF Step
<1>1. UNCHANGED <<mounts, disk, polls>> /\ \E p \in Path : paths' \in {paths, paths \cup {p}}
  BY DEF CheckMount, MakeFile, MakePath, PathOf, Path, kernel
<1>2. Advances(c)
  BY Advancing DEF CheckMount, MakeFile, Mounted
<1>3. paths' \subseteq Path /\ MountsHavePaths'
  BY <1>1 DEF NodeTypeOK, MountsHavePaths, IsMounted
<1>4. QED BY <1>1, <1>2, <1>3 DEF StepEffect, MovesMounts, MovesData, NodeTypeOK, disk

\* Formatting and enlarging.
LEMMA DiskEffect ==
  ASSUME NodeTypeOK, MountsHavePaths, NEW c \in Calls, UNCHANGED <<mode, rpc, phase>>,
         \/ rpc[c] = "stage" /\ (Mkfs(c) \/ ResizeStaged(c))
         \/ ResizeMounted(c)
  PROVE  StepEffect(c)
<1> USE DEF Step
<1>1. UNCHANGED <<kernel, device, polls>>
  BY DEF Mkfs, ResizeStaged, ResizeMounted, disk
<1>2. MovesData(c) /\ fits' \in BOOLEAN
  BY DEF Mkfs, ResizeStaged, ResizeMounted, EnlargeAt, disk, MovesData, NodeTypeOK
<1>3. Advances(c)
  BY Advancing DEF Mkfs, ResizeStaged, ResizeMounted, EnlargeAt
<1>4. paths' \subseteq Path /\ MountsHavePaths'
  BY <1>1 DEF NodeTypeOK, MountsHavePaths, IsMounted, kernel
<1>5. QED BY <1>1, <1>2, <1>3, <1>4 DEF StepEffect, MovesMounts, NodeTypeOK, kernel

\* Mounting the device at the staging path, and binding it at the target.
LEMMA MountEffect ==
  ASSUME NodeTypeOK, MountsHavePaths, NEW c \in Calls, UNCHANGED <<mode, rpc, phase>>,
         \/ rpc[c] = "stage" /\ MountDevice(c)
         \/ rpc[c] = "publish" /\ mode # "block" /\ Bind(c)
         \/ rpc[c] = "publish" /\ mode = "block" /\ BindDevice(c)
         \/ rpc[c] = "publish" /\ Remount(c)
  PROVE  StepEffect(c)
<1> USE DEF Step, DropTarget
<1>1. UNCHANGED <<disk, polls>>
  BY DEF MountDevice, Bind, BindDevice, Remount
<1>2. Advances(c)
  BY Advancing DEF MountDevice, Mounted, Bind, BindDevice, Remount
<1>3. MovesMounts(c)
  BY DEF MountDevice, Bind, BindDevice, Remount, Stack, Remove, kernel, MovesMounts, StagesVolume,
       BindsVolume, BindsDevice
<1>4. paths' \subseteq Path /\ MountsHavePaths'
  <2>1. CASE UNCHANGED kernel
    BY <2>1 DEF NodeTypeOK, MountsHavePaths, IsMounted, kernel
  <2>2. CASE Remove("target")
    BY <2>2 DEF NodeTypeOK, MountsHavePaths, IsMounted, Remove
  <2>3. ASSUME NEW p \in Path, NEW s \in Source, Stack(p, s)
        PROVE  paths' \subseteq Path /\ MountsHavePaths'
    BY <2>3, Stacked DEF NodeTypeOK, MountsHavePaths, IsMounted, Stack
  <2>4. Shows("staging") \in Source
    BY WhatIsSeen DEF Path
  <2>5. QED BY <2>1, <2>2, <2>3, <2>4 DEF MountDevice, Bind, BindDevice, Remount, Path, Source
<1>5. QED BY <1>1, <1>2, <1>3, <1>4 DEF StepEffect, MovesData, NodeTypeOK, disk

\* UnmountPath.
LEMMA UnmountEffect ==
  ASSUME NodeTypeOK, MountsHavePaths, NEW c \in Calls, UNCHANGED <<mode, rpc, phase>>,
         rpc[c] \in {"unstage", "unpublish"}, Unmount(c)
  PROVE  StepEffect(c)
<1> USE DEF Step
<1> DEFINE p == PathOf(c)
<1>1. UNCHANGED <<disk, polls>> /\ p \in Path
  BY DEF Unmount, UnmountPath, Cleanup, Umount, RemovePath, PathOf, Path
<1>2. Cleanup(c, p, "return") \/ Umount(c, p) \/ RemovePath(c, p, "return")
  BY DEF Unmount, UnmountPath
<1> HIDE DEF p
<1>3. Advances(c)
  BY <1>2, Advancing DEF Cleanup, Umount, RemovePath, Proceed
<1>4. CASE UNCHANGED kernel \/ Remove(p)
  <2>1. UNCHANGED mounts /\ paths' \subseteq paths /\ \A q \in Path : q \in paths \ paths' => ~IsMounted(q)
    BY <1>4 DEF kernel, Remove
  <2>2. paths' \subseteq Path /\ MountsHavePaths'
    BY <2>1 DEF NodeTypeOK, MountsHavePaths, IsMounted
  <2>3. QED BY <1>1, <1>3, <2>1, <2>2 DEF StepEffect, MovesMounts, MovesData, NodeTypeOK, disk
<1>5. CASE /\ IsMounted(p) /\ mounts' = [mounts EXCEPT ![p] = SubSeq(@, 1, Len(@) - 1)]
           /\ UNCHANGED paths
  <2>1. TakesAway(c)
    BY <1>5 DEF TakesAway, p
  <2>2. \A q \in Path : IsMounted(q)' => IsMounted(q)
    BY <1>1, <1>5, Unstacked DEF IsMounted
  <2>3. paths' \subseteq Path /\ MountsHavePaths'
    BY <1>5, <2>2 DEF NodeTypeOK, MountsHavePaths
  <2>4. QED BY <1>1, <1>3, <2>1, <2>3 DEF StepEffect, MovesMounts, MovesData, NodeTypeOK, disk
<1>6. QED BY <1>2, <1>4, <1>5 DEF Cleanup, Umount, RemovePath, Remove, Unmounted

\* Every step of every handler has one of these effects.
LEMMA HandlerEffect ==
  ASSUME NodeTypeOK, MountsHavePaths, NEW c \in Calls, NodeHandle(c)
  PROVE  StepEffect(c)
<1>1. UNCHANGED <<mode, rpc, phase>>
  BY DEF NodeHandle
<1>2. CASE Looks(c)
  BY <1>1, <1>2, LooksEffect
<1>3. QED
  BY <1>1, <1>2, CheckEffect, DiskEffect, MountEffect, UnmountEffect
     DEF NodeHandle, Looks, NodeStageVolume, NodeUnstageVolume, NodePublishVolume,
         NodePublishVolumeForBlock, NodeUnpublishVolume, NodeExpandVolume

----------------------------------------------------------------------------
(* Types.                                                                  *)

\* The history keeps its types, whatever the step.
LEMMA HistoryTyping ==
  ASSUME NodeTypeOK, History
  PROVE  stray' \subseteq Calls /\ witness' \in [Calls -> SUBSET Fact]
<1>1. stray' \subseteq Calls
  BY DEF History, NodeTypeOK
<1>2. \A c \in Calls : Facts(c)' \in SUBSET Fact
  BY DEF Facts
<1>3. \A c \in Calls : witness[c] \in SUBSET Fact
  BY DEF NodeTypeOK
<1>4. QED BY <1>1, <1>2, <1>3 DEF History

\* So does what the CO hears.
LEMMA HearTyping ==
  ASSUME NodeTypeOK, NEW c \in Calls, Hear(c)
  PROVE  watched' \in Calls \cup {NoCall} /\ told' \in [Path -> {"no", "maybe", "yes"}]
<1>1. told \in [Path -> {"no", "maybe", "yes"}] /\ watched \in Calls \cup {NoCall}
  BY DEF NodeTypeOK
<1>2. QED BY <1>1 DEF Hear

\* A step of a handler keeps the types of the mounts.
LEMMA MountsTyping ==
  ASSUME NodeTypeOK, NEW c \in Calls, MovesMounts(c)
  PROVE  mounts' \in [Path -> Seq(Source)]
<1>1. "staging" \in Path /\ "target" \in Path /\ PathOf(c) \in Path
  BY DEF Path, PathOf
<1>2. CASE UNCHANGED mounts
  BY <1>2 DEF NodeTypeOK, Source
<1>3. CASE StagesVolume(c) \/ BindsDevice(c)
  BY <1>1, <1>3, Stacked DEF StagesVolume, BindsDevice, Source
<1>4. CASE BindsVolume(c)
  BY <1>1, <1>4, Stacked, WhatIsSeen DEF BindsVolume
<1>5. CASE TakesAway(c)
  BY <1>1, <1>5, Unstacked DEF TakesAway
<1>6. QED BY <1>2, <1>3, <1>4, <1>5 DEF MovesMounts

\* A step of a handler keeps the types.
LEMMA HandlerTyping ==
  ASSUME NodeTypeOK, MountsHavePaths, NEW c \in Calls, NodeHandle(c)
  PROVE  NodeTypeOK' /\ MountsHavePaths'
<1>1. StepEffect(c) /\ Hear(c) /\ Traces(c) /\ History
  BY HandlerEffect DEF NodeHandle
<1>2. mounts' \in [Path -> Seq({"volume", "dir"})]
  BY <1>1, MountsTyping DEF StepEffect, Source
<1>3. /\ pc' \in [Calls -> {"idle"} \cup Step] /\ reply' \in [Calls -> {"none", "OK", "ERR"}]
      /\ data' \in {"blank", "empty", "written"}
  <2>1. pc \in [Calls -> {"idle"} \cup Step] /\ reply \in [Calls -> {"none", "OK", "ERR"}]
    BY DEF NodeTypeOK
  <2>2. Advances(c)
    BY <1>1 DEF StepEffect
  <2>3. pc' \in [Calls -> {"idle"} \cup Step]
    BY <2>1, <2>2 DEF Advances, Return
  <2>4. reply' \in [Calls -> {"none", "OK", "ERR"}]
    BY <2>1, <2>2 DEF Advances, Return
  <2>5. data' \in {"blank", "empty", "written"}
    BY <1>1 DEF StepEffect, MovesData, NodeTypeOK
  <2>6. QED BY <2>3, <2>4, <2>5
<1>4. strayed' \in BOOLEAN
  BY <1>1 DEF Traces
<1>5. QED BY <1>1, <1>2, <1>3, <1>4, HistoryTyping, HearTyping DEF NodeTypeOK, StepEffect

\* The beginning of a call.
Begins(c) == BeginStage(c) \/ BeginPublish(c) \/ BeginUnpublish(c) \/ BeginUnstage(c) \/ BeginExpand(c)

\* It takes up a slot that is free, and may make the path of the request.
LEMMA BeginEffect ==
  ASSUME NodeTypeOK, MountsHavePaths, NEW c \in Calls, Begins(c)
  PROVE  /\ UNCHANGED <<mounts, mode, data, fits, device, phase>> /\ watched = NoCall /\ watched' = c
         /\ Enter(c, "GetVolume") /\ paths \subseteq paths' /\ paths' \subseteq Path
         /\ \E k \in Kinds : rpc' = [rpc EXCEPT ![c] = k]
         /\ told' \in [Path -> {"no", "maybe", "yes"}]
<1>1. PICK k \in Kinds : Begin(c, k) /\ (UNCHANGED told \/ \E p \in Path : Doubt(p))
  BY DEF Begins, BeginStage, BeginPublish, BeginUnpublish, BeginUnstage, BeginExpand, Kinds, Path
<1>2. paths \subseteq paths' /\ paths' \subseteq Path
  BY <1>1 DEF Begin, NodeTypeOK, Path
<1>3. told' \in [Path -> {"no", "maybe", "yes"}]
  BY <1>1 DEF Doubt, NodeTypeOK
<1>4. QED BY <1>1, <1>2, <1>3 DEF Begin, disk

\* So the types hold after it.
LEMMA BeginTyping ==
  ASSUME NodeTypeOK, MountsHavePaths, NEW c \in Calls, Begins(c), Quiet, History
  PROVE  NodeTypeOK' /\ MountsHavePaths'
<1>1. MountsHavePaths'
  BY BeginEffect DEF MountsHavePaths, IsMounted
<1>2. /\ pc' \in [Calls -> {"idle"} \cup Step] /\ reply' \in [Calls -> {"none", "OK", "ERR"}]
      /\ polls' \in [Calls -> 0 .. MaxPolls - 1]
  <2>1. /\ pc \in [Calls -> {"idle"} \cup Step] /\ reply \in [Calls -> {"none", "OK", "ERR"}]
        /\ polls \in [Calls -> 0 .. MaxPolls - 1]
    BY DEF NodeTypeOK
  <2>2. Enter(c, "GetVolume") /\ 0 \in 0 .. MaxPolls - 1 /\ "GetVolume" \in Step
    BY BeginEffect, MaxPollsAssumption DEF Step
  <2>3. QED BY <2>1, <2>2 DEF Enter
<1>3. rpc' \in [Calls -> Kinds]
  BY BeginEffect DEF NodeTypeOK, Kinds
<1>4. QED BY <1>1, <1>2, <1>3, BeginEffect, HistoryTyping DEF NodeTypeOK, Quiet, Kinds

\* What the CO and the node do apart from calls.
Elsewhere == GiveUp \/ Turn \/ Attach \/ Detach \/ DeviceAppears \/ GrowDevice \/ PodWrites \/ Crash

\* None of it touches the mounts or their paths, and the types hold after it.
LEMMA ElsewhereTyping ==
  ASSUME NodeTypeOK, MountsHavePaths, Elsewhere, Quiet, History
  PROVE  NodeTypeOK' /\ MountsHavePaths' /\ UNCHANGED <<mounts, paths, mode, rpc>>
<1>1. UNCHANGED <<mounts, paths, mode, rpc, told, polls>>
  BY DEF Elsewhere, GiveUp, Turn, Attach, Detach, DeviceAppears, GrowDevice, PodWrites, Crash,
       Down, kernel, co, call
<1>2. MountsHavePaths'
  BY <1>1 DEF MountsHavePaths, IsMounted
<1>3. pc' \in [Calls -> {"idle"} \cup Step] /\ reply' \in [Calls -> {"none", "OK", "ERR"}]
  BY DEF Elsewhere, GiveUp, Turn, Attach, Detach, DeviceAppears, GrowDevice, PodWrites, Crash,
       Down, call, NodeTypeOK
<1>4. /\ data' \in {"blank", "empty", "written"} /\ fits' \in BOOLEAN
      /\ device' \in {"away", "coming", "here"} /\ phase' \in {"up", "down"}
      /\ watched' \in Calls \cup {NoCall}
  BY DEF Elsewhere, GiveUp, Turn, Attach, Detach, DeviceAppears, GrowDevice, PodWrites, Crash,
       Down, disk, co, NodeTypeOK
<1>5. QED BY <1>1, <1>2, <1>3, <1>4, HistoryTyping DEF NodeTypeOK, Quiet

\* The node starts again.
LEMMA RebootTyping ==
  ASSUME NodeTypeOK, MountsHavePaths, Reboot, Quiet, History
  PROVE  NodeTypeOK' /\ MountsHavePaths'
<1>1. UNCHANGED <<paths, mode, data, fits, device, rpc, phase, polls>>
  BY DEF Reboot, Down, disk
<1>2. mounts' = [p \in Path |-> <<>>] /\ mounts' \in [Path -> Seq({"volume", "dir"})]
  BY DEF Reboot, Down
<1>3. MountsHavePaths'
  BY <1>2 DEF MountsHavePaths, IsMounted
<1>4. pc' \in [Calls -> {"idle"} \cup Step] /\ reply' \in [Calls -> {"none", "OK", "ERR"}]
  BY DEF Reboot, Down, NodeTypeOK
<1>5. told' \in [Path -> {"no", "maybe", "yes"}] /\ watched' \in Calls \cup {NoCall}
  BY DEF Reboot, Down, NodeTypeOK
<1>6. QED BY <1>1, <1>2, <1>3, <1>4, <1>5, HistoryTyping DEF NodeTypeOK, Quiet

\* The steps of the system, sorted by who takes them.
LEMMA WhoSteps ==
  ASSUME [NodeNext]_nodeVars
  PROVE  \/ \E c \in Calls : NodeHandle(c)
         \/ \E c \in Calls : Begins(c) /\ Quiet /\ History
         \/ Elsewhere /\ Quiet /\ History
         \/ Reboot /\ Quiet /\ History
         \/ UNCHANGED nodeVars
BY DEF NodeNext, Orchestrator, Surroundings, Elsewhere, Begins

\* What the first lemmas rest on.
Grounded == NodeTypeOK /\ MountsHavePaths

----------------------------------------------------------------------------
(* The order of the CO's requests.                                         *)

\* A call in progress that the CO has not turned its back on.
Current(c) == InProgress(c) /\ c \notin stray

\* What the CO knows of the paths as long as such a call runs.
InItsPhase(c) ==
  /\ rpc[c] \in Kinds \ {"none"}
  /\ rpc[c] \in {"stage", "publish", "expand"} => phase = "up"
  /\ rpc[c] \in {"unpublish", "unstage"} => phase = "down"
  /\ rpc[c] = "stage" => told["staging"] # "no"
  /\ rpc[c] = "publish" => told["staging"] = "yes" /\ told["target"] # "no"
  /\ rpc[c] = "expand" => told["target"] = "yes"
  /\ rpc[c] = "unpublish" => told["target"] # "yes"
  /\ rpc[c] = "unstage" => told["target"] = "no" /\ told["staging"] # "yes"

\* The CO's side: it waits for a current call at most, and it knows a volume that
\* is away to be nowhere.
Discipline ==
  /\ \A c \in Calls : InProgress(c) => reply[c] = "none"
  /\ \A c \in stray : InProgress(c)
  /\ watched \notin stray
  /\ device = "away" => watched = NoCall /\ \A p \in Path : told[p] = "no"
  /\ \A c \in Calls : Current(c) => InItsPhase(c)

\* As long as the phase lasts no call becomes or ceases to be stray.
LEMMA SamePhase ==
  ASSUME NodeTypeOK, Discipline, History, UNCHANGED phase,
         \A d \in Calls : InProgress(d)' => InProgress(d) \/ d \notin stray
  PROVE  /\ stray' \subseteq stray /\ \A d \in stray' : InProgress(d)'
         /\ \A d \in Calls : Current(d)' <=> InProgress(d)' /\ d \notin stray
BY DEF History, Current, NodeTypeOK

\* What the CO hears from the call it waits for.
LEMMA Hearing ==
  ASSUME NodeTypeOK, Discipline, NEW c \in Calls, Hear(c), UNCHANGED rpc, InProgress(c)
  PROVE  /\ watched' \in {watched, NoCall}
         /\ UNCHANGED told
            \/ /\ c = watched /\ ~InProgress(c)' /\ reply'[c] = "OK" /\ Current(c)
               /\ \/ rpc[c] = "stage" /\ told' = [told EXCEPT !["staging"] = "yes"]
                  \/ rpc[c] = "publish" /\ told' = [told EXCEPT !["target"] = "yes"]
                  \/ rpc[c] = "unstage" /\ told' = [told EXCEPT !["staging"] = "no"]
                  \/ rpc[c] = "unpublish" /\ told' = [told EXCEPT !["target"] = "no"]
<1>1. c = watched => Current(c)
  BY DEF Discipline, Current
<1>2. Current(c) => rpc[c] \in {"stage", "publish", "expand", "unpublish", "unstage"}
  BY DEF Discipline, InItsPhase, Kinds
<1>3. QED BY <1>1, <1>2 DEF Hear, PathOf

\* What the CO is told of one call does not put the others in the wrong.
LEMMA HandlerKeepsOrder ==
  ASSUME Grounded, Discipline, NEW c \in Calls, NodeHandle(c)
  PROVE  Discipline'
<1> USE DEF Grounded
<1>1. StepEffect(c) /\ Hear(c) /\ History
  BY HandlerEffect DEF NodeHandle
<1>2. UNCHANGED <<rpc, phase, device>> /\ Advances(c) /\ InProgress(c)
  BY <1>1 DEF StepEffect, Advances
<1>3. /\ \A d \in Calls : InProgress(d)' => InProgress(d)
      /\ \A d \in Calls : InProgress(d)' => reply'[d] = reply[d]
  <2>1. pc \in [Calls -> {"idle"} \cup Step] /\ reply \in [Calls -> {"none", "OK", "ERR"}]
    BY DEF NodeTypeOK
  <2>2. QED BY <1>2, <2>1 DEF Advances, Return
<1>4. /\ stray' \subseteq stray /\ \A d \in stray' : InProgress(d)'
      /\ \A d \in Calls : Current(d)' => Current(d)
  BY <1>1, <1>2, <1>3, SamePhase DEF Current
<1>5. NoCall \notin stray
  BY MaxMountsAssumption DEF NodeTypeOK
<1>6. watched' \in {watched, NoCall}
  BY <1>1, <1>2, Hearing
<1>7. watched' \notin stray'
  BY <1>4, <1>5, <1>6 DEF Discipline
<1>8. device' = "away" => watched' = NoCall /\ \A p \in Path : told'[p] = "no"
  <2>1. device = "away" => c # watched
    BY MaxMountsAssumption DEF Discipline
  <2>2. QED BY <1>1, <1>2, <1>6, <2>1, Hearing DEF Discipline
<1>9. ASSUME NEW d \in Calls, Current(d)'
      PROVE  InItsPhase(d)'
  <2>1. InItsPhase(d)
    BY <1>4, <1>9 DEF Discipline, InItsPhase
  <2>2. told \in [Path -> {"no", "maybe", "yes"}] /\ "staging" \in Path /\ "target" \in Path
    BY DEF NodeTypeOK, Path
  <2>3. Current(c) => InItsPhase(c)
    BY DEF Discipline
  <2>4. CASE UNCHANGED told
    BY <1>2, <2>1, <2>4 DEF InItsPhase
  <2>5. CASE rpc[c] = "stage" /\ Current(c) /\ told' = [told EXCEPT !["staging"] = "yes"]
    BY <1>2, <2>1, <2>2, <2>3, <2>5 DEF InItsPhase
  <2>6. CASE rpc[c] = "publish" /\ Current(c) /\ told' = [told EXCEPT !["target"] = "yes"]
    BY <1>2, <2>1, <2>2, <2>3, <2>6 DEF InItsPhase
  <2>7. CASE rpc[c] = "unstage" /\ Current(c) /\ told' = [told EXCEPT !["staging"] = "no"]
    BY <1>2, <2>1, <2>2, <2>3, <2>7 DEF InItsPhase
  <2>8. CASE rpc[c] = "unpublish" /\ Current(c) /\ told' = [told EXCEPT !["target"] = "no"]
    BY <1>2, <2>1, <2>2, <2>3, <2>8 DEF InItsPhase
  <2>9. QED BY <1>1, <1>2, <2>4, <2>5, <2>6, <2>7, <2>8, Hearing
<1>10. QED BY <1>3, <1>4, <1>7, <1>8, <1>9 DEF Discipline

\* A request is only sent when it fits those in progress.
LEMMA BeginKeepsOrder ==
  ASSUME Grounded, Discipline, NEW c \in Calls, Begins(c), History
  PROVE  Discipline'
<1> USE DEF Grounded
<1>1. /\ UNCHANGED <<device, phase>> /\ watched' = c /\ ~InProgress(c)
      /\ \A d \in Calls : d # c => UNCHANGED <<pc[d], reply[d]>>
      /\ pc'[c] = "GetVolume" /\ reply'[c] = "none"
  <2>1. pc \in [Calls -> {"idle"} \cup Step] /\ reply \in [Calls -> {"none", "OK", "ERR"}]
    BY DEF NodeTypeOK
  <2>2. QED BY <2>1, BeginEffect DEF Enter
<1>2. c \notin stray
  BY <1>1 DEF Discipline
<1>3. /\ stray' \subseteq stray /\ \A d \in stray' : InProgress(d)'
      /\ \A d \in Calls : d # c => (Current(d)' <=> Current(d))
  BY <1>1, <1>2, SamePhase DEF Current
<1>4. /\ told \in [Path -> {"no", "maybe", "yes"}] /\ "staging" \in Path /\ "target" \in Path
      /\ rpc \in [Calls -> Kinds]
  BY DEF NodeTypeOK, Path, Kinds
<1>5. device # "away"
  BY <1>4 DEF Begins, BeginStage, BeginPublish, BeginUnpublish, BeginUnstage, BeginExpand, Discipline
<1>6. ASSUME NEW d \in Calls, Current(d)'
      PROVE  InItsPhase(d)'
  <2>1. d # c => InItsPhase(d)
    BY <1>3, <1>6 DEF Discipline
  <2>2. CASE BeginStage(c)
    BY <1>1, <1>4, <2>1, <2>2 DEF BeginStage, Begin, Doubt, InItsPhase, Kinds
  <2>3. CASE BeginPublish(c)
    BY <1>1, <1>4, <2>1, <2>3 DEF BeginPublish, Begin, Doubt, InItsPhase, Kinds
  <2>4. CASE BeginUnpublish(c)
    BY <1>1, <1>4, <2>1, <2>4 DEF BeginUnpublish, Begin, Doubt, InItsPhase, Kinds
  <2>5. CASE BeginUnstage(c)
    BY <1>1, <1>4, <2>1, <2>5 DEF BeginUnstage, Begin, Doubt, InItsPhase, Kinds
  <2>6. CASE BeginExpand(c)
    BY <1>1, <1>4, <2>1, <2>6 DEF BeginExpand, Begin, InItsPhase, Kinds
  <2>7. QED BY <2>2, <2>3, <2>4, <2>5, <2>6 DEF Begins
<1>7. \A d \in Calls : InProgress(d)' => reply'[d] = "none"
  BY <1>1 DEF Discipline
<1>8. QED BY <1>1, <1>2, <1>3, <1>5, <1>6, <1>7 DEF Discipline

\* When the CO changes its mind every call in progress becomes stray.
LEMMA TurnKeepsOrder ==
  ASSUME Grounded, Discipline, Turn \/ Attach, History
  PROVE  Discipline'
<1> USE DEF Grounded
<1>1. UNCHANGED <<pc, reply, rpc, told, watched>> /\ watched = NoCall /\ device' # "away"
  BY DEF Turn, Attach, call, disk, Discipline
<1>2. NoCall \notin Calls
  BY MaxMountsAssumption
<1>3. CASE phase' # phase
  <2>1. stray' = {d \in Calls : InProgress(d)'}
    BY <1>3 DEF History
  <2>2. QED BY <1>1, <1>2, <2>1 DEF Discipline, Current
<1>4. CASE phase' = phase
  <2>1. \A d \in Calls : Current(d)' <=> Current(d)
    BY <1>1, <1>4, SamePhase DEF Current
  <2>2. stray' \subseteq stray /\ \A d \in stray' : InProgress(d)'
    BY <1>1, <1>4, SamePhase
  <2>3. \A d \in Calls : InItsPhase(d) => InItsPhase(d)'
    BY <1>1, <1>4 DEF InItsPhase
  <2>4. QED BY <1>1, <2>1, <2>2, <2>3 DEF Discipline
<1>5. QED BY <1>3, <1>4

\* Nor does anything else disturb the order.
LEMMA ElsewhereKeepsOrder ==
  ASSUME Grounded, Discipline, Elsewhere \/ Reboot, History
  PROVE  Discipline'
<1> USE DEF Grounded
<1>1. CASE Turn \/ Attach
  BY <1>1, TurnKeepsOrder
<1>2. CASE Crash \/ Reboot
  <2>1. /\ \A d \in Calls : ~InProgress(d)'
        /\ watched' = NoCall /\ UNCHANGED <<phase, device>>
        /\ \A p \in Path : told[p] = "no" => told'[p] = "no"
    BY <1>2 DEF Crash, Reboot, Down, disk
  <2>2. stray' = {}
    BY <2>1 DEF History, NodeTypeOK
  <2>3. QED BY <2>1, <2>2 DEF Discipline, Current
<1>3. CASE GiveUp \/ Detach \/ DeviceAppears \/ GrowDevice \/ PodWrites
  <2>1. /\ UNCHANGED <<pc, reply, rpc, told, phase>> /\ watched' \in {watched, NoCall}
        /\ device' = "away" =>
             watched' = NoCall /\ \A p \in Path : told[p] = "no"
    BY <1>3 DEF GiveUp, Detach, DeviceAppears, GrowDevice, PodWrites, call, co, disk, Discipline
  <2>2. /\ stray' \subseteq stray /\ \A d \in stray' : InProgress(d)'
        /\ \A d \in Calls : Current(d)' <=> Current(d)
    BY <2>1, SamePhase DEF Current
  <2>3. NoCall \notin stray
    BY MaxMountsAssumption DEF NodeTypeOK
  <2>4. \A d \in Calls : InItsPhase(d) => InItsPhase(d)'
    BY <2>1 DEF InItsPhase
  <2>5. QED BY <2>1, <2>2, <2>3, <2>4 DEF Discipline
<1>4. QED BY <1>1, <1>2, <1>3 DEF Elsewhere

----------------------------------------------------------------------------
(* Answers.                                                                *)

\* A step that does not return OK does not answer OK.
LEMMA Unanswered ==
  ASSUME Grounded, Discipline, NEW c \in Calls, InProgress(c),
         (\E l : Goto(c, l)) \/ NotYet(c) \/ Return(c, "ERR")
  PROVE  reply'[c] # "OK"
BY DEF Goto, NotYet, Return, Grounded, NodeTypeOK, Discipline

\* A stage call that answers OK sees the volume at the staging path, unless it is
\* that of a raw device or has seen it there before.
LEMMA StageAnswers ==
  ASSUME Grounded, Discipline, NEW c \in Calls, NodeStageVolume(c), reply'[c] = "OK"
  PROVE  \/ mode = "block"
         \/ pc[c] = "ResizeStaged" /\ fits' /\ UNCHANGED mounts
         \/ mode # "clone" /\ Shows("staging")' = "volume"
<1> USE DEF Grounded
<1>1. rpc[c] = "stage" /\ PathOf(c) = "staging" /\ "staging" \in Path /\ InProgress(c)
  BY DEF NodeStageVolume, PathOf, Path, GetVolume, FindDevice, CheckMount, Format, Mkfs,
         MountDevice, ResizeStaged
<1>2. ~(\E l : Goto(c, l)) /\ ~NotYet(c) /\ ~Return(c, "ERR")
  BY <1>1, Unanswered
<1>3. CASE GetVolume(c) \/ FindDevice(c) \/ Format(c) \/ Mkfs(c)
  BY <1>1, <1>2, <1>3 DEF GetVolume, FindDevice, Format, Mkfs, NothingToStage
<1>4. CASE CheckMount(c)
  <2>1. FoundMounted("staging") /\ mode # "clone" /\ UNCHANGED mounts
    BY <1>1, <1>2, <1>4 DEF CheckMount, Mounted, kernel
  <2>2. Shows("staging") = "volume"
    BY <1>1, <2>1, WhatIsSeen DEF FoundMounted, LikelyMounted, Source
  <2>3. QED BY <2>1, <2>2 DEF Shows, IsMounted
<1>5. CASE MountDevice(c)
  <2>1. Stack("staging", "volume") /\ mode # "clone"
    BY <1>1, <1>2, <1>5 DEF MountDevice, Mounted
  <2>2. Shows("staging")' = "volume"
    BY <1>1, <2>1, Stacked DEF Stack, Source
  <2>3. QED BY <2>1, <2>2
<1>6. CASE ResizeStaged(c)
  BY <1>2, <1>6 DEF ResizeStaged, EnlargeAt, kernel
<1>7. QED BY <1>3, <1>4, <1>5, <1>6 DEF NodeStageVolume

\* A publish call that answers OK sees the target mounted.
LEMMA PublishAnswers ==
  ASSUME Grounded, Discipline, NEW c \in Calls, reply'[c] = "OK",
         NodePublishVolume(c) \/ NodePublishVolumeForBlock(c)
  PROVE  IsMounted("target")'
<1> USE DEF Grounded
<1>1. rpc[c] = "publish" /\ PathOf(c) = "target" /\ InProgress(c)
  BY DEF NodePublishVolume, NodePublishVolumeForBlock, PathOf, GetVolume, FindDevice, CheckMount,
         Bind, Remount, MakeFile, BindDevice
<1>2. ~(\E l : Goto(c, l)) /\ ~NotYet(c) /\ ~Return(c, "ERR")
  BY <1>1, Unanswered
<1>3. (CheckMount(c) /\ FoundMounted("target")) \/ (Remount(c) /\ IsMounted("target"))
  BY <1>1, <1>2 DEF NodePublishVolume, NodePublishVolumeForBlock, GetVolume, FindDevice,
       CheckMount, Bind, Remount, MakeFile, BindDevice
<1>4. UNCHANGED mounts
  BY <1>1, <1>2, <1>3 DEF CheckMount, Remount, kernel
<1>5. IsMounted("target")
  BY <1>3 DEF FoundMounted, LikelyMounted, Shows
<1>6. QED BY <1>4, <1>5 DEF IsMounted

\* An unpublish or unstage call that answers OK sees nothing at its path.
LEMMA UnmountAnswers ==
  ASSUME Grounded, Discipline, NEW c \in Calls, reply'[c] = "OK", UNCHANGED rpc,
         NodeUnstageVolume(c) \/ NodeUnpublishVolume(c)
  PROVE  ~IsMounted(PathOf(c))'
<1> USE DEF Grounded
<1> DEFINE p == PathOf(c)
<1>1. GetVolume(c) \/ Cleanup(c, p, "return") \/ Umount(c, p) \/ RemovePath(c, p, "return")
  BY DEF NodeUnstageVolume, NodeUnpublishVolume, Unmount, UnmountPath
<1>2. InProgress(c) /\ p \in Path
  BY <1>1 DEF GetVolume, Cleanup, Umount, RemovePath, PathOf, Path
<1>3. ~(\E l : Goto(c, l)) /\ ~Return(c, "ERR")
  BY <1>2, Unanswered
<1>4. PathOf(c)' = p
  BY DEF PathOf
<1> HIDE DEF p
<1>5. UNCHANGED mounts /\ ~IsMounted(p)
  BY <1>1, <1>2, <1>3 DEF GetVolume, Cleanup, Umount, RemovePath, Remove, Unmounted, kernel, MountsHavePaths
<1>6. QED BY <1>4, <1>5 DEF IsMounted

----------------------------------------------------------------------------
(* The mounts are what the CO was told.                                    *)

\* Requests of a stage call that those of a raw device never reach.
StageSteps == {"CheckMount", "Format", "Mkfs", "MountDevice", "ResizeStaged"}

\* A raw device is not staged.
RawIsNotStaged ==
  mode = "block" =>
    /\ ~IsMounted("staging")
    /\ \A c \in Calls : rpc[c] = "stage" => pc[c] \notin StageSteps

\* While no stray call has interfered, the CO knows the mounts, nothing but the
\* volume is mounted, and a current stage call that is past its mount, or about to
\* format a disk on which there is something by now, finds a mount in place.
Truthful ==
  ~strayed =>
    /\ \A p \in Path : Pure(p)
    /\ \A p \in Path : told[p] = "no" => ~IsMounted(p)
    /\ told["target"] = "yes" => IsMounted("target")
    /\ told["staging"] = "yes" /\ mode # "block" => IsMounted("staging")
    /\ \A c \in Calls : Current(c) /\ rpc[c] = "stage" =>
         /\ pc[c] = "ResizeStaged" => IsMounted("staging")
         /\ pc[c] = "Mkfs" /\ data = "written" => \E p \in Path : IsMounted(p)

\* What a step of a handler does to the paths.
LEMMA MountFacts ==
  ASSUME Grounded, NEW c \in Calls, MovesMounts(c)
  PROVE  /\ \A p \in Path : IsMounted(p)' =>
              \/ IsMounted(p)
              \/ p = "staging" /\ StagesVolume(c)
              \/ p = "target" /\ (BindsVolume(c) \/ BindsDevice(c))
         /\ \A p \in Path : IsMounted(p) => IsMounted(p)' \/ (TakesAway(c) /\ p = PathOf(c))
         /\ StagesVolume(c) => IsMounted("staging")'
         /\ BindsVolume(c) \/ BindsDevice(c) => IsMounted("target")'
         /\ (\A p \in Path : Pure(p)) /\ (BindsVolume(c) => Shows("staging") = "volume")
              => \A p \in Path : Pure(p)'
<1> USE DEF Grounded
<1>1. "staging" \in Path /\ "target" \in Path /\ PathOf(c) \in Path /\ "volume" \in Source
  BY DEF Path, PathOf, Source
<1>2. \A p \in Path : mounts'[p] = mounts[p] => (IsMounted(p)' <=> IsMounted(p)) /\ (Pure(p)' <=> Pure(p))
  BY DEF IsMounted, Pure
<1>3. CASE UNCHANGED mounts
  BY <1>1, <1>2, <1>3, Stacked, WhatIsSeen DEF StagesVolume, BindsVolume, BindsDevice
<1>4. CASE StagesVolume(c)
  <2>1. IsMounted("staging")' /\ ~BindsVolume(c) /\ ~BindsDevice(c)
    BY <1>1, <1>4, Stacked DEF StagesVolume, BindsVolume, BindsDevice
  <2>2. \A p \in Path : p # "staging" => mounts'[p] = mounts[p]
    BY <1>1, <1>4, Stacked DEF StagesVolume
  <2>3. Pure("staging") => Pure("staging")'
    BY <1>1, <1>4, Stacked DEF StagesVolume
  <2>4. QED BY <1>2, <1>4, <2>1, <2>2, <2>3
<1>5. CASE BindsVolume(c) \/ BindsDevice(c)
  <2>1. PICK s \in Source :
          /\ mounts' = [mounts EXCEPT !["target"] = Append(@, s)]
          /\ (BindsVolume(c) => Shows("staging") = "volume") => s = "volume"
    BY <1>1, <1>5, WhatIsSeen DEF BindsVolume, BindsDevice
  <2>2. IsMounted("target")' /\ ~StagesVolume(c)
    BY <1>1, <1>5, <2>1, Stacked DEF StagesVolume, BindsVolume, BindsDevice
  <2>3. \A p \in Path : p # "target" => mounts'[p] = mounts[p]
    BY <1>1, <2>1, Stacked
  <2>4. s = "volume" /\ Pure("target") => Pure("target")'
    BY <1>1, <2>1, Stacked
  <2>5. QED BY <1>2, <1>5, <2>1, <2>2, <2>3, <2>4
<1>6. CASE TakesAway(c)
  <2>1. ~StagesVolume(c) /\ ~BindsVolume(c) /\ ~BindsDevice(c)
    BY <1>6 DEF TakesAway, StagesVolume, BindsVolume, BindsDevice
  <2>2. PICK p \in Path : /\ p = PathOf(c) /\ IsMounted(p)
                          /\ mounts' = [mounts EXCEPT ![p] = SubSeq(@, 1, Len(@) - 1)]
    BY <1>1, <1>6 DEF TakesAway
  <2>3. (\A q \in Path : q # p => mounts'[q] = mounts[q]) /\ (Pure(p) => Pure(p)')
    BY <2>2, Unstacked
  <2>4. QED BY <1>2, <1>6, <2>1, <2>2, <2>3
<1>7. QED BY <1>3, <1>4, <1>5, <1>6 DEF MovesMounts

\* A stage call gets to the check of the size when the volume is mounted, and to
\* mkfs when there is nothing on it.
LEMMA StageReaches ==
  ASSUME Grounded, NEW c \in Calls, NodeStageVolume(c)
  PROVE  /\ pc'[c] = "ResizeStaged" => IsMounted("staging")' /\ Shows("staging")' = "volume"
         /\ pc'[c] = "Mkfs" => data = "blank" /\ UNCHANGED data
<1> USE DEF Grounded
<1>1. PathOf(c) = "staging" /\ "staging" \in Path /\ InProgress(c) /\ rpc[c] = "stage"
  BY DEF NodeStageVolume, PathOf, Path, GetVolume, FindDevice, CheckMount, Format, Mkfs,
         MountDevice, ResizeStaged
<1>2. pc \in [Calls -> {"idle"} \cup Step]
  BY DEF NodeTypeOK
<1>3. CASE GetVolume(c) \/ FindDevice(c) \/ Format(c) \/ Mkfs(c) \/ ResizeStaged(c)
  <2>1. pc'[c] # "ResizeStaged"
    BY <1>1, <1>2, <1>3 DEF GetVolume, FindDevice, Format, Mkfs, ResizeStaged, EnlargeAt, NotYet, Goto, Return
  <2>2. pc'[c] = "Mkfs" => data = "blank" /\ UNCHANGED data
    BY <1>1, <1>2, <1>3 DEF GetVolume, FindDevice, Format, Mkfs, ResizeStaged, EnlargeAt, NotYet, Goto, Return,
         Blank, disk
  <2>3. QED BY <2>1, <2>2
<1>4. CASE CheckMount(c)
  <2>1. pc'[c] # "Mkfs"
    BY <1>1, <1>2, <1>4 DEF CheckMount, Mounted, Goto, Return
  <2>2. pc'[c] = "ResizeStaged" => FoundMounted("staging") /\ UNCHANGED mounts
    BY <1>1, <1>2, <1>4 DEF CheckMount, Goto, kernel
  <2>3. FoundMounted("staging") => Shows("staging") = "volume" /\ IsMounted("staging")
    BY <1>1, WhatIsSeen DEF FoundMounted, LikelyMounted, Source
  <2>4. QED BY <2>1, <2>2, <2>3 DEF Shows, IsMounted
<1>5. CASE MountDevice(c)
  <2>1. pc'[c] # "Mkfs"
    BY <1>1, <1>2, <1>5 DEF MountDevice, Mounted, Goto, Return
  <2>2. pc'[c] = "ResizeStaged" => Stack("staging", "volume")
    BY <1>1, <1>2, <1>5 DEF MountDevice, Return
  <2>3. Stack("staging", "volume") => Shows("staging")' = "volume" /\ IsMounted("staging")'
    BY <1>1, Stacked DEF Stack, Source
  <2>4. QED BY <2>1, <2>2, <2>3
<1>6. QED BY <1>3, <1>4, <1>5 DEF NodeStageVolume

\* No step stages a raw device.
LEMMA HandlerKeepsRaw ==
  ASSUME Grounded, RawIsNotStaged, NEW c \in Calls, NodeHandle(c)
  PROVE  RawIsNotStaged'
<1> USE DEF Grounded
<1>1. StepEffect(c) /\ UNCHANGED <<mode, rpc>>
  BY HandlerEffect DEF StepEffect
<1> SUFFICES ASSUME mode = "block" PROVE RawIsNotStaged'
  BY <1>1 DEF RawIsNotStaged
<1>2. ~IsMounted("staging")'
  BY <1>1, MountFacts DEF StepEffect, RawIsNotStaged, StagesVolume, StageSteps, Path
<1>3. \A d \in Calls : d # c => pc'[d] = pc[d]
  BY <1>1 DEF StepEffect, Advances, Return, NodeTypeOK
<1>4. rpc[c] = "stage" => pc'[c] \notin StageSteps
  <2> SUFFICES ASSUME rpc[c] = "stage" PROVE pc'[c] \notin StageSteps
    OBVIOUS
  <2>1. GetVolume(c) \/ FindDevice(c)
    BY DEF NodeHandle, NodeStageVolume, NodeUnstageVolume, NodePublishVolume, NodePublishVolumeForBlock,
           NodeUnpublishVolume, NodeExpandVolume, RawIsNotStaged, StageSteps, CheckMount, Format,
           Mkfs, MountDevice, ResizeStaged
  <2>2. pc \in [Calls -> {"idle"} \cup Step]
    BY DEF NodeTypeOK
  <2>3. QED BY <2>1, <2>2 DEF GetVolume, FindDevice, NothingToStage, NotYet, Goto, Return, StageSteps
<1>5. QED BY <1>1, <1>2, <1>3, <1>4 DEF RawIsNotStaged

\* A step of a stray call that changes nothing that is mounted or stored leaves the
\* CO's picture as it is.
LEMMA StrayKeepsTruth ==
  ASSUME Grounded, Discipline, Truthful, NEW c \in Calls, NodeHandle(c), c \in stray
  PROVE  Truthful'
<1> USE DEF Grounded
<1> SUFFICES ASSUME ~strayed' PROVE Truthful'
  BY DEF Truthful
<1>1. StepEffect(c) /\ Hear(c) /\ Traces(c) /\ History
  BY HandlerEffect DEF NodeHandle
<1>2. ~strayed /\ UNCHANGED <<mounts, data>>
  BY <1>1 DEF Traces
<1>3. c # watched /\ UNCHANGED <<mode, rpc, phase>>
  BY <1>1 DEF Discipline, StepEffect
<1>4. UNCHANGED told
  BY <1>1, <1>3 DEF Hear
<1>5. \A d \in Calls : d # c => pc'[d] = pc[d]
  BY <1>1 DEF StepEffect, Advances, Return, NodeTypeOK
<1>6. \A d \in Calls : InProgress(d)' => InProgress(d)
  BY <1>1, <1>5 DEF StepEffect, Advances
<1>7. \A d \in Calls : Current(d)' => Current(d) /\ d # c
  BY <1>1, <1>3, <1>6, SamePhase DEF Current
<1>8. QED BY <1>2, <1>3, <1>4, <1>5, <1>7 DEF Truthful, IsMounted, Pure

\* The CO is told the truth about the step of a current call.
LEMMA CurrentKeepsTold ==
  ASSUME Grounded, Discipline, Truthful, ~strayed, NEW c \in Calls, NodeHandle(c), Current(c)
  PROVE  /\ \A p \in Path : Pure(p)'
         /\ \A p \in Path : told'[p] = "no" => ~IsMounted(p)'
         /\ told'["target"] = "yes" => IsMounted("target")'
         /\ told'["staging"] = "yes" /\ mode # "block" => IsMounted("staging")'
<1> USE DEF Grounded
<1>1. StepEffect(c) /\ Hear(c) /\ UNCHANGED <<mode, rpc, phase>>
  BY HandlerEffect DEF NodeHandle
<1>2. InItsPhase(c) /\ InProgress(c) /\ MovesMounts(c)
  BY <1>1 DEF Discipline, StepEffect, Current
<1>3. /\ told \in [Path -> {"no", "maybe", "yes"}] /\ "staging" \in Path /\ "target" \in Path
      /\ PathOf(c) = IF rpc[c] \in {"stage", "unstage"} THEN "staging" ELSE "target"
  BY DEF NodeTypeOK, Path, PathOf
<1>4. \A p \in Path : Pure(p)'
  <2>1. BindsVolume(c) => Shows("staging") = "volume"
    BY <1>2, <1>3, WhatIsSeen DEF BindsVolume, InItsPhase, Truthful
  <2>2. QED BY <1>2, <2>1, MountFacts DEF Truthful
<1>5. \A p \in Path : told[p] = "no" => ~IsMounted(p)'
  BY <1>2, MountFacts DEF Truthful, InItsPhase, StagesVolume, BindsVolume, BindsDevice
<1>6. told["target"] = "yes" => IsMounted("target")'
  BY <1>2, <1>3, MountFacts DEF Truthful, InItsPhase, TakesAway
<1>7. told["staging"] = "yes" /\ mode # "block" => IsMounted("staging")'
  BY <1>2, <1>3, MountFacts DEF Truthful, InItsPhase, TakesAway
<1>8. CASE UNCHANGED told
  BY <1>4, <1>5, <1>6, <1>7, <1>8
<1>9. ASSUME reply'[c] = "OK", rpc[c] = "stage", told' = [told EXCEPT !["staging"] = "yes"],
             mode # "block"
      PROVE  IsMounted("staging")'
  <2>1. NodeStageVolume(c)
    BY <1>9 DEF NodeHandle, NodeStageVolume, NodeUnstageVolume, NodePublishVolume, NodePublishVolumeForBlock,
           NodeUnpublishVolume, NodeExpandVolume
  <2>2. (pc[c] = "ResizeStaged" /\ UNCHANGED mounts) \/ Shows("staging")' = "volume"
    BY <1>9, <2>1, StageAnswers
  <2>3. CASE pc[c] = "ResizeStaged" /\ UNCHANGED mounts
    BY <1>9, <2>3 DEF Truthful, IsMounted
  <2>4. CASE Shows("staging")' = "volume"
    BY <2>4 DEF Shows
  <2>5. QED BY <2>2, <2>3, <2>4
<1>10. ASSUME reply'[c] = "OK", rpc[c] = "publish" PROVE IsMounted("target")'
  BY <1>10, PublishAnswers
     DEF NodeHandle, NodeStageVolume, NodeUnstageVolume, NodePublishVolume, NodePublishVolumeForBlock,
         NodeUnpublishVolume, NodeExpandVolume
<1>11. ASSUME reply'[c] = "OK", rpc[c] \in {"unpublish", "unstage"} PROVE ~IsMounted(PathOf(c))'
  BY <1>1, <1>11, UnmountAnswers
     DEF NodeHandle, NodeStageVolume, NodeUnstageVolume, NodePublishVolume, NodePublishVolumeForBlock,
         NodeUnpublishVolume, NodeExpandVolume
<1>12. PathOf(c)' = PathOf(c)
  BY <1>1 DEF PathOf
<1>13. CASE rpc[c] = "stage" /\ reply'[c] = "OK" /\ told' = [told EXCEPT !["staging"] = "yes"]
  BY <1>3, <1>4, <1>5, <1>6, <1>9, <1>13
<1>14. CASE rpc[c] = "publish" /\ reply'[c] = "OK" /\ told' = [told EXCEPT !["target"] = "yes"]
  BY <1>3, <1>4, <1>5, <1>7, <1>10, <1>14
<1>15. CASE rpc[c] = "unstage" /\ reply'[c] = "OK" /\ told' = [told EXCEPT !["staging"] = "no"]
  <2>1. mounts'["staging"] = <<>>
    BY <1>3, <1>11, <1>12, <1>15 DEF IsMounted
  <2>2. QED BY <1>3, <1>4, <1>5, <1>6, <1>15, <2>1 DEF IsMounted
<1>16. CASE rpc[c] = "unpublish" /\ reply'[c] = "OK" /\ told' = [told EXCEPT !["target"] = "no"]
  <2>1. mounts'["target"] = <<>>
    BY <1>3, <1>11, <1>12, <1>16 DEF IsMounted
  <2>2. QED BY <1>3, <1>4, <1>5, <1>7, <1>16, <2>1 DEF IsMounted
<1>17. QED BY <1>1, <1>2, <1>8, <1>13, <1>14, <1>15, <1>16, Hearing

\* Nor does it pull a mount from under a current stage call.
LEMMA CurrentKeepsStages ==
  ASSUME Grounded, Discipline, Truthful, ~strayed, NEW c \in Calls, NodeHandle(c), Current(c),
         NEW d \in Calls, Current(d)', rpc[d] = "stage"
  PROVE  /\ pc'[d] = "ResizeStaged" => IsMounted("staging")'
         /\ pc'[d] = "Mkfs" /\ data' = "written" => \E p \in Path : IsMounted(p)'
<1> USE DEF Grounded
<1>1. StepEffect(c) /\ History /\ UNCHANGED <<mode, rpc, phase>>
  BY HandlerEffect DEF NodeHandle
<1>2. CASE d = c
  <2>1. NodeStageVolume(c)
    BY <1>2 DEF NodeHandle, NodeStageVolume, NodeUnstageVolume, NodePublishVolume, NodePublishVolumeForBlock,
           NodeUnpublishVolume, NodeExpandVolume
  <2>2. QED BY <1>2, <2>1, StageReaches
<1>3. CASE d # c
  <2>1. pc'[d] = pc[d]
    BY <1>1, <1>3 DEF StepEffect, Advances, Return, NodeTypeOK
  <2>2. \A e \in Calls : InProgress(e)' => InProgress(e)
    BY <1>1 DEF StepEffect, Advances, Return, NodeTypeOK
  <2>3. Current(d)
    BY <1>1, <2>2, SamePhase DEF Current
  <2>4. ~TakesAway(c)
    BY <2>3 DEF Discipline, InItsPhase, TakesAway
  <2>5. \A p \in Path : IsMounted(p) => IsMounted(p)'
    BY <1>1, <2>4, MountFacts DEF StepEffect
  <2>6. data' = "written" => data = "written"
    BY <1>1 DEF StepEffect, MovesData
  <2>7. "staging" \in Path
    BY DEF Path
  <2>8. QED BY <2>1, <2>3, <2>5, <2>6, <2>7 DEF Truthful
<1>4. QED BY <1>2, <1>3

\* So every step of a handler leaves the CO's picture true.
LEMMA HandlerKeepsTruth ==
  ASSUME Grounded, Discipline, Truthful, NEW c \in Calls, NodeHandle(c)
  PROVE  Truthful'
<1>1. CASE c \in stray
  BY <1>1, StrayKeepsTruth
<1>2. CASE c \notin stray
  <2>1. Traces(c) /\ UNCHANGED <<mode, rpc>>
    BY DEF NodeHandle
  <2>2. strayed' = strayed
    BY <1>2, <2>1 DEF Traces, Grounded, NodeTypeOK
  <2>3. Current(c)
    BY <1>2, HandlerEffect DEF Current, StepEffect, Advances, Grounded
  <2> SUFFICES ASSUME ~strayed PROVE Truthful'
    BY <2>2 DEF Truthful
  <2>4. QED BY <1>2, <2>1, <2>3, CurrentKeepsTold, CurrentKeepsStages DEF Truthful
<1>3. QED BY <1>1, <1>2

\* A new call has done nothing yet.
LEMMA BeginKeepsTruth ==
  ASSUME Grounded, Discipline, RawIsNotStaged, Truthful, NEW c \in Calls, Begins(c), Quiet, History
  PROVE  RawIsNotStaged' /\ Truthful'
<1> USE DEF Grounded
<1>1. /\ UNCHANGED <<mounts, mode, data, phase, strayed>> /\ ~InProgress(c)
      /\ \A d \in Calls : d # c => UNCHANGED <<pc[d], rpc[d]>>
      /\ pc'[c] = "GetVolume"
  <2>1. pc \in [Calls -> {"idle"} \cup Step] /\ rpc \in [Calls -> Kinds]
    BY DEF NodeTypeOK, Kinds
  <2>2. QED BY <2>1, BeginEffect DEF Enter, Quiet
<1>2. \A p \in Path : told'[p] # "maybe" => told'[p] = told[p]
  <2>1. told \in [Path -> {"no", "maybe", "yes"}]
    BY DEF NodeTypeOK
  <2>2. UNCHANGED told \/ \E p \in Path : told' = [told EXCEPT ![p] = "maybe"]
    BY DEF Begins, BeginStage, BeginPublish, BeginUnpublish, BeginUnstage, BeginExpand, Doubt, Path
  <2>3. QED BY <2>1, <2>2
<1>3. \A d \in Calls : d # c /\ Current(d)' => Current(d)
  <2>1. c \notin stray
    BY <1>1 DEF Discipline
  <2>2. QED BY <1>1, <2>1, SamePhase DEF Current
<1>4. RawIsNotStaged'
  BY <1>1 DEF RawIsNotStaged, IsMounted, StageSteps
<1>5. "staging" \in Path /\ "target" \in Path
  BY DEF Path
<1>6. Truthful'
  BY <1>1, <1>2, <1>3, <1>5 DEF Truthful, IsMounted, Pure
<1>7. QED BY <1>4, <1>6

\* What happens apart from calls moves no mount: the pod writes where the volume is.
LEMMA ElsewhereKeepsTruth ==
  ASSUME Grounded, Discipline, RawIsNotStaged, Truthful, Elsewhere, Quiet, History
  PROVE  RawIsNotStaged' /\ Truthful'
<1> USE DEF Grounded
<1>1. /\ UNCHANGED <<mounts, mode, rpc, told, strayed>>
      /\ \A d \in Calls : InProgress(d)' => InProgress(d) /\ pc'[d] = pc[d]
      /\ \A d \in Calls : pc'[d] \in {pc[d], "idle"}
  BY DEF Elsewhere, GiveUp, Turn, Attach, Detach, DeviceAppears, GrowDevice, PodWrites, Crash,
       Down, kernel, co, call, Quiet
<1>2. \A d \in Calls : Current(d)' => Current(d)
  <2>1. CASE phase' = phase
    BY <1>1, <2>1, SamePhase DEF Current
  <2>2. CASE phase' # phase
    BY <2>2 DEF History, Current
  <2>3. QED BY <2>1, <2>2
<1>3. data' = "written" => data = "written" \/ IsMounted("target")
  BY DEF Elsewhere, GiveUp, Turn, Attach, Detach, DeviceAppears, GrowDevice, PodWrites, Crash,
       Down, disk, Shows
<1>4. RawIsNotStaged'
  BY <1>1 DEF RawIsNotStaged, IsMounted, StageSteps
<1>5. \A p \in Path : IsMounted(p)' <=> IsMounted(p)
  BY <1>1 DEF IsMounted
<1>6. \A p \in Path : Pure(p)' <=> Pure(p)
  BY <1>1 DEF Pure
<1>7. "staging" \in Path /\ "target" \in Path
  BY DEF Path
<1>8. Truthful'
  BY <1>1, <1>2, <1>3, <1>5, <1>6, <1>7 DEF Truthful, Current
<1>9. QED BY <1>4, <1>8

\* With the node its mounts go, and the CO knows.
LEMMA RebootKeepsTruth ==
  ASSUME Grounded, RawIsNotStaged, Truthful, Reboot
  PROVE  RawIsNotStaged' /\ Truthful'
<1> USE DEF Grounded
<1>1. /\ mounts' = [p \in Path |-> <<>>] /\ UNCHANGED <<mode, rpc>>
      /\ \A d \in Calls : pc'[d] = "idle"
      /\ \A p \in Path : told'[p] # "yes"
  BY DEF Reboot, Down
<1>2. \A p \in Path : ~IsMounted(p)' /\ Pure(p)'
  BY <1>1 DEF IsMounted, Pure
<1>3. "staging" \in Path /\ "target" \in Path
  BY DEF Path
<1>4. RawIsNotStaged'
  BY <1>1, <1>2, <1>3 DEF RawIsNotStaged, StageSteps
<1>5. Truthful'
  BY <1>1, <1>2, <1>3 DEF Truthful, Current
<1>6. QED BY <1>4, <1>5

\* The inductive invariant: the types, the order of the CO's requests and the truth
\* of what it was told.
NodeInv == Grounded /\ Discipline /\ RawIsNotStaged /\ Truthful

\* Every step keeps the invariant: the handler's, the CO's and the node's in turn.
LEMMA InvStep ==
  ASSUME NodeInv, [NodeNext]_nodeVars
  PROVE  NodeInv'
<1> USE DEF NodeInv
<1>1. Grounded'
  <2>1. CASE UNCHANGED nodeVars
    BY <2>1 DEF nodeVars, Grounded, NodeTypeOK, MountsHavePaths, IsMounted
  <2>2. QED BY <2>1, WhoSteps, HandlerTyping, BeginTyping, ElsewhereTyping, RebootTyping DEF Grounded
<1>2. CASE UNCHANGED nodeVars
  <2>1. Discipline'
    BY <1>2 DEF nodeVars, Discipline, Current, InItsPhase
  <2>2. RawIsNotStaged'
    BY <1>2 DEF nodeVars, RawIsNotStaged, IsMounted
  <2>3. Truthful'
    BY <1>2 DEF nodeVars, Truthful, IsMounted, Pure, Current
  <2>4. QED BY <1>1, <2>1, <2>2, <2>3
<1>3. ASSUME NEW c \in Calls, NodeHandle(c) PROVE NodeInv'
  BY <1>1, <1>3, HandlerKeepsOrder, HandlerKeepsRaw, HandlerKeepsTruth
<1>4. ASSUME NEW c \in Calls, Begins(c), Quiet, History PROVE NodeInv'
  BY <1>1, <1>4, BeginKeepsOrder, BeginKeepsTruth
<1>5. CASE Elsewhere /\ Quiet /\ History
  BY <1>1, <1>5, ElsewhereKeepsOrder, ElsewhereKeepsTruth
<1>6. CASE Reboot /\ Quiet /\ History
  BY <1>1, <1>6, ElsewhereKeepsOrder, RebootKeepsTruth
<1>7. QED BY <1>2, <1>3, <1>4, <1>5, <1>6, WhoSteps

\* It holds while nothing is mounted and no call is in progress.
LEMMA InvInit ==
  ASSUME NodeInit
  PROVE  NodeInv
<1>1. mounts = [p \in Path |-> <<>>] /\ mounts \in [Path -> Seq({"volume", "dir"})]
  BY DEF NodeInit, NoMounts
<1>2. polls \in [Calls -> 0 .. MaxPolls - 1]
  BY MaxPollsAssumption DEF NodeInit, NoCalls
<1>3. Grounded
  BY <1>1, <1>2 DEF NodeInit, NoMounts, NoCalls, Grounded, NodeTypeOK, MountsHavePaths, IsMounted
<1>4. \A p \in Path : ~IsMounted(p) /\ Pure(p)
  BY <1>1 DEF IsMounted, Pure
<1>5. \A c \in Calls : pc[c] = "idle"
  BY DEF NodeInit, NoCalls
<1>6. Discipline
  BY <1>5 DEF NodeInit, Discipline, Current
<1>7. RawIsNotStaged
  BY <1>4, <1>5 DEF RawIsNotStaged, StageSteps, Path
<1>8. Truthful
  BY <1>4, <1>5 DEF Truthful, Current, NodeInit, Path
<1>9. QED BY <1>3, <1>6, <1>7, <1>8 DEF NodeInv

\* So it holds in every state.
LEMMA Invariance == NodeSpec => []NodeInv
BY InvInit, InvStep, PTL DEF NodeSpec

\* Every variable of the EVS node server stays in its range.
THEOREM TypeCorrect == NodeSpec => []NodeTypeOK
BY Invariance, PTL DEF NodeInv, Grounded

\* The pod whose target was reported published sees the volume there, as long as no
\* call the CO turned its back on interfered.
THEOREM PodSeesVolume == NodeSpec => []PublishedIsVolume
<1>1. NodeInv => PublishedIsVolume
  BY WhatIsSeen DEF NodeInv, Grounded, Truthful, PublishedIsVolume, Path
<1>2. QED BY <1>1, Invariance, PTL

\* What is detached is mounted nowhere.
THEOREM DetachedIsUnused == NodeSpec => []NothingMountedWhenDetached
<1>1. NodeInv => NothingMountedWhenDetached
  <2> SUFFICES ASSUME NodeInv, ~strayed, device = "away" PROVE ~InUse
    BY DEF NothingMountedWhenDetached
  <2>1. \A p \in Path : ~IsMounted(p)
    BY DEF NodeInv, Discipline, Truthful
  <2>2. \A p \in Path : mounts[p] = <<>>
    BY <2>1 DEF IsMounted
  <2>3. QED BY <2>2 DEF InUse
<1>2. QED BY <1>1, Invariance, PTL

----------------------------------------------------------------------------
(* The mounts stacked upon the target.                                     *)

\* The calls about to bind.
Binding == {c \in Calls : pc[c] = "Bind"}

\* Sets of calls are finite.
LEMMA CountingCalls ==
  /\ Cardinality(Calls) \in Nat
  /\ \A S \in SUBSET Calls :
       IsFiniteSet(S) /\ Cardinality(S) \in Nat /\ Cardinality(S) <= Cardinality(Calls)
<1>1. \A S \in SUBSET Calls : IsFiniteSet(S) /\ Cardinality(S) <= Cardinality(Calls)
  BY FS_Subset, CallsAssumption
<1>2. QED BY <1>1, FS_CardinalityType, CallsAssumption

\* A step that adds neither a mount nor a call about to bind keeps the bound.
LEMMA NothingStacked ==
  ASSUME NodeInv, StacksBounded, ~strayed, UNCHANGED mode, Binding' \subseteq Binding,
         Len(mounts'["target"]) \in Nat, Len(mounts'["target"]) <= Len(mounts["target"])
  PROVE  StacksBounded'
<1>1. Binding \in SUBSET Calls /\ Binding' \in SUBSET Calls
  BY DEF Binding
<1>2. Cardinality(Binding') <= Cardinality(Binding)
  BY <1>1, CountingCalls, FS_Subset
<1>3. Len(mounts["target"]) \in Nat
  BY WhatIsSeen DEF NodeInv, Grounded, Path
<1>4. /\ Cardinality(Binding) \in Nat /\ Cardinality(Binding') \in Nat
      /\ Cardinality(Calls) \in Nat
  BY <1>1, CountingCalls
<1>5. QED BY <1>2, <1>3, <1>4 DEF StacksBounded, Binding

\* A call sets out to bind only when nothing is mounted: there is room for all.
LEMMA CheckKeepsBound ==
  ASSUME NodeInv, StacksBounded, ~strayed, NEW c \in Calls, CheckMount(c), UNCHANGED mode,
         rpc[c] \in {"stage", "publish"}
  PROVE  StacksBounded'
<1> USE DEF NodeInv, Grounded
<1>1. UNCHANGED mounts
  BY DEF CheckMount, kernel, MakePath
<1>2. CASE pc'[c] = "Bind"
  <2>1. PathOf(c) = "target" /\ ~FoundMounted("target")
    BY <1>2 DEF CheckMount, Mounted, Goto, Return, PathOf, NodeTypeOK
  <2>2. "target" \in Path
    BY DEF Path
  <2>3. Len(mounts["target"]) = 0
    BY <2>1, <2>2, WhatIsSeen DEF FoundMounted, LikelyMounted, Truthful, MountsHavePaths
  <2>4. Binding' \in SUBSET Calls
    BY DEF Binding
  <2>5. Cardinality(Binding') \in Nat /\ Cardinality(Binding') <= Cardinality(Calls)
    BY <2>4, CountingCalls
  <2>6. Len(mounts'["target"]) = 0
    BY <1>1, <2>3
  <2>7. 0 + Cardinality(Binding') <= Cardinality(Calls)
    BY <2>5, CountingCalls
  <2>8. QED BY <2>6, <2>7 DEF StacksBounded, Binding
<1>3. CASE pc'[c] # "Bind"
  <2>1. \A d \in Calls : d # c => pc'[d] = pc[d]
    BY DEF CheckMount, Mounted, Goto, Return, NodeTypeOK
  <2>2. Binding' \subseteq Binding
    BY <1>3, <2>1 DEF Binding
  <2>3. Len(mounts["target"]) \in Nat
    BY WhatIsSeen DEF Path
  <2>4. QED BY <1>1, <2>2, <2>3, NothingStacked
<1>4. QED BY <1>2, <1>3

\* Binding takes one call off those about to bind.
LEMMA BindKeepsBound ==
  ASSUME NodeInv, StacksBounded, ~strayed, NEW c \in Calls, Bind(c), UNCHANGED mode
  PROVE  StacksBounded'
<1> USE DEF NodeInv, Grounded
<1>1. c \in Binding /\ Binding' = Binding \ {c}
  BY DEF Bind, Binding, Goto, Return, NodeTypeOK
<1>2. Binding \in SUBSET Calls /\ Binding' \in SUBSET Calls
  BY DEF Binding
<1>3. Cardinality(Binding') = Cardinality(Binding) - 1
  BY <1>1, <1>2, CountingCalls, FS_RemoveElement
<1>4. Len(mounts["target"]) \in Nat /\ "target" \in Path /\ Shows("staging") \in Source
  BY WhatIsSeen DEF Path
<1>5. Len(mounts'["target"]) \in {Len(mounts["target"]), Len(mounts["target"]) + 1}
  BY <1>4, Stacked DEF Bind, Stack, kernel
<1>6. /\ Cardinality(Binding) \in Nat /\ Cardinality(Binding') \in Nat
      /\ Cardinality(Calls) \in Nat
  BY <1>2, CountingCalls
<1>7. QED BY <1>3, <1>4, <1>5, <1>6 DEF StacksBounded, Binding

\* Every other step of a handler adds nothing.
LEMMA HandlerKeepsBound ==
  ASSUME NodeInv, NodeInv', StacksBounded, NEW c \in Calls, NodeHandle(c)
  PROVE  StacksBounded'
<1> USE DEF NodeInv, Grounded
<1>1. StepEffect(c) /\ Traces(c) /\ UNCHANGED <<mode, rpc>>
  BY HandlerEffect DEF NodeHandle
<1> SUFFICES ASSUME ~strayed, mode # "block" PROVE StacksBounded'
  BY <1>1 DEF Traces, StacksBounded
<1>2. CASE CheckMount(c)
  <2>1. rpc[c] \in {"stage", "publish"}
    BY <1>2 DEF NodeHandle, NodeStageVolume, NodeUnstageVolume, NodePublishVolume, NodePublishVolumeForBlock,
         NodeUnpublishVolume, NodeExpandVolume, CheckMount, GetVolume, Unmount, UnmountPath, Cleanup,
         Umount, RemovePath, FindMountFs, ResizeMounted, ResizeOther
  <2>2. QED BY <1>1, <1>2, <2>1, CheckKeepsBound
<1>3. CASE Bind(c)
  BY <1>1, <1>3, BindKeepsBound
<1>4. CASE ~CheckMount(c) /\ ~Bind(c)
  <2>1. \A d \in Calls : d # c => pc'[d] = pc[d]
    BY <1>1 DEF StepEffect, Advances, Return, NodeTypeOK
  <2>2. pc \in [Calls -> {"idle"} \cup Step]
    BY DEF NodeTypeOK
  <2>3. pc'[c] # "Bind"
    <3>1. CASE GetVolume(c) \/ FindDevice(c) \/ Format(c) \/ Mkfs(c) \/ MountDevice(c) \/ ResizeStaged(c)
      BY <2>2, <3>1 DEF GetVolume, FindDevice, Format, Mkfs, MountDevice, Mounted, ResizeStaged, EnlargeAt,
           NotYet, Goto, Return
    <3>2. CASE Remount(c) \/ FindMountFs(c) \/ ResizeMounted(c) \/ ResizeOther(c)
      BY <2>2, <3>2 DEF Remount, FindMountFs, ResizeMounted, EnlargeAt, ResizeOther, Goto, Return
    <3>3. CASE Unmount(c)
      BY <2>2, <3>3 DEF Unmount, UnmountPath, Cleanup, Umount, RemovePath, Proceed, Goto, Return
    <3>4. QED BY <1>4, <3>1, <3>2, <3>3
            DEF NodeHandle, NodeStageVolume, NodeUnstageVolume, NodePublishVolume, NodePublishVolumeForBlock,
                NodeUnpublishVolume, NodeExpandVolume
  <2>4. Binding' \subseteq Binding
    BY <2>1, <2>3 DEF Binding
  <2>5. Len(mounts["target"]) \in Nat /\ Len(mounts'["target"]) \in Nat
    BY WhatIsSeen DEF Path, NodeTypeOK
  <2>6. Len(mounts'["target"]) <= Len(mounts["target"])
    <3>1. UNCHANGED mounts \/ StagesVolume(c) \/ TakesAway(c)
      <4>1. ~BindsDevice(c)
        BY DEF BindsDevice
      <4>2. BindsVolume(c) => UNCHANGED mounts
        BY <1>4 DEF BindsVolume, NodeHandle, NodeStageVolume, NodeUnstageVolume, NodePublishVolume,
             NodePublishVolumeForBlock, NodeUnpublishVolume, NodeExpandVolume, GetVolume, CheckMount, Remount
      <4>3. QED BY <1>1, <4>1, <4>2 DEF StepEffect, MovesMounts
    <3>2. "staging" \in Path /\ "target" \in Path /\ PathOf(c) \in Path /\ "volume" \in Source
      BY DEF Path, PathOf, Source
    <3>3. CASE UNCHANGED mounts
      BY <2>5, <3>3
    <3>4. CASE StagesVolume(c)
      BY <2>5, <3>2, <3>4, Stacked DEF StagesVolume
    <3>5. CASE TakesAway(c)
      <4>1. Len(mounts'[PathOf(c)]) = Len(mounts[PathOf(c)]) - 1
        BY <3>2, <3>5, Unstacked DEF TakesAway
      <4>2. PathOf(c) # "target" => mounts'["target"] = mounts["target"]
        BY <3>2, <3>5, Unstacked DEF TakesAway
      <4>3. QED BY <2>5, <4>1, <4>2
    <3>6. QED BY <3>1, <3>3, <3>4, <3>5
  <2>7. QED BY <1>1, <2>4, <2>5, <2>6, NothingStacked
<1>5. QED BY <1>2, <1>3, <1>4

\* However often a publish call is repeated, no more mounts are stacked upon the
\* target than calls can run side by side.
THEOREM StacksStayBounded == NodeSpec => []StacksBounded
<1>1. NodeInit => StacksBounded
  <2> SUFFICES ASSUME NodeInit PROVE StacksBounded
    OBVIOUS
  <2>1. Len(mounts["target"]) = 0
    BY DEF NodeInit, NoMounts, Path
  <2>2. Binding \in SUBSET Calls
    BY DEF Binding
  <2>3. 0 + Cardinality(Binding) <= Cardinality(Calls)
    BY <2>2, CountingCalls
  <2>4. QED BY <2>1, <2>3 DEF StacksBounded, Binding
<1>2. NodeInv /\ NodeInv' /\ StacksBounded /\ [NodeNext]_nodeVars => StacksBounded'
  <2> SUFFICES ASSUME NodeInv, NodeInv', StacksBounded, [NodeNext]_nodeVars PROVE StacksBounded'
    OBVIOUS
  <2> USE DEF NodeInv, Grounded
  <2>1. ASSUME NEW c \in Calls, NodeHandle(c) PROVE StacksBounded'
    BY <2>1, HandlerKeepsBound
  <2>2. Len(mounts["target"]) \in Nat
    BY WhatIsSeen DEF Path
  <2>3. ASSUME UNCHANGED <<mounts, mode, strayed>>, Binding' \subseteq Binding PROVE StacksBounded'
    BY <2>2, <2>3, NothingStacked DEF StacksBounded
  <2>4. ASSUME NEW c \in Calls, Begins(c), Quiet PROVE StacksBounded'
    BY <2>3, <2>4, BeginEffect DEF Binding, Enter, Quiet, NodeTypeOK
  <2>5. CASE Elsewhere /\ Quiet
    BY <2>3, <2>5 DEF Elsewhere, GiveUp, Turn, Attach, Detach, DeviceAppears, GrowDevice, PodWrites, Crash,
         Down, kernel, co, call, Quiet, Binding
  <2>6. CASE Reboot /\ Quiet
    <3>1. Len(mounts'["target"]) = 0 /\ Binding' = {} /\ UNCHANGED <<mode, strayed>>
      BY <2>6 DEF Reboot, Down, Quiet, Binding, Path
    <3>2. QED BY <2>2, <3>1, NothingStacked DEF StacksBounded
  <2>7. CASE UNCHANGED nodeVars
    BY <2>3, <2>7 DEF nodeVars, Binding
  <2>8. QED BY <2>1, <2>4, <2>5, <2>6, <2>7, WhoSteps
<1>3. QED BY <1>1, <1>2, Invariance, PTL DEF NodeSpec

----------------------------------------------------------------------------
(* What an answer says was seen.                                           *)

\* What the call has seen on its way, and what its answer stands for.
Honest(c) ==
  /\ pc[c] = "ResizeStaged" => "promise" \in witness[c]
  /\ pc[c] = "ResizeOther" /\ mode # "block" => "stray" \in witness[c]
  /\ \/ NodeAnswered(c, "stage") /\ mode # "block"
     \/ \E k \in {"publish", "unpublish", "unstage"} : NodeAnswered(c, k)
     => "promise" \in witness[c]
  /\ NodeAnswered(c, "stage") /\ mode = "clone" => "fits" \in witness[c]
  /\ NodeAnswered(c, "expand") /\ mode # "block" /\ "stray" \notin witness[c]
       => "promise" \in witness[c]

\* A call that goes on, or answers OK, has seen what is true now as well.
LEMMA Witnessed ==
  ASSUME NodeInv, History, NEW c \in Calls, InProgress(c), reply'[c] # "ERR"
  PROVE  witness'[c] = witness[c] \cup Facts(c)'
BY DEF History

\* A call that does nothing, or ends without an answer, is as honest as before.
LEMMA StaysHonest ==
  ASSUME NodeInv, History, NEW c \in Calls, Honest(c), rpc'[c] = rpc[c], UNCHANGED mode,
         \/ pc'[c] = pc[c] /\ reply'[c] = reply[c]
         \/ pc'[c] = "idle" /\ reply'[c] # "OK"
  PROVE  Honest(c)'
<1>1. CASE pc'[c] = "idle" /\ reply'[c] # "OK"
  BY <1>1 DEF Honest, NodeAnswered
<1>2. CASE pc'[c] = pc[c] /\ reply'[c] = reply[c] /\ InProgress(c)
  <2>1. reply'[c] = "none"
    BY <1>2 DEF NodeInv, Discipline
  <2>2. witness[c] \subseteq witness'[c]
    BY <1>2, <2>1, Witnessed
  <2>3. QED BY <1>2, <2>1, <2>2 DEF Honest, NodeAnswered
<1>3. CASE pc'[c] = pc[c] /\ reply'[c] = "OK" /\ reply[c] = "OK" /\ ~InProgress(c)
  <2>1. witness'[c] = witness[c]
    BY <1>3 DEF History
  <2>2. QED BY <1>3, <2>1 DEF Honest, NodeAnswered
<1>4. QED BY <1>1, <1>2, <1>3

\* A call that takes a step becomes no liar.
LEMMA StepIsHonest ==
  ASSUME NodeInv, NEW c \in Calls, Honest(c), NodeHandle(c)
  PROVE  Honest(c)'
<1> USE DEF NodeInv, Grounded
<1>1. StepEffect(c) /\ History /\ Traces(c) /\ UNCHANGED <<mode, rpc, phase>>
  BY HandlerEffect DEF NodeHandle
<1>2. InProgress(c) /\ pc \in [Calls -> {"idle"} \cup Step] /\ reply[c] = "none"
  BY <1>1 DEF StepEffect, Advances, NodeTypeOK, Discipline
<1>3. CASE reply'[c] = "ERR"
  <2>1. pc'[c] = "idle"
    BY <1>1, <1>2, <1>3 DEF StepEffect, Advances, Return
  <2>2. QED BY <1>3, <2>1 DEF Honest, NodeAnswered
<1>4. CASE reply'[c] # "ERR"
  <2>1. witness'[c] = witness[c] \cup Facts(c)'
    BY <1>1, <1>2, <1>4, Witnessed
  <2>2. Promise(c)' => "promise" \in witness'[c]
    BY <2>1 DEF Facts, Fact
  <2>3. rpc[c] = "stage" /\ mode = "clone" /\ fits' => "fits" \in witness'[c]
    BY <1>1, <2>1 DEF Facts, Fact
  <2>4. rpc[c] = "expand" /\ (strayed' \/ c \in stray') => "stray" \in witness'[c]
    BY <1>1, <2>1 DEF Facts, Fact
  <2>5. CASE NodeStageVolume(c)
    <3>1. rpc[c] = "stage"
      BY <2>5 DEF NodeStageVolume
    <3>2. pc'[c] = "ResizeStaged" => "promise" \in witness'[c]
      BY <1>1, <2>2, <2>5, <3>1, StageReaches DEF Promise
    <3>3. pc'[c] # "ResizeOther"
      BY <1>2, <2>5 DEF NodeStageVolume, GetVolume, FindDevice, CheckMount, Mounted, Format, Mkfs, MountDevice,
           ResizeStaged, EnlargeAt, NotYet, Goto, Return
    <3>4. reply'[c] = "OK" /\ mode # "block" => "promise" \in witness'[c]
      BY <1>1, <2>1, <2>2, <2>5, <3>1, StageAnswers DEF Promise, Honest
    <3>5. reply'[c] = "OK" /\ mode = "clone" => "fits" \in witness'[c]
      BY <1>1, <2>3, <2>5, <3>1, StageAnswers
    <3>6. QED BY <1>1, <3>1, <3>2, <3>3, <3>4, <3>5 DEF Honest, NodeAnswered
  <2>6. CASE NodePublishVolume(c) \/ NodePublishVolumeForBlock(c)
    <3>1. rpc[c] = "publish"
      BY <2>6 DEF NodePublishVolume, NodePublishVolumeForBlock
    <3>2. pc'[c] \notin {"ResizeOther", "ResizeStaged"}
      BY <1>2, <2>6, <3>1 DEF NodePublishVolume, NodePublishVolumeForBlock, GetVolume, FindDevice, CheckMount,
           Mounted, Bind, Remount, MakeFile, BindDevice, NotYet, Goto, Return
    <3>3. reply'[c] = "OK" => "promise" \in witness'[c]
      BY <1>1, <2>2, <2>6, <3>1, PublishAnswers DEF Promise
    <3>4. QED BY <1>1, <3>1, <3>2, <3>3 DEF Honest, NodeAnswered
  <2>7. CASE NodeUnstageVolume(c) \/ NodeUnpublishVolume(c)
    <3>1. rpc[c] \in {"unstage", "unpublish"}
      BY <2>7 DEF NodeUnstageVolume, NodeUnpublishVolume
    <3>2. pc'[c] \notin {"ResizeOther", "ResizeStaged"}
      BY <1>2, <2>7, <3>1 DEF NodeUnstageVolume, NodeUnpublishVolume, GetVolume, Unmount, UnmountPath, Cleanup,
           Umount, RemovePath, Proceed, Goto, Return
    <3>3. reply'[c] = "OK" => "promise" \in witness'[c]
      BY <1>1, <2>2, <2>7, <3>1, UnmountAnswers DEF Promise
    <3>4. QED BY <1>1, <3>1, <3>2, <3>3 DEF Honest, NodeAnswered
  <2>8. CASE NodeExpandVolume(c)
    <3>1. rpc[c] = "expand"
      BY <2>8 DEF NodeExpandVolume
    <3>2. pc'[c] # "ResizeStaged"
      BY <1>2, <2>8, <3>1 DEF NodeExpandVolume, GetVolume, FindMountFs, ResizeMounted, EnlargeAt, ResizeOther, Goto, Return
    <3>3. ASSUME pc'[c] = "ResizeOther", mode # "block" PROVE "stray" \in witness'[c]
      <4>1. FindMountFs(c) /\ Shows("target") # "volume" /\ InProgress(c)'
        BY <1>2, <2>8, <3>1, <3>3 DEF NodeExpandVolume, GetVolume, FindMountFs, ResizeMounted, EnlargeAt, ResizeOther,
             ShowsFilesystem, Goto, Return
      <4>2. strayed \/ c \in stray
        <5> SUFFICES ASSUME ~strayed, c \notin stray PROVE FALSE
          OBVIOUS
        <5>1. told["target"] = "yes"
          BY <1>2, <3>1 DEF Current, Discipline, InItsPhase
        <5>2. QED BY <4>1, <5>1, WhatIsSeen DEF Truthful, Path
      <4>3. strayed' \/ c \in stray'
        BY <1>1, <4>1, <4>2 DEF Traces, History
      <4>4. QED BY <2>4, <3>1, <4>3
    <3>4. ASSUME reply'[c] = "OK", mode # "block"
          PROVE  "promise" \in witness'[c] \/ "stray" \in witness'[c]
      <4>1. ~(\E l : Goto(c, l)) /\ ~Return(c, "ERR")
        BY <1>2, <3>4, Unanswered
      <4>2. pc[c] = "ResizeOther" \/ fits'
        BY <2>8, <3>1, <4>1 DEF NodeExpandVolume, GetVolume, FindMountFs, ResizeMounted, EnlargeAt, ResizeOther
      <4>3. QED BY <1>1, <2>1, <2>2, <3>1, <3>4, <4>2 DEF Honest, Promise
    <3>5. QED BY <1>1, <3>1, <3>2, <3>3, <3>4 DEF Honest, NodeAnswered
  <2>9. QED BY <2>5, <2>6, <2>7, <2>8 DEF NodeHandle
<1>5. QED BY <1>3, <1>4

\* So all calls stay honest.
LEMMA HonestyStep ==
  ASSUME NodeInv, [NodeNext]_nodeVars, NEW d \in Calls, Honest(d)
  PROVE  Honest(d)'
<1> USE DEF NodeInv, Grounded
<1>1. ASSUME NEW c \in Calls, NodeHandle(c) PROVE Honest(d)'
  <2>1. StepEffect(c) /\ History /\ UNCHANGED <<mode, rpc>>
    BY <1>1, HandlerEffect DEF NodeHandle
  <2>2. d # c => pc'[d] = pc[d] /\ reply'[d] = reply[d]
    BY <2>1 DEF StepEffect, Advances, Return, NodeTypeOK
  <2>3. QED BY <1>1, <2>1, <2>2, StaysHonest, StepIsHonest
<1>2. ASSUME NEW c \in Calls, Begins(c), History PROVE Honest(d)'
  <2>1. /\ d # c => pc'[d] = pc[d] /\ reply'[d] = reply[d] /\ rpc'[d] = rpc[d]
        /\ d = c => pc'[d] = "GetVolume" /\ reply'[d] = "none"
    BY <1>2, BeginEffect DEF Enter, NodeTypeOK
  <2>2. UNCHANGED mode
    BY <1>2, BeginEffect
  <2>3. CASE d = c
    BY <2>1, <2>3 DEF Honest, NodeAnswered
  <2>4. CASE d # c
    BY <1>2, <2>1, <2>2, <2>4, StaysHonest
  <2>5. QED BY <2>3, <2>4
<1>3. CASE (Elsewhere \/ Reboot) /\ History
  <2>1. /\ UNCHANGED <<mode, rpc>>
        /\ \/ pc'[d] = pc[d] /\ reply'[d] = reply[d]
           \/ pc'[d] = "idle" /\ reply'[d] # "OK"
    BY <1>3 DEF Elsewhere, GiveUp, Turn, Attach, Detach, DeviceAppears, GrowDevice, PodWrites, Crash, Reboot,
         Down, co, call, disk, kernel
  <2>2. QED BY <1>3, <2>1, StaysHonest
<1>4. CASE UNCHANGED nodeVars
  BY <1>4 DEF nodeVars, Honest, NodeAnswered
<1>5. QED BY <1>1, <1>2, <1>3, <1>4, WhoSteps

\* So the witness of every call is true of its answer, in every state.
LEMMA Honesty == NodeSpec => [](\A c \in Calls : Honest(c))
<1>1. NodeInit => \A c \in Calls : Honest(c)
  BY DEF NodeInit, NoCalls, Honest, NodeAnswered
<1>2. NodeInv /\ (\A c \in Calls : Honest(c)) /\ [NodeNext]_nodeVars => (\A c \in Calls : Honest(c))'
  BY HonestyStep
<1>3. QED BY <1>1, <1>2, Invariance, PTL DEF NodeSpec

\* A node call that answers OK saw at some moment what it answers, whatever other
\* calls did at the same time.
THEOREM NodeAnswersHonest == NodeSpec => []NodeAnswersAreHonest
<1>1. (\A c \in Calls : Honest(c)) => NodeAnswersAreHonest
  BY DEF Honest, NodeAnswersAreHonest
<1>2. QED BY <1>1, Honesty, PTL

\* An expand call that was not given up for good enlarges the filesystem of the pod.
THEOREM ExpandReachesPod == NodeSpec => []ExpandReachesFilesystem
<1>1. (\A c \in Calls : Honest(c)) => ExpandReachesFilesystem
  BY DEF Honest, ExpandReachesFilesystem
<1>2. QED BY <1>1, Honesty, PTL

----------------------------------------------------------------------------
(* What the pod has written.                                               *)

\* A stage call formats the disk under the pod's data only as a stray.
LEMMA HandlerSparesData ==
  ASSUME NodeInv, NEW c \in Calls, NodeHandle(c), data = "written"
  PROVE  data' = "written" \/ strayed'
<1> USE DEF NodeInv, Grounded
<1>1. StepEffect(c) /\ Traces(c)
  BY HandlerEffect DEF NodeHandle
<1> SUFFICES ASSUME data' # "written", ~strayed' PROVE FALSE
  OBVIOUS
<1>2. rpc[c] = "stage" /\ pc[c] = "Mkfs" /\ ~InUse
  BY <1>1 DEF StepEffect, MovesData
<1>3. ~strayed /\ c \notin stray
  BY <1>1 DEF Traces
<1>4. PICK p \in Path : IsMounted(p) /\ Pure(p)
  BY <1>2, <1>3 DEF Truthful, Current
<1>5. 1 \in 1 .. Len(mounts[p])
  BY <1>4, WhatIsSeen, EmptySeq DEF IsMounted
<1>6. InUse
  BY <1>4, <1>5 DEF InUse, Pure
<1>7. QED BY <1>2, <1>6

\* What the pod has written is not formatted away, unless by a call the CO turned
\* its back on.
THEOREM PodKeepsData == NodeSpec => DataSurvives
<1>1. ASSUME NodeInv, [NodeNext]_nodeVars
      PROVE  [data = "written" => data' = "written" \/ strayed']_nodeVars
  <2>1. ASSUME NEW c \in Calls, NodeHandle(c), data = "written" PROVE data' = "written" \/ strayed'
    BY <1>1, <2>1, HandlerSparesData
  <2>2. ASSUME NEW c \in Calls, Begins(c) PROVE UNCHANGED data
    BY <1>1, <2>2, BeginEffect DEF NodeInv, Grounded
  <2>3. CASE Elsewhere \/ Reboot
    BY <2>3 DEF Elsewhere, GiveUp, Turn, Attach, Detach, DeviceAppears, GrowDevice, PodWrites, Crash,
       Reboot, Down, disk, co
  <2>4. QED BY <1>1, <2>1, <2>2, <2>3, WhoSteps
<1>2. QED BY <1>1, Invariance, PTL DEF NodeSpec, DataSurvives

----------------------------------------------------------------------------
(* The life cycle.                                                         *)

\* A mount set or taken away is a change.
LEMMA MountsChange ==
  ASSUME Grounded, NEW c \in Calls,
         StagesVolume(c) \/ BindsVolume(c) \/ BindsDevice(c) \/ TakesAway(c)
  PROVE  mounts' # mounts
<1> USE DEF Grounded
<1>1. "staging" \in Path /\ "target" \in Path /\ PathOf(c) \in Path /\ "volume" \in Source
      /\ Shows("staging") \in Source
  BY WhatIsSeen DEF Path, PathOf, Source
<1>2. PICK p \in Path : Len(mounts'[p]) \in {Len(mounts[p]) + 1, Len(mounts[p]) - 1}
  BY <1>1, Stacked, Unstacked DEF StagesVolume, BindsVolume, BindsDevice, TakesAway
<1>3. Len(mounts[p]) \in Nat
  BY WhatIsSeen
<1>4. QED BY <1>2, <1>3

\* Without a change in what is seen the life cycle stands still.
LEMMA StandsStill ==
  ASSUME UNCHANGED <<mode, strayed>>, (device' = "away") <=> (device = "away"),
         \A p \in Path : (Shows(p)' = "volume") <=> (Shows(p) = "volume")
  PROVE  UNCHANGED LifeCycle!vars
BY DEF LifeCycle!vars, Path

\* A step of a handler stages, publishes, unpublishes or unstages when it may, or
\* leaves things as they are.
LEMMA HandlerFollows ==
  ASSUME NodeInv, NodeInv', NEW c \in Calls, NodeHandle(c)
  PROVE  [LifeCycle!Next]_(LifeCycle!vars)
<1> USE DEF NodeInv, Grounded
<1>1. StepEffect(c) /\ Traces(c) /\ UNCHANGED <<mode, rpc, device>>
  BY HandlerEffect DEF NodeHandle, StepEffect
<1>2. CASE strayed'
  BY <1>1, <1>2 DEF LifeCycle!Next, LifeCycle!Break
<1>3. CASE ~strayed'
  <2>1. ~strayed /\ UNCHANGED strayed /\ (c \in stray => UNCHANGED mounts)
    BY <1>1, <1>3 DEF Traces, NodeTypeOK
  <2>2. "staging" \in Path /\ "target" \in Path /\ "volume" \in Source
    BY DEF Path, Source
  <2>3. CASE UNCHANGED mounts
    BY <1>1, <2>1, <2>3, StandsStill DEF Shows, IsMounted
  <2>4. CASE mounts' # mounts
    <3>1. InItsPhase(c)
      BY <1>1, <2>1, <2>4 DEF Discipline, Current, StepEffect, Advances
    <3>2. device # "away" \/ \A p \in Path : told[p] = "no"
      BY DEF Discipline
    <3>3. CASE StagesVolume(c)
      <4>1. Shows("staging")' = "volume" /\ mounts'["target"] = mounts["target"]
        BY <2>2, <3>3, Stacked DEF StagesVolume
      <4>2. Shows("target")' = Shows("target")
        BY <4>1 DEF Shows, IsMounted
      <4>3. Shows("staging") # "volume" /\ device = "here" /\ mode # "block"
        BY <3>3 DEF StagesVolume, CanMount, RawIsNotStaged, StageSteps
      <4>4. LifeCycle!Stage
        BY <1>1, <4>1, <4>2, <4>3 DEF LifeCycle!Stage
      <4>5. QED BY <1>1, <1>3, <2>1, <4>4 DEF LifeCycle!Next
    <3>4. CASE BindsVolume(c) \/ BindsDevice(c)
      <4>1. (Shows("staging") = "volume" \/ mode = "block") /\ device # "away"
        BY <2>1, <2>2, <3>1, <3>2, <3>4, WhatIsSeen DEF BindsVolume, BindsDevice, InItsPhase, Truthful
      <4>2. mounts' = [mounts EXCEPT !["target"] = Append(@, "volume")]
        BY <3>4, <4>1 DEF BindsVolume, BindsDevice
      <4>3. Shows("target")' = "volume" /\ mounts'["staging"] = mounts["staging"]
        BY <2>2, <4>2, Stacked
      <4>4. Shows("staging")' = Shows("staging")
        BY <4>3 DEF Shows, IsMounted
      <4>5. Shows("target") # "volume" => LifeCycle!Publish
        BY <1>1, <4>1, <4>3, <4>4 DEF LifeCycle!Publish
      <4>6. Shows("target") = "volume" => UNCHANGED LifeCycle!vars
        BY <1>1, <2>1, <4>3, <4>4, StandsStill DEF Path
      <4>7. QED BY <1>1, <1>3, <2>1, <4>5, <4>6 DEF LifeCycle!Next
    <3>5. CASE TakesAway(c)
      <4>1. PICK p \in Path : /\ p = PathOf(c) /\ IsMounted(p)
                              /\ mounts' = [mounts EXCEPT ![p] = SubSeq(@, 1, Len(@) - 1)]
        BY <2>2, <3>5 DEF TakesAway, PathOf
      <4>2. \A q \in Path : q # p => mounts'[q] = mounts[q]
        BY <4>1, Unstacked
      <4>3. \A q \in Path : q # p => Shows(q)' = Shows(q)
        BY <4>2 DEF Shows, IsMounted
      <4>4. Shows(p) = "volume"
        BY <2>1, <4>1, WhatIsSeen DEF Truthful
      <4>5. CASE Shows(p)' = "volume"
        BY <1>1, <2>1, <4>3, <4>4, <4>5, StandsStill
      <4>6. CASE Shows(p)' # "volume" /\ p = "target"
        <5>1. LifeCycle!Unpublish
          BY <1>1, <2>2, <4>3, <4>4, <4>6 DEF LifeCycle!Unpublish
        <5>2. QED BY <1>1, <1>3, <2>1, <5>1 DEF LifeCycle!Next
      <4>7. CASE Shows(p)' # "volume" /\ p = "staging"
        <5>1. rpc[c] = "unstage"
          BY <3>5, <4>1, <4>7 DEF TakesAway, PathOf
        <5>2. Shows("target") # "volume"
          BY <2>1, <2>2, <3>1, <5>1 DEF InItsPhase, Truthful, Shows
        <5>3. LifeCycle!Unstage
          BY <1>1, <2>2, <4>3, <4>4, <4>7, <5>2 DEF LifeCycle!Unstage
        <5>4. QED BY <1>1, <1>3, <2>1, <5>3 DEF LifeCycle!Next
      <4>8. QED BY <4>5, <4>6, <4>7 DEF Path
    <3>6. QED BY <1>1, <2>4, <3>3, <3>4, <3>5 DEF StepEffect, MovesMounts
  <2>5. QED BY <2>3, <2>4
<1>4. QED BY <1>2, <1>3

\* So does everything else that happens.
LEMMA ElsewhereFollows ==
  ASSUME NodeInv, Elsewhere \/ Reboot, Quiet
  PROVE  [LifeCycle!Next]_(LifeCycle!vars)
<1> USE DEF NodeInv, Grounded
<1>1. UNCHANGED <<mode, strayed>>
  BY DEF Elsewhere, GiveUp, Turn, Attach, Detach, DeviceAppears, GrowDevice, PodWrites, Crash,
       Reboot, Down, Quiet
<1>2. CASE strayed
  BY <1>1, <1>2 DEF LifeCycle!Next, LifeCycle!Break
<1>3. CASE ~strayed
  <2>1. Elsewhere => \A p \in Path : Shows(p)' = Shows(p)
    BY DEF Elsewhere, GiveUp, Turn, Attach, Detach, DeviceAppears, GrowDevice, PodWrites, Crash,
       Down, kernel, Shows, IsMounted
  <2>2. "staging" \in Path /\ "target" \in Path
    BY DEF Path
  <2>3. CASE Attach
    <3>1. LifeCycle!Attach
      BY <2>1, <2>2, <2>3 DEF Attach, LifeCycle!Attach, Elsewhere
    <3>2. QED BY <1>1, <1>3, <3>1 DEF LifeCycle!Next
  <2>4. CASE Detach
    <3>1. Shows("staging") # "volume" /\ Shows("target") # "volume"
      BY <1>3, <2>2, <2>4 DEF Detach, Truthful, Shows
    <3>2. LifeCycle!Detach
      BY <2>1, <2>2, <2>4, <3>1 DEF Detach, LifeCycle!Detach, Elsewhere
    <3>3. QED BY <1>1, <1>3, <3>2 DEF LifeCycle!Next
  <2>5. CASE Reboot
    <3>1. UNCHANGED device /\ Shows("staging")' = "dir" /\ Shows("target")' = "dir"
      BY <2>2, <2>5 DEF Reboot, Down, disk, Shows, IsMounted
    <3>2. LifeCycle!Reboot
      BY <3>1 DEF LifeCycle!Reboot
    <3>3. QED BY <1>1, <1>3, <3>2 DEF LifeCycle!Next
  <2>6. CASE GiveUp \/ Turn \/ DeviceAppears \/ GrowDevice \/ PodWrites \/ Crash
    <3>1. (device' = "away") <=> (device = "away")
      BY <2>6 DEF GiveUp, Turn, DeviceAppears, GrowDevice, PodWrites, Crash, Down, disk
    <3>2. Elsewhere
      BY <2>6 DEF Elsewhere
    <3>3. QED BY <1>1, <2>1, <3>1, <3>2, StandsStill
  <2>7. QED BY <2>3, <2>4, <2>5, <2>6 DEF Elsewhere
<1>4. QED BY <1>2, <1>3

\* Whatever calls do to each other, the volume goes up and down as NodeLifeCycle
\* says, until a call the CO turned its back on interferes.
THEOREM ImplementsLifeCycle == NodeSpec => FollowsLifeCycle
<1>1. NodeInit => LifeCycle!Init
  <2> SUFFICES ASSUME NodeInit PROVE LifeCycle!Init
    OBVIOUS
  <2>1. Shows("staging") = "dir" /\ Shows("target") = "dir"
    BY DEF NodeInit, NoMounts, Shows, IsMounted, Path
  <2>2. QED BY <2>1 DEF NodeInit, LifeCycle!Init
<1>2. NodeInv /\ NodeInv' /\ [NodeNext]_nodeVars => [LifeCycle!Next]_(LifeCycle!vars)
  <2> SUFFICES ASSUME NodeInv, NodeInv', [NodeNext]_nodeVars PROVE [LifeCycle!Next]_(LifeCycle!vars)
    OBVIOUS
  <2>1. ASSUME NEW c \in Calls, Begins(c), Quiet PROVE UNCHANGED LifeCycle!vars
    <3>1. UNCHANGED <<mounts, mode, device, strayed>>
      BY <2>1, BeginEffect DEF NodeInv, Grounded, Quiet
    <3>2. QED BY <3>1, StandsStill DEF Shows, IsMounted
  <2>2. CASE UNCHANGED nodeVars
    BY <2>2, StandsStill DEF nodeVars, Shows, IsMounted
  <2>3. QED BY <2>1, <2>2, HandlerFollows, ElsewhereFollows, WhoSteps
<1>3. QED BY <1>1, <1>2, Invariance, PTL DEF NodeSpec, FollowsLifeCycle, LifeCycle!Spec

----------------------------------------------------------------------------
(* The ID and the zone of the node.                                        *)

\* The steps of a call that asks for them.
MetadataPoint == {"idle", "Look", "Fetch", "Store", "Read"}

\* Every variable but the history stays in its range.
MetadataTypeOK ==
  /\ Len(order) \in Nat \ {0} /\ \A i \in 1 .. Len(order) : order[i] \in MetadataSource
  /\ cache \in MetadataSource \cup {"none"}
  /\ place \in [Calls -> 1 .. Len(order)]
  /\ got \in [Calls -> MetadataSource \cup {"none"}]
  /\ id \in [Calls -> MetadataSource \cup {"none"}]
  /\ zone \in [Calls -> MetadataSource \cup {"none"}]
  /\ alone \in [Calls -> BOOLEAN]
  /\ pc \in [Calls -> MetadataPoint]
  /\ reply \in [Calls -> {"none", "OK", "ERR"}]

\* Call c has taken its instance ID while nobody was fetching, and goes on.
TookAlone(c) == InProgress(c) /\ id[c] # "none" /\ alone[c]

\* What a call knows of the cache: that it is filled once the call is about to
\* read it, and, if it took its ID alone, that nobody can overwrite the cache.
KnowsCache(c) ==
  /\ InProgress(c) => reply[c] = "none"
  /\ pc[c] = "Store" => got[c] # "none"
  /\ pc[c] = "Read" => cache # "none"
  /\ TookAlone(c) => id[c] = cache /\ \A d \in Calls : ~Fetching(d)

\* NodeInfoIsWhole alone is not inductive: a call that still has to read the zone
\* must know that the cache holds what it took its ID from.
MetadataInv == MetadataTypeOK /\ (\A c \in Calls : KnowsCache(c)) /\ NodeInfoIsWhole

\* Every step keeps the types.
LEMMA MetadataTyping ==
  ASSUME MetadataTypeOK, NEW c \in Calls, BeginGetInfo(c) \/ MetadataHandle(c)
  PROVE  MetadataTypeOK'
<1> USE DEF MetadataTypeOK, MetadataPoint
<1>1. CASE BeginGetInfo(c)
  BY <1>1 DEF BeginGetInfo, Enter
<1>2. CASE Look(c)
  <2>1. 1 \in 1 .. Len(order)
    OBVIOUS
  <2>2. QED BY <1>2, <2>1 DEF Look, Goto
<1>3. CASE Fetch(c)
  <2>1. place[c] \in 1 .. Len(order)
    OBVIOUS
  <2>2. order[place[c]] \in MetadataSource
    BY <2>1
  <2>3. place[c] < Len(order) => place[c] + 1 \in 1 .. Len(order)
    BY <2>1
  <2>4. place' \in [Calls -> 1 .. Len(order)]
    BY <1>3, <2>3 DEF Fetch
  <2>5. QED BY <1>3, <2>2, <2>4 DEF Fetch, Goto, Return
<1>4. CASE Store(c)
  BY <1>4 DEF Store, Goto
<1>5. CASE Read(c)
  <2>1. alone' \in [Calls -> BOOLEAN]
    <3> DEFINE v == \A d \in Calls : ~Fetching(d)
    <3>1. v \in BOOLEAN
      OBVIOUS
    <3>2. alone' = [alone EXCEPT ![c] = v] \/ alone' = alone
      BY <1>5 DEF Read
    <3> HIDE DEF v
    <3>3. QED BY <3>1, <3>2
  <2>2. (id' \in [Calls -> MetadataSource \cup {"none"}]
           /\ zone' \in [Calls -> MetadataSource \cup {"none"}])
    <3>1. id' = [id EXCEPT ![c] = cache] \/ id' = id
      BY <1>5 DEF Read
    <3>2. zone' = [zone EXCEPT ![c] = cache] \/ zone' = zone
      BY <1>5 DEF Read
    <3>3. QED BY <3>1, <3>2
  <2>3. pc' \in [Calls -> MetadataPoint] /\ reply' \in [Calls -> {"none", "OK", "ERR"}]
    BY <1>5 DEF Read, Goto, Return
  <2>4. UNCHANGED <<order, cache, place, got>>
    BY <1>5 DEF Read
  <2>5. QED BY <2>1, <2>2, <2>3, <2>4
<1>6. QED BY <1>1, <1>2, <1>3, <1>4, <1>5 DEF MetadataHandle

\* A call that takes no step keeps what it knows.
LEMMA UnmovedKnows ==
  ASSUME MetadataInv, NEW c \in Calls, BeginGetInfo(c) \/ MetadataHandle(c),
         NEW d \in Calls, d # c
  PROVE  KnowsCache(d)'
<1> USE DEF MetadataInv, MetadataTypeOK, KnowsCache, TookAlone, Fetching
<1>1. UNCHANGED <<pc[d], reply[d], got[d], id[d], alone[d]>>
  BY DEF BeginGetInfo, Enter, MetadataHandle, Look, Fetch, Store, Read, Goto, Return
<1>2. cache # "none" => cache' # "none"
  BY DEF BeginGetInfo, MetadataHandle, Look, Fetch, Store, Read
<1>3. ASSUME TookAlone(d)
      PROVE  cache' = cache /\ \A e \in Calls : ~Fetching(e)'
  <2>1. Cached /\ \A e \in Calls : ~Fetching(e)
    BY <1>3 DEF Cached
  <2>2. QED BY <2>1 DEF BeginGetInfo, Enter, MetadataHandle, Look, Fetch, Store, Read, Goto, Return
<1>4. QED BY <1>1, <1>2, <1>3

\* The call that takes the step knows what it should.
LEMMA MovedKnows ==
  ASSUME MetadataInv, NEW c \in Calls, BeginGetInfo(c) \/ MetadataHandle(c)
  PROVE  KnowsCache(c)'
<1> USE DEF MetadataInv, MetadataTypeOK, KnowsCache, TookAlone, Fetching
<1>1. CASE BeginGetInfo(c)
  BY <1>1 DEF BeginGetInfo, Enter
<1>2. CASE Look(c)
  BY <1>2 DEF Look, Cached, Goto
<1>3. CASE Fetch(c)
  <2>1. order[place[c]] \in MetadataSource
    OBVIOUS
  <2>2. ~TookAlone(c)
    BY <1>3 DEF Fetch
  <2>3. QED BY <1>3, <2>1, <2>2 DEF Fetch, MetadataSource, Goto, Return
<1>4. CASE Store(c)
  BY <1>4 DEF Store, Goto
<1>5. CASE Read(c)
  BY <1>5 DEF Read, Goto, Return
<1>6. QED BY <1>1, <1>2, <1>3, <1>4, <1>5 DEF MetadataHandle

\* An answer with an ID taken alone has the zone of the same source.
LEMMA AnswerIsWhole ==
  ASSUME MetadataInv, NEW c \in Calls, BeginGetInfo(c) \/ MetadataHandle(c)
  PROVE  NodeInfoIsWhole'
<1> SUFFICES ASSUME NEW d \in Calls, (~InProgress(d) /\ reply[d] = "OK" /\ alone[d])'
             PROVE  id'[d] = zone'[d]
  BY DEF NodeInfoIsWhole
<1> USE DEF MetadataInv, MetadataTypeOK, KnowsCache, TookAlone, NodeInfoIsWhole
<1>1. CASE d # c
  BY <1>1 DEF BeginGetInfo, Enter, MetadataHandle, Look, Fetch, Store, Read, Goto, Return
<1>2. CASE d = c
  <2>1. Read(c) /\ id[c] # "none"
    BY <1>2 DEF BeginGetInfo, Enter, MetadataHandle, Look, Fetch, Store, Read, Goto, Return
  <2>2. QED BY <1>2, <2>1 DEF Read, Return
<1>3. QED BY <1>1, <1>2

\* When the process dies every call in progress ends, and the cache is empty.
LEMMA RestartKeeps ==
  ASSUME MetadataInv, Restart
  PROVE  MetadataInv'
<1> USE DEF MetadataInv, MetadataTypeOK, MetadataPoint, Restart, CrashCalls
<1>1. MetadataTypeOK'
  OBVIOUS
<1>2. \A c \in Calls : KnowsCache(c)'
  BY DEF KnowsCache, TookAlone
<1>3. NodeInfoIsWhole'
  BY DEF NodeInfoIsWhole
<1>4. QED BY <1>1, <1>2, <1>3

\* The ID and the zone a node is registered with come from one source, unless
\* another call was still fetching when the ID was taken.
THEOREM NodeInfo == MetadataSpec => []NodeInfoIsWhole
<1>1. MetadataInit => MetadataInv
  <2> SUFFICES ASSUME MetadataInit PROVE MetadataInv
    OBVIOUS
  <2>1. Len(order) \in Nat \ {0} /\ \A i \in 1 .. Len(order) : order[i] \in MetadataSource
    <3>1. PICK n \in 1 .. 2 : order \in [1 .. n -> MetadataSource]
      BY DEF MetadataInit, SearchOrder
    <3>2. Len(order) = n
      BY <3>1
    <3>3. QED BY <3>1, <3>2
  <2>2. QED BY <2>1 DEF MetadataInit, NoCalls, MetadataInv, MetadataTypeOK, MetadataPoint, KnowsCache, TookAlone, NodeInfoIsWhole
<1>2. MetadataInv /\ [MetadataNext]_metadataVars => MetadataInv'
  <2> SUFFICES ASSUME MetadataInv, [MetadataNext]_metadataVars PROVE MetadataInv'
    OBVIOUS
  <2>1. ASSUME NEW c \in Calls, BeginGetInfo(c) \/ MetadataHandle(c) PROVE MetadataInv'
    BY <2>1, MetadataTyping, UnmovedKnows, MovedKnows, AnswerIsWhole DEF MetadataInv
  <2>2. CASE Restart
    BY <2>2, RestartKeeps
  <2>3. CASE UNCHANGED metadataVars
    BY <2>3 DEF metadataVars, MetadataInv, MetadataTypeOK, KnowsCache, TookAlone, Fetching, NodeInfoIsWhole
  <2>4. QED BY <2>1, <2>2, <2>3 DEF MetadataNext
<1>3. QED BY <1>1, <1>2, PTL DEF MetadataInv, MetadataSpec
=============================================================================
