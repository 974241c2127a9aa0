----------------------------- MODULE RemoteMount -----------------------------
(***************************************************************************)
(* The node servers without a stage call: SFS Turbo and SFS mount an NFS   *)
(* export at the target path, OBS has its connector mount a bucket there   *)
(* (see ObsMount).  Any number of publish and unpublish calls for the path *)
(* run side by side, the handlers being without a lock.                    *)
(***************************************************************************)
EXTENDS NodeMounts, FiniteSets

VARIABLES
  server,  \* "turbo", "sfs" or "obs"
  up,      \* the driver is running
  errand,  \* errand[c]: "publish" or "unpublish"
  found    \* history: what was true of the target during call c

remote == <<server, up, errand>>

RemoteInit ==
  /\ server \in {"turbo", "sfs", "obs"}
  /\ up = TRUE
  /\ errand = [c \in Calls |-> "none"]
  /\ found = [c \in Calls |-> {}]

BeginRemote(c, k) ==
  /\ up /\ Enter(c, IF k = "publish" THEN "GetExport" ELSE "CheckBusy")
  /\ errand' = [errand EXCEPT ![c] = k]
  /\ UNCHANGED <<kernel, server, up>>

\* A mount whose filesystem has died can be unmounted, but not looked at.
Dead == Shows("target") = "dead"

\* SFS Turbo and SFS look the target up in the table of mounts, OBS asks the
\* mount library.
FaultyNeverFound == FALSE
FoundAtTarget == IF server = "obs" THEN LikelyMounted("target") ELSE IsMounted("target")

\* The share or bucket is asked of the cloud first.
GetExport(c) ==
  /\ pc[c] = "GetExport"
  /\ \/ Goto(c, "CheckTarget")
     \/ "api" \in Faults /\ Return(c, "ERR")
  /\ UNCHANGED kernel

CheckTarget(c) ==
  /\ pc[c] = "CheckTarget"
  /\ \/ server = "obs" /\ Dead /\ Return(c, "ERR")
     \/ ~(server = "obs" /\ Dead) /\ FoundAtTarget /\ Return(c, "OK")
     \/ ~(server = "obs" /\ Dead) /\ ~FoundAtTarget /\ Goto(c, "MakeTarget")
  /\ UNCHANGED kernel

MakeTarget(c) ==
  /\ pc[c] = "MakeTarget"
  /\ MakePath("target")
  /\ Goto(c, IF server = "obs" THEN "Credential" ELSE "MountShare")

\* The kernel does not mount an export twice upon itself.  After a failed mount
\* SFS removes the target, unless it is a mount point.
MountShare(c) ==
  /\ pc[c] = "MountShare"
  /\ \/ ~IsMounted("target") /\ Stack("target", "share") /\ Return(c, "OK")
     \/ /\ IsMounted("target") \/ "target" \notin paths \/ "jobfail" \in Faults
        /\ \/ server = "sfs" /\ Remove("target")
           \/ (server = "turbo" \/ IsMounted("target")) /\ UNCHANGED kernel
        /\ Return(c, "ERR")

\* IsLikelyNotMountPointAttach makes the path when it is missing.
CheckBusy(c) ==
  /\ pc[c] = "CheckBusy"
  /\ \/ /\ server = "sfs"
        /\ IF IsMounted("target") THEN Goto(c, "UmountShare") ELSE Return(c, "OK")
        /\ UNCHANGED kernel
     \/ /\ server # "sfs" /\ ~Dead
        /\ IF LikelyMounted("target") THEN Goto(c, "Cleanup") /\ UNCHANGED kernel
           ELSE Return(c, "OK") /\ MakePath("target")
     \/ server # "sfs" /\ Dead /\ Return(c, "ERR") /\ UNCHANGED kernel

\* SFS unmounts with a single command and leaves the path.
UmountShare(c) ==
  /\ pc[c] = "UmountShare"
  /\ \/ /\ IsMounted("target")
        /\ mounts' = [mounts EXCEPT !["target"] = SubSeq(@, 1, Len(@) - 1)]
        /\ Return(c, "OK") /\ UNCHANGED <<paths, umountKind>>
     \/ (~IsMounted("target") \/ "jobfail" \in Faults) /\ Return(c, "ERR") /\ UNCHANGED kernel

TurboNode(c) ==
  /\ server = "turbo"
  /\ \/ /\ GetExport(c) \/ CheckTarget(c) \/ MakeTarget(c) \/ MountShare(c) \/ CheckBusy(c)
        /\ UNCHANGED polls
     \/ UnmountPath(c, "target", "return")

SfsNode(c) ==
  /\ server = "sfs"
  /\ \/ GetExport(c) \/ CheckTarget(c) \/ MakeTarget(c) \/ MountShare(c)
     \/ CheckBusy(c) \/ UmountShare(c)
  /\ UNCHANGED polls

\* The rest of the publish call is in ObsMount.
ObsNode(c) ==
  /\ server = "obs"
  /\ \/ /\ GetExport(c) \/ CheckTarget(c) \/ MakeTarget(c) \/ CheckBusy(c)
        /\ UNCHANGED polls
     \/ UnmountPath(c, "target", "return")

RemoteHandle(c) == TurboNode(c) \/ SfsNode(c) \/ ObsNode(c)

\* What is true now of the target, for call c.
TargetFacts(c) ==
  {f \in {"mounted", "free"} :
     IF f = "mounted" THEN Shows("target") \in {"share", "bucket"} ELSE ~IsMounted("target")}

RemoteHistory ==
  found' = [c \in Calls |->
    IF reply'[c] = "ERR" THEN {}
    ELSE IF InProgress(c) THEN found[c] \cup TargetFacts(c)'
    ELSE IF InProgress(c)' THEN TargetFacts(c)'
    ELSE found[c]]

\* A publish call that answers OK saw the share or bucket at the target, an
\* unpublish call that answers OK saw nothing there, whatever calls and dying
\* processes did to the target at the same time.
RemoteAnswersAreHonest ==
  \A c \in Calls :
    ~InProgress(c) /\ reply[c] = "OK" =>
      /\ errand[c] = "publish" => "mounted" \in found[c]
      /\ errand[c] = "unpublish" => "free" \in found[c]
=============================================================================
