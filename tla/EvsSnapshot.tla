----------------------------- MODULE EvsSnapshot -----------------------------
(***************************************************************************)
(* CreateSnapshot and DeleteSnapshot of the EVS driver                     *)
(* (pkg/evs/controllerserver.go, pkg/evs/services/snapshots.go), for the   *)
(* snapshots of one name, asked for of one volume or of another, together  *)
(* with the part of the cloud they drive.  As for volumes, the cloud does  *)
(* not make names unique: the handler lists the snapshots of the name and  *)
(* creates one if there is none.                                           *)
(***************************************************************************)
EXTENDS CsiCall, FiniteSets

CONSTANTS
  SnapshotIds, \* the IDs the cloud can give out: its quota, for this name
  Volumes,     \* the volumes that exist at the start
  NoSnapshot   \* the ID of no snapshot

ASSUME SnapshotIdsAssumption == IsFiniteSet(SnapshotIds) /\ NoSnapshot \notin SnapshotIds

VARIABLES
  volumes,  \* the volumes that exist
  status,   \* status[s]: the status of the snapshot with ID s
  source,   \* source[s]: the volume it is a snapshot of
  rpc,      \* rpc[c]: the kind of call c
  asked,    \* asked[c]: the volume c wants a snapshot of
  target,   \* target[c]: the snapshot of c: of the request, found or made
  witness   \* history: what was true of c's snapshot during the call

cloud == <<volumes, status, source>>
request == <<rpc, asked>>
calls == <<pc, rpc, asked, target, polls, reply>>
vars == <<volumes, status, source, rpc, asked, target, witness, pc, polls, reply>>

Status == {"unborn", "creating", "available", "error", "deleting", "gone"}
Request == {"CheckDuplicateSnapshotName", "GetVolume", "CreateSnapshot",
            "WaitSnapshotReady", "DeleteSnapshot"}
Fact == {"made", "ready", "source", "doomed"}

Listed == {s \in SnapshotIds : status[s] \notin {"unborn", "gone"}}

Init ==
  /\ volumes = Volumes
  /\ status = [s \in SnapshotIds |-> "unborn"]
  /\ \E v \in Volumes : /\ source = [s \in SnapshotIds |-> v]
                        /\ asked = [c \in Calls |-> v]
  /\ rpc = [c \in Calls |-> "create"]
  /\ target = [c \in Calls |-> NoSnapshot]
  /\ pc = [c \in Calls |-> "idle"]
  /\ polls = [c \in Calls |-> 0]
  /\ reply = [c \in Calls |-> "none"]
  /\ witness = [c \in Calls |-> {}]

----------------------------------------------------------------------------
(* Steps of a call.                                                        *)

BeginCreate(c, v) ==
  /\ Enter(c, "CheckDuplicateSnapshotName")
  /\ rpc' = [rpc EXCEPT ![c] = "create"]
  /\ asked' = [asked EXCEPT ![c] = v]
  /\ target' = [target EXCEPT ![c] = NoSnapshot]
  /\ UNCHANGED cloud

BeginDelete(c, s) ==
  /\ status[s] # "unborn"
  /\ Enter(c, "DeleteSnapshot")
  /\ rpc' = [rpc EXCEPT ![c] = "delete"]
  /\ target' = [target EXCEPT ![c] = s]
  /\ UNCHANGED <<cloud, asked>>

\* The operators named Faulty... are what plausible mistakes would make of the
\* definition that follows them; the properties below must catch them.

\* The snapshots found by name, whatever their status.
FaultyAvailableOnly == {s \in Listed : status[s] = "available"}
SameName == Listed

\* The snapshot found is one of the volume asked for.
FaultyAnyVolume(s, v) == TRUE
SameVolume(s, v) == source[s] = v

\* A single snapshot of the name, of the volume asked for, is the answer, with
\* ReadyToUse set whatever its status.
CheckDuplicateSnapshotName(c) ==
  /\ pc[c] = "CheckDuplicateSnapshotName"
  /\ \/ SameName = {} /\ Goto(c, "GetVolume") /\ UNCHANGED target
     \/ \E s \in SameName :
          /\ SameName = {s} /\ SameVolume(s, asked[c])
          /\ target' = [target EXCEPT ![c] = s]
          /\ Return(c, "OK")
     \/ /\ \/ Cardinality(SameName) > 1
           \/ \E s \in SameName : SameName = {s} /\ ~SameVolume(s, asked[c])
           \/ "api" \in Faults
        /\ Return(c, "ERR")
        /\ UNCHANGED target
  /\ UNCHANGED <<cloud, request, polls>>

GetVolume(c) ==
  /\ pc[c] = "GetVolume"
  /\ \/ asked[c] \in volumes /\ Goto(c, "CreateSnapshot")
     \/ (asked[c] \notin volumes \/ "api" \in Faults) /\ Return(c, "ERR")
  /\ UNCHANGED <<cloud, request, target, polls>>

\* The cloud takes on a snapshot of volume v, as ID s.
AcceptCreate(s, v) ==
  /\ status[s] = "unborn" /\ v \in volumes
  /\ status' = [status EXCEPT ![s] = "creating"]
  /\ source' = [source EXCEPT ![s] = v]
  /\ UNCHANGED volumes

CreateSnapshot(c) ==
  /\ pc[c] = "CreateSnapshot"
  /\ \/ \E s \in SnapshotIds :
          /\ AcceptCreate(s, asked[c])
          /\ \/ target' = [target EXCEPT ![c] = s] /\ Goto(c, "WaitSnapshotReady")
             \/ "lost" \in Faults /\ Return(c, "ERR") /\ UNCHANGED target
     \/ /\ \/ asked[c] \notin volumes
           \/ \A s \in SnapshotIds : status[s] # "unborn"
           \/ "api" \in Faults
        /\ Return(c, "ERR")
        /\ UNCHANGED <<cloud, target>>
  /\ UNCHANGED <<request, polls>>

\* Only the status creating lets the wait go on: a snapshot that is being
\* deleted, or gone, or in error ends it.
FaultyTakesAnyEnd(s) == status[s] # "creating"
Ready(s) == status[s] = "available"

WaitSnapshotReady(c) ==
  /\ pc[c] = "WaitSnapshotReady"
  /\ \/ Ready(target[c]) /\ Return(c, "OK") /\ UNCHANGED polls
     \/ status[target[c]] = "creating" /\ NotYet(c)
     \/ /\ status[target[c]] \notin {"available", "creating"} \/ "api" \in Faults
        /\ Return(c, "ERR")
        /\ UNCHANGED polls
  /\ UNCHANGED <<cloud, request, target>>

\* The cloud deletes a snapshot only when nothing else is being done to it.
AcceptDelete(s) ==
  /\ status[s] \in {"available", "error"}
  /\ status' = [status EXCEPT ![s] = "deleting"]
  /\ UNCHANGED <<volumes, source>>

\* The cloud answers a request about the snapshot with not found.
FaultyConflictIsNotFound(s) == status[s] \notin {"available", "error"}
NotFound(s) == s \notin Listed

DeleteSnapshot(c) ==
  /\ pc[c] = "DeleteSnapshot"
  /\ \/ /\ AcceptDelete(target[c])
        /\ Return(c, "OK") \/ ("lost" \in Faults /\ Return(c, "ERR"))
     \/ NotFound(target[c]) /\ Return(c, "OK") /\ UNCHANGED cloud
     \/ /\ \/ ~NotFound(target[c]) /\ status[target[c]] \notin {"available", "error"}
           \/ "api" \in Faults
        /\ Return(c, "ERR")
        /\ UNCHANGED cloud
  /\ UNCHANGED <<request, target, polls>>

----------------------------------------------------------------------------
(* Steps of the cloud.                                                     *)

CreateEnds(s) ==
  /\ status[s] = "creating"
  /\ \E st \in {"available"} \cup IF "jobfail" \in Faults THEN {"error"} ELSE {} :
       status' = [status EXCEPT ![s] = st]
  /\ UNCHANGED <<volumes, source, calls>>

DeleteEnds(s) ==
  /\ status[s] = "deleting"
  /\ \E st \in {"gone"} \cup IF "jobfail" \in Faults THEN {"error"} ELSE {} :
       status' = [status EXCEPT ![s] = st]
  /\ UNCHANGED <<volumes, source, calls>>

\* A volume without snapshots may be deleted.
VolumeGone(v) ==
  /\ v \in volumes /\ \A s \in Listed : source[s] # v
  /\ volumes' = volumes \ {v}
  /\ UNCHANGED <<status, source, calls>>

Crash == CrashCalls /\ UNCHANGED <<cloud, request, target>>

----------------------------------------------------------------------------
(* History.                                                                *)

\* What is true now of the snapshot of call c.
Facts(c) ==
  LET s == target[c]
  IN  {f \in Fact : /\ s # NoSnapshot
                    /\ \/ f = "made" /\ pc[c] = "WaitSnapshotReady"
                       \/ f = "ready" /\ status[s] = "available"
                       \/ f = "source" /\ s \in Listed /\ source[s] = asked[c]
                       \/ f = "doomed" /\ status[s] \in {"deleting", "gone"}}

History ==
  witness' = [c \in Calls |->
    IF reply'[c] = "ERR" THEN {}
    ELSE IF InProgress(c) THEN witness[c] \cup Facts(c)'
    ELSE IF InProgress(c)' THEN Facts(c)'
    ELSE witness[c]]

----------------------------------------------------------------------------
Handle(c) == /\ \/ CheckDuplicateSnapshotName(c) \/ GetVolume(c) \/ CreateSnapshot(c)
                \/ WaitSnapshotReady(c) \/ DeleteSnapshot(c)
             /\ History

Start(c) == /\ \/ \E v \in Volumes : BeginCreate(c, v)
               \/ \E s \in SnapshotIds : BeginDelete(c, s)
            /\ History

Environment == /\ \/ \E s \in SnapshotIds : CreateEnds(s) \/ DeleteEnds(s)
                  \/ \E v \in Volumes : VolumeGone(v)
                  \/ Crash
               /\ History

Next == (\E c \in Calls : Start(c) \/ Handle(c)) \/ Environment

Spec == Init /\ [][Next]_vars

----------------------------------------------------------------------------
(* Properties.                                                             *)

\* Every variable stays in its range.
TypeOK ==
  /\ volumes \in SUBSET Volumes
  /\ status \in [SnapshotIds -> Status]
  /\ source \in [SnapshotIds -> Volumes]
  /\ rpc \in [Calls -> {"create", "delete"}]
  /\ asked \in [Calls -> Volumes]
  /\ target \in [Calls -> SnapshotIds \cup {NoSnapshot}]
  /\ pc \in [Calls -> {"idle"} \cup Request]
  /\ polls \in [Calls -> 0 .. MaxPolls - 1]
  /\ reply \in [Calls -> {"none", "OK", "ERR"}]
  /\ witness \in [Calls -> SUBSET Fact]

Answered(c, kind) == ~InProgress(c) /\ reply[c] = "OK" /\ rpc[c] = kind

\* A create call that answers OK names a snapshot that existed during the call
\* and is one of the very volume asked for, even when calls for two volumes
\* race for the name.
CreateNamesItsVolume ==
  \A c \in Calls : Answered(c, "create") => "source" \in witness[c]

\* A snapshot a call made itself was available during that call when the call
\* answers that it is ready to use, although calls may delete it meanwhile.
OwnSnapshotWasReady ==
  \A c \in Calls :
    Answered(c, "create") /\ "made" \in witness[c] => "ready" \in witness[c]

\* A delete call that answers OK found the snapshot gone or set its deletion off.
DeleteIsHonest ==
  \A c \in Calls : Answered(c, "delete") => "doomed" \in witness[c]

\* The calls between the listing that found no snapshot and the request that
\* makes one: nothing they read protects them from each other.
Committed == {c \in Calls : pc[c] \in {"GetVolume", "CreateSnapshot"}}

\* However long the CO goes on retrying, the snapshots of one name and the calls
\* about to make another are never more than the calls that run side by side.
DuplicatesBounded ==
  Cardinality(Listed) + Cardinality(Committed) <= Cardinality(Calls)
=============================================================================
