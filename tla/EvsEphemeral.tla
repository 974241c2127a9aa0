----------------------------- MODULE EvsEphemeral -----------------------------
(***************************************************************************)
(* Ephemeral volumes of the EVS node server (pkg/evs/nodeserver.go): a     *)
(* publish call makes, attaches and mounts a volume named after the ID the *)
(* CO gave, an unpublish call unmounts, detaches and deletes it.  Only the *)
(* name relates the two, and several volumes may have it.                  *)
(***************************************************************************)
EXTENDS NodeMounts

CONSTANTS
  VolumeIds, \* the IDs the cloud can give out: its quota, for this name
  NoVolume   \* the ID of no volume

ASSUME VolumeIdsAssumption == NoVolume \notin VolumeIds /\ "dir" \notin VolumeIds

VARIABLES
  known,    \* the cloud has a volume with the very ID the CO uses
  status,   \* status[v]: the status of the ephemeral volume v
  kind,     \* kind[c]: "publish" or "unpublish"
  vol,      \* vol[c]: the ephemeral volume of call c, made or found
  attached, \* attached[c]: vol[c] had an attachment when c found it
  job,      \* job[c]: state of the job that c's request started and c polls
  seen      \* history: what was true of the path and of vol[c] during the call

ephemeral == <<known, status, kind, vol, attached, job>>
ephemeralVars == <<paths, mounts, umountKind, known, status, kind, vol, attached, job, seen, pc, polls, reply>>

Listed == {v \in VolumeIds : status[v] \notin {"unborn", "gone"}}

EphemeralInit ==
  /\ known \in BOOLEAN
  /\ status = [v \in VolumeIds |-> "unborn"]
  /\ kind = [c \in Calls |-> "publish"]
  /\ vol = [c \in Calls |-> NoVolume]
  /\ attached = [c \in Calls |-> FALSE]
  /\ job = [c \in Calls |-> "none"]
  /\ seen = [c \in Calls |-> {}]
  /\ NoMounts
  /\ NoCalls

EphemeralBegin(c, k) ==
  /\ Enter(c, IF k = "publish" THEN "Validate" ELSE "GetByID")
  /\ kind' = [kind EXCEPT ![c] = k]
  /\ vol' = [vol EXCEPT ![c] = NoVolume]
  /\ attached' = [attached EXCEPT ![c] = FALSE]
  /\ UNCHANGED <<kernel, known, status, job>>

Fails(c) == Return(c, "ERR") /\ UNCHANGED <<kernel, ephemeral, polls>>

----------------------------------------------------------------------------
(* Steps of NodePublishVolume.                                             *)

\* The validation shared with ordinary volumes wants the CO's ID to exist; the
\* metadata then tell the zone.
Validate(c) ==
  /\ pc[c] = "Validate"
  /\ \/ known /\ Goto(c, "Create") /\ UNCHANGED <<kernel, ephemeral, polls>>
     \/ (~known \/ "api" \in Faults) /\ Fails(c)

\* A request was accepted: the call goes on to poll its job at l.
Await(c, l) == Goto(c, l) /\ job' = [job EXCEPT ![c] = "RUNNING"]
Lost(c) == "lost" \in Faults /\ Return(c, "ERR") /\ UNCHANGED job

\* Nothing looks for a volume of the name first.
Create(c) ==
  /\ pc[c] = "Create"
  /\ \/ \E v \in VolumeIds :
          /\ status[v] = "unborn"
          /\ status' = [status EXCEPT ![v] = "creating"]
          /\ \/ vol' = [vol EXCEPT ![c] = v] /\ Await(c, "WaitCreated")
             \/ Lost(c) /\ UNCHANGED vol
          /\ UNCHANGED <<kernel, known, kind, attached, polls>>
     \/ ((\A v \in VolumeIds : status[v] # "unborn") \/ "api" \in Faults) /\ Fails(c)

\* waitForJobFinished and waitForCondition poll the job of the call, whatever the
\* volume's status; success leads to l.  A call has one job at a time.
PollJob(c, l) ==
  /\ \/ job[c] = "SUCCESS" /\ Goto(c, l) /\ polls' = [polls EXCEPT ![c] = 0]
     \/ job[c] = "RUNNING" /\ NotYet(c)
     \/ (job[c] = "FAIL" \/ "api" \in Faults) /\ Return(c, "ERR") /\ UNCHANGED polls
  /\ job' = [job EXCEPT ![c] = IF pc'[c] = pc[c] THEN @ ELSE "none"]
  /\ UNCHANGED <<kernel, known, status, kind, vol, attached>>

WaitCreated(c) == pc[c] = "WaitCreated" /\ PollJob(c, "Attach")

\* A request the cloud takes on only in status s, and starts with status t; the
\* call then polls its job at l.
Ask(c, s, t, l) ==
  \/ /\ status[vol[c]] = s
     /\ status' = [status EXCEPT ![vol[c]] = t]
     /\ Await(c, l) \/ Lost(c)
     /\ UNCHANGED <<kernel, known, kind, vol, attached, polls>>
  \/ (status[vol[c]] # s \/ "api" \in Faults) /\ Fails(c)

\* The metadata tell the instance to attach it to.
AttachEphemeral(c) == pc[c] = "Attach" /\ Ask(c, "available", "attaching", "WaitAttached")

WaitAttached(c) == pc[c] = "WaitAttached" /\ PollJob(c, "Mount")

\* getDevicePath and the check of the target, which is made if it is missing.
\* A target mounted by an earlier call is left as it is.
PrepareTarget(c) ==
  /\ pc[c] = "Mount"
  /\ \/ /\ status[vol[c]] = "in-use"
        /\ IF LikelyMounted("target") THEN Return(c, "OK") /\ UNCHANGED kernel
           ELSE Goto(c, "FormatAndMount") /\ MakePath("target")
        /\ UNCHANGED <<ephemeral, polls>>
     \/ (status[vol[c]] # "in-use" \/ "timeout" \in Faults) /\ Fails(c)

FormatAndMount(c) ==
  /\ pc[c] = "FormatAndMount"
  /\ \/ /\ status[vol[c]] = "in-use" /\ Shows("target") # vol[c]
        /\ Stack("target", vol[c]) /\ Return(c, "OK")
        /\ UNCHANGED <<ephemeral, polls>>
     \/ (status[vol[c]] # "in-use" \/ "target" \notin paths \/ "jobfail" \in Faults) /\ Fails(c)

----------------------------------------------------------------------------
(* Steps of NodeUnpublishVolume.                                           *)

\* A volume with the CO's ID is taken for an ordinary one: it is only unmounted.
GetByID(c) ==
  /\ pc[c] = "GetByID"
  /\ \/ Goto(c, IF known THEN "Cleanup" ELSE "ListByName") /\ UNCHANGED <<kernel, ephemeral, polls>>
     \/ "api" \in Faults /\ Fails(c)

\* A volume that is being attached may show the attachment before it is in-use.
ShowsAttachment(v, shown) ==
  /\ status[v] \in {"in-use", "detaching"} => shown
  /\ shown => status[v] \in {"attaching", "in-use", "detaching"}

\* The first volume of the list is the one; an empty list is an error.
ListByName(c) ==
  /\ pc[c] = "ListByName"
  /\ \/ \E v \in Listed, shown \in BOOLEAN :
          /\ ShowsAttachment(v, shown)
          /\ vol' = [vol EXCEPT ![c] = v]
          /\ attached' = [attached EXCEPT ![c] = shown]
          /\ Goto(c, "Cleanup")
          /\ UNCHANGED <<kernel, known, status, kind, job, polls>>
     \/ (Listed = {} \/ "api" \in Faults) /\ Fails(c)

UnmountEphemeral(c) ==
  /\ kind[c] = "unpublish"
  /\ UnmountPath(c, "target", IF vol[c] = NoVolume THEN "return" ELSE "Detach")
  /\ UNCHANGED ephemeral

\* A volume whose attachment list was empty when it was found fails at once.
DetachEphemeral(c) ==
  /\ pc[c] = "Detach"
  /\ \/ attached[c] /\ Ask(c, "in-use", "detaching", "WaitDetached")
     \/ ~attached[c] /\ Fails(c)

WaitDetached(c) == pc[c] = "WaitDetached" /\ PollJob(c, "Delete")

\* The cloud deletes only a volume nothing else is done to; any refusal is an error.
DeleteEphemeral(c) ==
  /\ pc[c] = "Delete"
  /\ \/ /\ status[vol[c]] \in {"available", "error"}
        /\ status' = [status EXCEPT ![vol[c]] = "deleting"]
        /\ Return(c, "OK") \/ ("lost" \in Faults /\ Return(c, "ERR"))
        /\ UNCHANGED <<kernel, known, kind, vol, attached, job, polls>>
     \/ (status[vol[c]] \notin {"available", "error"} \/ "api" \in Faults) /\ Fails(c)

----------------------------------------------------------------------------
(* The cloud, the node, history.                                           *)

Ends == {<<"creating", "available">>, <<"attaching", "in-use">>,
         <<"detaching", "available">>, <<"deleting", "gone">>}
Failures == {<<"creating", "error">>, <<"attaching", "available">>,
             <<"detaching", "in-use">>, <<"deleting", "error">>}

\* The operation on v ends, and so does its job if a call polls it.
CloudEnds(v) ==
  /\ \E e \in Ends \cup IF "jobfail" \in Faults THEN Failures ELSE {} :
       /\ status[v] = e[1] /\ status' = [status EXCEPT ![v] = e[2]]
       /\ job' = [c \in Calls |->
                    IF job[c] = "RUNNING" /\ vol[c] = v
                    THEN IF e \in Ends THEN "SUCCESS" ELSE "FAIL"
                    ELSE job[c]]
  /\ UNCHANGED <<kernel, known, kind, vol, attached, pc, polls, reply>>

KnownGone ==
  /\ known /\ known' = FALSE
  /\ UNCHANGED <<kernel, status, kind, vol, attached, job, pc, polls, reply>>

EphemeralCrash ==
  /\ CrashCalls /\ job' = [c \in Calls |-> "none"]
  /\ UNCHANGED <<kernel, known, status, kind, vol, attached>>

SeenNow(c) ==
  {f \in {"clear", "doomed"} :
     \/ f = "clear" /\ ~IsMounted("target")
     \/ f = "doomed" /\ vol[c] # NoVolume /\ status[vol[c]] \in {"deleting", "gone"}}

EphemeralHistory ==
  seen' = [c \in Calls |->
    IF reply'[c] = "ERR" THEN {}
    ELSE IF InProgress(c) THEN seen[c] \cup SeenNow(c)'
    ELSE IF InProgress(c)' THEN SeenNow(c)'
    ELSE seen[c]]

PublishEphemeral(c) ==
  \/ Validate(c) \/ Create(c) \/ WaitCreated(c) \/ AttachEphemeral(c) \/ WaitAttached(c)
  \/ PrepareTarget(c) \/ FormatAndMount(c)

UnpublishVolume(c) == GetByID(c) \/ ListByName(c) \/ UnmountEphemeral(c)

UnpublishEphemeral(c) == DetachEphemeral(c) \/ WaitDetached(c) \/ DeleteEphemeral(c)

EphemeralHandle(c) ==
  /\ PublishEphemeral(c) \/ UnpublishVolume(c) \/ UnpublishEphemeral(c)
  /\ EphemeralHistory

EphemeralNext ==
  \/ \E c \in Calls : EphemeralHandle(c)
  \/ /\ \/ \E c \in Calls : EphemeralBegin(c, "publish") \/ EphemeralBegin(c, "unpublish")
        \/ \E v \in VolumeIds : CloudEnds(v)
        \/ KnownGone
        \/ EphemeralCrash
     /\ EphemeralHistory

EphemeralSpec == EphemeralInit /\ [][EphemeralNext]_ephemeralVars

----------------------------------------------------------------------------
(* Properties.                                                             *)

\* An unpublish call that answers OK left the target unmounted and, when it took
\* a volume of the ephemeral name for its own, set the deletion of that very
\* volume off: with two volumes of the name it is not necessarily the one that
\* was mounted.
EphemeralUnpublishIsHonest ==
  \A c \in Calls :
    ~InProgress(c) /\ reply[c] = "OK" /\ kind[c] = "unpublish" =>
      /\ "clear" \in seen[c]
      /\ vol[c] # NoVolume => "doomed" \in seen[c]
=============================================================================
