----------------------------- MODULE EvsProvision -----------------------------
(***************************************************************************)
(* CreateVolume, DeleteVolume and ControllerExpandVolume of the EVS driver *)
(* (pkg/evs/controllerserver.go, pkg/evs/services/volumes.go), for the     *)
(* volumes of one name, together with the part of the cloud they drive.    *)
(*                                                                         *)
(* EVS does not make names unique: CreateVolume lists the volumes of the   *)
(* name and creates one if there is none, in two requests.  As in          *)
(* EvsAttach a call is a process whose steps are its requests, calls run   *)
(* side by side without locks, and the cloud finishes what it accepted     *)
(* whether or not the call still waits.                                    *)
(***************************************************************************)
EXTENDS Naturals, FiniteSets

CONSTANTS
  VolumeIds,   \* the IDs the cloud can give out: its quota, for this name
  Calls,       \* the calls that can be in progress at the same time
  Rpcs,        \* the kinds of request the CO makes
  Sizes,       \* the sizes it asks for, in GiB, rounded up
  CinderLimit, \* below this size a volume is made by the Cinder API (10)
  MaxPolls,    \* number of polls of a wait (DefaultSteps, 30 in the code)
  Faults,      \* what can go wrong: see FaultKinds
  NoVolume     \* the ID of no volume

FaultKinds == {
  "api",     \* a request to the cloud is answered with an error
  "lost",    \* a request is carried out but its answer is lost
  "timeout", \* an operation of the cloud outlasts the polls of a wait
  "jobfail", \* an operation of the cloud fails
  "crash",   \* the driver's process dies and is restarted
  "lag" }    \* a volume being created by a job is listed later

ASSUME VolumeIdsAssumption == IsFiniteSet(VolumeIds) /\ NoVolume \notin VolumeIds
ASSUME CallsAssumption == IsFiniteSet(Calls)
ASSUME RpcsAssumption == Rpcs \subseteq {"create", "delete", "expand"}
ASSUME SizesAssumption == Sizes \subseteq Nat \ {0} /\ Sizes # {}
ASSUME CinderLimitAssumption == CinderLimit \in Nat
ASSUME MaxPollsAssumption == MaxPolls \in Nat \ {0}
ASSUME FaultsAssumption == Faults \subseteq FaultKinds

VARIABLES
  status,   \* status[v]: the status of the volume with ID v
  size,     \* size[v]: its size
  goal,     \* goal[v]: the size it has when the extension under way succeeds
  job,      \* job[c]: state of the job that c's request started
  pc,       \* pc[c]: the next request of call c
  rpc,      \* rpc[c]: the kind of call c
  asked,    \* asked[c]: the size c asks for
  target,   \* target[c]: the volume of c: of the request, found or made
  polls,    \* polls c has made in its wait
  reply,    \* the answer of the last call of slot c
  witness   \* history: what was true of c's volume during the call

cloud == <<status, size, goal>>
request == <<rpc, asked>>
calls == <<pc, rpc, asked, target, polls, reply>>
vars == <<status, size, goal, job, pc, rpc, asked, target, polls, reply, witness>>

\* "unborn" and "gone" IDs are of no volume; a "submitted" volume is not listed
\* yet; "available" stands for in-use too, which these handlers treat alike.
Status == {"unborn", "submitted", "creating", "available", "extending", "error",
           "deleting", "gone"}
Request == {"CheckVolumeExists", "CheckSnapshotExists", "Create", "WaitCreated",
            "WaitCinder", "GetCreated", "Delete", "ExpandGetVolume", "Expand",
            "WaitExpanded"}
Fact == {"made", "ready", "sized", "grown", "doomed"}

Exists(v) == status[v] \notin {"unborn", "gone"}
Listed == {v \in VolumeIds : status[v] \notin {"unborn", "submitted", "gone"}}

Init ==
  /\ status = [v \in VolumeIds |-> "unborn"]
  /\ size \in [VolumeIds -> {0}] /\ goal = size
  /\ job = [c \in Calls |-> "none"]
  /\ pc = [c \in Calls |-> "idle"]
  /\ rpc = [c \in Calls |-> "create"]
  /\ asked = [c \in Calls |-> 0]
  /\ target = [c \in Calls |-> NoVolume]
  /\ polls = [c \in Calls |-> 0]
  /\ reply = [c \in Calls |-> "none"]
  /\ witness = [c \in Calls |-> {}]

----------------------------------------------------------------------------
(* Steps of a call.                                                        *)

InProgress(c) == pc[c] # "idle"

Goto(c, l) ==
  /\ pc' = [pc EXCEPT ![c] = l]
  /\ job' = [job EXCEPT ![c] = "none"]
  /\ UNCHANGED reply

Return(c, r) ==
  /\ pc' = [pc EXCEPT ![c] = "idle"]
  /\ reply' = [reply EXCEPT ![c] = r]
  /\ job' = [job EXCEPT ![c] = "none"]

FirstRequest(kind) == CASE kind = "create" -> "CheckVolumeExists"
                        [] kind = "delete" -> "Delete"
                        [] kind = "expand" -> "ExpandGetVolume"

\* The CO creates the volume by name, deletes and expands volumes by ID.
Begin(c, kind, sz, v) ==
  /\ ~InProgress(c)
  /\ IF kind = "create" THEN v = NoVolume ELSE v \in VolumeIds /\ status[v] # "unborn"
  /\ pc' = [pc EXCEPT ![c] = FirstRequest(kind)]
  /\ rpc' = [rpc EXCEPT ![c] = kind]
  /\ asked' = [asked EXCEPT ![c] = IF kind = "delete" THEN 0 ELSE sz]
  /\ target' = [target EXCEPT ![c] = v]
  /\ polls' = [polls EXCEPT ![c] = 0]
  /\ reply' = [reply EXCEPT ![c] = "none"]
  /\ UNCHANGED <<cloud, job>>

\* The operators named Faulty... are what plausible mistakes would make of the
\* definition that follows them; the properties below must catch them.

\* The volumes found by name, whatever their status, and those of the right size.
FaultyPassesOverFailed == {v \in Listed : status[v] # "error"}
SameName == Listed
FaultyAnySize(v, sz) == TRUE
FaultyNotIdempotent(v, sz) == FALSE
SameSize(v, sz) == size[v] = sz

\* CreateVolume lists the volumes of the name.  One of the right size is the
\* answer, whatever its status; one of another size, or several, are an error.
CheckVolumeExists(c) ==
  /\ pc[c] = "CheckVolumeExists"
  /\ \/ SameName = {} /\ Goto(c, "CheckSnapshotExists") /\ UNCHANGED target
     \/ \E v \in SameName :
          /\ SameName = {v} /\ SameSize(v, asked[c])
          /\ target' = [target EXCEPT ![c] = v]
          /\ Return(c, "OK")
     \/ /\ \/ Cardinality(SameName) > 1
           \/ \E v \in SameName : SameName = {v} /\ ~SameSize(v, asked[c])
           \/ "api" \in Faults
        /\ Return(c, "ERR")
        /\ UNCHANGED target
  /\ UNCHANGED <<cloud, request, polls>>

\* The source snapshot is read, and the parameters are checked.
CheckSnapshotExists(c) ==
  /\ pc[c] = "CheckSnapshotExists"
  /\ Goto(c, "Create") \/ ("api" \in Faults /\ Return(c, "ERR"))
  /\ UNCHANGED <<cloud, request, target, polls>>

\* The cloud takes on the creation of a volume of size sz, as ID v.
AcceptCreate(v, sz) ==
  /\ status[v] = "unborn"
  /\ \E s \in {"creating"} \cup
              IF "lag" \in Faults /\ sz >= CinderLimit THEN {"submitted"} ELSE {} :
       status' = [status EXCEPT ![v] = s]
  /\ size' = [size EXCEPT ![v] = sz]
  /\ goal' = [goal EXCEPT ![v] = sz]

\* CreateVolumeCompleted polls a job; CreateCinderCompleted, for small volumes,
\* has no job and polls the volume's status.
Create(c) ==
  /\ pc[c] = "Create"
  /\ \/ \E v \in VolumeIds :
          /\ AcceptCreate(v, asked[c])
          /\ \/ /\ target' = [target EXCEPT ![c] = v]
                /\ IF asked[c] < CinderLimit
                   THEN Goto(c, "WaitCinder")
                   ELSE /\ pc' = [pc EXCEPT ![c] = "WaitCreated"]
                        /\ job' = [job EXCEPT ![c] = "RUNNING"]
                        /\ UNCHANGED reply
             \/ "lost" \in Faults /\ Return(c, "ERR") /\ UNCHANGED target
     \/ /\ (\A v \in VolumeIds : status[v] # "unborn") \/ "api" \in Faults
        /\ Return(c, "ERR")
        /\ UNCHANGED <<cloud, target>>
  /\ UNCHANGED <<request, polls>>

\* WaitForCompleted polls at most MaxPolls times.
FaultyOnePollMore(c) ==
  \/ polls[c] < MaxPolls /\ polls' = [polls EXCEPT ![c] = @ + 1] /\ UNCHANGED <<pc, job, reply>>
  \/ polls[c] = MaxPolls /\ Return(c, "ERR") /\ UNCHANGED polls

FaultyNoLimit(c) == UNCHANGED <<polls, pc, job, reply>>
NotYet(c) ==
  \/ /\ polls[c] + 1 < MaxPolls
     /\ polls' = [polls EXCEPT ![c] = @ + 1]
     /\ UNCHANGED <<pc, job, reply>>
  \/ /\ polls[c] + 1 = MaxPolls
     /\ "timeout" \in Faults
     /\ Return(c, "ERR")
     /\ UNCHANGED polls

\* waitForJobFinished polls the job of the call; success continues with done.
PollJob(c, done) ==
  \/ job[c] = "SUCCESS" /\ done /\ UNCHANGED polls
  \/ job[c] = "FAIL" /\ Return(c, "ERR") /\ UNCHANGED polls
  \/ job[c] = "RUNNING" /\ NotYet(c)
  \/ "api" \in Faults /\ Return(c, "ERR") /\ UNCHANGED polls

WaitCreated(c) ==
  /\ pc[c] = "WaitCreated"
  /\ PollJob(c, Goto(c, "GetCreated"))
  /\ UNCHANGED <<cloud, request, target>>

\* waitForCinderFinished polls the volume: any status but the two good ones and
\* error means not yet, a missing volume is an error.
WaitCinder(c) ==
  /\ pc[c] = "WaitCinder"
  /\ LET s == status[target[c]]
     IN  \/ s = "available" /\ Goto(c, "GetCreated") /\ UNCHANGED polls
         \/ s \in {"creating", "extending", "deleting"} /\ NotYet(c)
         \/ s \in {"error", "gone"} /\ Return(c, "ERR") /\ UNCHANGED polls
         \/ "api" \in Faults /\ Return(c, "ERR") /\ UNCHANGED polls
  /\ UNCHANGED <<cloud, request, target>>

\* The volume is read for the response.
GetCreated(c) ==
  /\ pc[c] = "GetCreated"
  /\ \/ Exists(target[c]) /\ Return(c, "OK")
     \/ (~Exists(target[c]) \/ "api" \in Faults) /\ Return(c, "ERR")
  /\ UNCHANGED <<cloud, request, target, polls>>

\* The cloud deletes a volume only when nothing else is being done to it.
AcceptDelete(v) ==
  /\ status[v] \in {"available", "error"}
  /\ status' = [status EXCEPT ![v] = "deleting"]
  /\ UNCHANGED <<size, goal>>

\* The cloud answers a request about the volume with not found.
FaultyConflictIsNotFound(v) == status[v] \notin {"available", "error"}
NotFound(v) == ~Exists(v)

\* DeleteVolume does not wait for the volume to disappear; not found is success.
Delete(c) ==
  /\ pc[c] = "Delete"
  /\ \/ /\ AcceptDelete(target[c])
        /\ \/ Return(c, "OK")
           \/ "lost" \in Faults /\ Return(c, "ERR")
     \/ NotFound(target[c]) /\ Return(c, "OK") /\ UNCHANGED cloud
     \/ /\ \/ ~NotFound(target[c]) /\ status[target[c]] \notin {"available", "error"}
           \/ "api" \in Faults
        /\ Return(c, "ERR")
        /\ UNCHANGED cloud
  /\ UNCHANGED <<request, target, polls>>

\* An expand call has nothing to do.
FaultyJoinsExtension(v, sz) == size[v] >= sz \/ status[v] = "extending"
LargeEnough(v, sz) == size[v] >= sz

\* ControllerExpandVolume reads the volume: one that is large enough is done.
ExpandGetVolume(c) ==
  /\ pc[c] = "ExpandGetVolume"
  /\ \/ /\ Exists(target[c])
        /\ IF LargeEnough(target[c], asked[c]) THEN Return(c, "OK") ELSE Goto(c, "Expand")
     \/ (~Exists(target[c]) \/ "api" \in Faults) /\ Return(c, "ERR")
  /\ UNCHANGED <<cloud, request, target, polls>>

\* The cloud extends a volume that is available, and never makes it smaller.
AcceptExtend(v, sz) ==
  /\ status[v] = "available" /\ size[v] < sz
  /\ status' = [status EXCEPT ![v] = "extending"]
  /\ goal' = [goal EXCEPT ![v] = sz]
  /\ UNCHANGED size

Expand(c) ==
  /\ pc[c] = "Expand"
  /\ \/ /\ AcceptExtend(target[c], asked[c])
        /\ \/ /\ pc' = [pc EXCEPT ![c] = "WaitExpanded"]
              /\ job' = [job EXCEPT ![c] = "RUNNING"]
              /\ UNCHANGED reply
           \/ "lost" \in Faults /\ Return(c, "ERR")
     \/ /\ \/ status[target[c]] # "available" \/ size[target[c]] >= asked[c]
           \/ "api" \in Faults
        /\ Return(c, "ERR")
        /\ UNCHANGED cloud
  /\ UNCHANGED <<request, target, polls>>

WaitExpanded(c) ==
  /\ pc[c] = "WaitExpanded"
  /\ PollJob(c, Return(c, "OK"))
  /\ UNCHANGED <<cloud, request, target>>

----------------------------------------------------------------------------
(* Steps of the cloud, and of the driver's process as a whole.             *)

\* The job of the operation on v, if a call polls it, ends with the result.
EndJob(v, result) ==
  job' = [c \in Calls |->
            IF job[c] = "RUNNING" /\ target[c] = v THEN result ELSE job[c]]

ListVolume(v) ==
  /\ status[v] = "submitted"
  /\ status' = [status EXCEPT ![v] = "creating"]
  /\ UNCHANGED <<size, goal, job, calls>>

CreateSucceeds(v) ==
  /\ status[v] = "creating"
  /\ status' = [status EXCEPT ![v] = "available"]
  /\ EndJob(v, "SUCCESS")
  /\ UNCHANGED <<size, goal, calls>>

CreateFails(v) ==
  /\ status[v] = "creating" /\ "jobfail" \in Faults
  /\ status' = [status EXCEPT ![v] = "error"]
  /\ EndJob(v, "FAIL")
  /\ UNCHANGED <<size, goal, calls>>

ExtendSucceeds(v) ==
  /\ status[v] = "extending"
  /\ status' = [status EXCEPT ![v] = "available"]
  /\ size' = [size EXCEPT ![v] = goal[v]]
  /\ EndJob(v, "SUCCESS")
  /\ UNCHANGED <<goal, calls>>

ExtendFails(v) ==
  /\ status[v] = "extending" /\ "jobfail" \in Faults
  /\ \E s \in {"available", "error"} : status' = [status EXCEPT ![v] = s]
  /\ EndJob(v, "FAIL")
  /\ UNCHANGED <<size, goal, calls>>

DeleteEnds(v) ==
  /\ status[v] = "deleting"
  /\ \/ status' = [status EXCEPT ![v] = "gone"]
     \/ "jobfail" \in Faults /\ status' = [status EXCEPT ![v] = "error"]
  /\ UNCHANGED <<size, goal, job, calls>>

\* The process dies: its calls end with a broken connection.
Crash ==
  /\ "crash" \in Faults /\ \E c \in Calls : InProgress(c)
  /\ pc' = [c \in Calls |-> "idle"]
  /\ reply' = [c \in Calls |-> IF InProgress(c) THEN "ERR" ELSE reply[c]]
  /\ job' = [c \in Calls |-> "none"]
  /\ UNCHANGED <<cloud, request, target, polls>>

----------------------------------------------------------------------------
(* History.                                                                *)

\* What is true now of the volume of call c.
Facts(c) ==
  LET v == target[c]
  IN  {f \in Fact : /\ v # NoVolume
                    /\ \/ f = "made" /\ pc[c] \in {"WaitCreated", "WaitCinder"}
                       \/ f = "ready" /\ status[v] \in {"available", "extending"}
                       \/ f = "sized" /\ Exists(v) /\ size[v] = asked[c]
                       \/ f = "grown" /\ Exists(v) /\ size[v] >= asked[c]
                       \/ f = "doomed" /\ status[v] \in {"deleting", "gone"}}

History ==
  witness' = [c \in Calls |->
    IF reply'[c] = "ERR" THEN {}
    ELSE IF InProgress(c) THEN witness[c] \cup Facts(c)'
    ELSE IF InProgress(c)' THEN Facts(c)'
    ELSE witness[c]]

----------------------------------------------------------------------------
CreateVolume(c) == \/ CheckVolumeExists(c) \/ CheckSnapshotExists(c) \/ Create(c)
                   \/ WaitCreated(c) \/ WaitCinder(c) \/ GetCreated(c)

ControllerExpandVolume(c) == ExpandGetVolume(c) \/ Expand(c) \/ WaitExpanded(c)

Handle(c) == (CreateVolume(c) \/ Delete(c) \/ ControllerExpandVolume(c)) /\ History

Start(c) ==
  /\ \E kind \in Rpcs, sz \in Sizes, v \in VolumeIds \cup {NoVolume} : Begin(c, kind, sz, v)
  /\ History

CloudEnds(v) ==
  /\ \/ ListVolume(v) \/ CreateSucceeds(v) \/ CreateFails(v)
     \/ ExtendSucceeds(v) \/ ExtendFails(v) \/ DeleteEnds(v)
  /\ History

Next == \/ \E c \in Calls : Start(c) \/ Handle(c)
        \/ \E v \in VolumeIds : CloudEnds(v)
        \/ Crash /\ History

Spec == Init /\ [][Next]_vars

\* The runtime schedules every goroutine; nothing is asked of the cloud.
LiveSpec == Spec /\ \A c \in Calls : WF_vars(Handle(c))

\* What retries need beside it: the CO keeps trying and the cloud's operations end.
RetryFairness == /\ \A c \in Calls : WF_vars(Start(c))
                 /\ \A v \in VolumeIds : WF_vars(CloudEnds(v))

----------------------------------------------------------------------------
(* Properties.                                                             *)

\* Every variable stays in its range.
TypeOK ==
  /\ status \in [VolumeIds -> Status]
  /\ size \in [VolumeIds -> Sizes \cup {0}]
  /\ goal \in [VolumeIds -> Sizes \cup {0}]
  /\ job \in [Calls -> {"none", "RUNNING", "SUCCESS", "FAIL"}]
  /\ pc \in [Calls -> {"idle"} \cup Request]
  /\ rpc \in [Calls -> {"create", "delete", "expand"}]
  /\ asked \in [Calls -> Sizes \cup {0}]
  /\ target \in [Calls -> VolumeIds \cup {NoVolume}]
  /\ polls \in [Calls -> 0 .. MaxPolls - 1]
  /\ reply \in [Calls -> {"none", "OK", "ERR"}]
  /\ witness \in [Calls -> SUBSET Fact]

Answered(c, kind) == ~InProgress(c) /\ reply[c] = "OK" /\ rpc[c] = kind

\* A create call that answers OK returns a volume of the name that existed with
\* the size asked for during the call; one the call made itself, by a job or by
\* the Cinder API, had become available before the answer.
CreateIsHonest ==
  \A c \in Calls : Answered(c, "create") =>
    /\ "sized" \in witness[c]
    /\ "made" \in witness[c] => "ready" \in witness[c]

\* A delete call that answers OK found the volume gone or set its deletion off.
DeleteIsHonest ==
  \A c \in Calls : Answered(c, "delete") => "doomed" \in witness[c]

\* An expand call that answers OK had a volume at least as large as it asked
\* for, whether it was so already or the job of its own extension ended well.
ExpandIsHonest ==
  \A c \in Calls : Answered(c, "expand") => "grown" \in witness[c]

\* The create calls between the listing that found no volume and the request
\* that makes one: nothing they read protects them from each other.
Committed == {c \in Calls : pc[c] \in {"CheckSnapshotExists", "Create"}}

\* The race between listing and creating does no more harm than this: however
\* long the CO goes on retrying, the volumes of one name and the calls about to
\* make another are never more than the calls that can run at the same time.
DuplicatesBounded ==
  Cardinality(Listed) + Cardinality(Committed) <= Cardinality(Calls)

\* There is never more than one volume of the name.
OneVolumePerName == Cardinality(Listed) <= 1

\* A create call that answers OK does not hand out a volume that failed or is
\* being deleted.
NoUselessVolume ==
  [][\A c \in Calls : InProgress(c) /\ Answered(c, "create")'
       => status[target'[c]] \notin {"error", "deleting"}]_vars

\* Every call returns, even when the operation it waits for never ends.
CallsReturn == \A c \in Calls : InProgress(c) ~> ~InProgress(c)

\* A create request that is retried after time-outs and lost answers ends up
\* with exactly one volume, available, and the CO learns of it again and again,
\* provided the cloud lists a volume as soon as it accepts it.
RetriesConverge ==
  RetryFairness /\ [](\A v \in VolumeIds : status[v] # "submitted")
    => /\ <>[](\E v \in VolumeIds : Listed = {v} /\ status[v] = "available")
       /\ \A c \in Calls : []<>(reply[c] = "OK")
=============================================================================
