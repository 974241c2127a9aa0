------------------------------ MODULE EvsAttach ------------------------------
(***************************************************************************)
(* ControllerPublishVolume and ControllerUnpublishVolume of the EVS driver *)
(* (pkg/evs/controllerserver.go, pkg/evs/services/computes.go), for one    *)
(* volume, together with the part of the cloud they drive: the volume's    *)
(* status and attachment list, and the attach or detach operation that is  *)
(* in progress on it.                                                      *)
(*                                                                         *)
(* The gRPC server runs every request in a goroutine of its own, the       *)
(* handlers hold no lock and ignore the request's context.  A call is      *)
(* therefore a small process: each request it sends to the cloud is one    *)
(* step, and between two steps every other call and the cloud may move.    *)
(* Two calls of the same kind for the same node run side by side when the  *)
(* container orchestrator (the CO) gives up on the first and retries.      *)
(*                                                                         *)
(* The cloud is external: it is modelled as far as the handlers depend on  *)
(* it.  It runs one operation on the volume at a time, and goes on with it *)
(* whether or not anybody waits for the result.                            *)
(***************************************************************************)
EXTENDS Naturals

CONSTANTS
  Servers,   \* the ECS instances that exist at the start
  Calls,     \* the calls that can be in progress at the same time
  Intents,   \* the requests the CO makes: pairs <<rpc, server>>
  MaxPolls,  \* number of polls of a wait (DefaultSteps, 30 in the code)
  Faults,    \* what can go wrong: see FaultKinds
  NoServer   \* the server of no operation

FaultKinds == {
  "api",     \* a request to the cloud is answered with an error
  "lost",    \* a request is carried out but its answer is lost
  "timeout", \* an operation of the cloud outlasts the polls of a wait
  "jobfail", \* an operation of the cloud fails
  "crash",   \* the driver's process dies and is restarted
  "delete" } \* an ECS instance is deleted

ASSUME MaxPollsAssumption == MaxPolls \in Nat \ {0}
ASSUME IntentsAssumption == Intents \subseteq {"publish", "unpublish"} \X Servers
ASSUME NoServerAssumption == NoServer \notin Servers
ASSUME FaultsAssumption == Faults \subseteq FaultKinds

VARIABLES
  servers,          \* ECS instances that exist
  volume,           \* status and attachment list the cloud reports
  operation,        \* what the cloud is doing to the volume
  job,              \* job[c]: state of the job that c's request started
  pc,               \* pc[c]: the next request of call c
  rpc, node,        \* the request of call c
  attachmentStatus, \* local variable of ControllerPublishVolume
  seen,             \* the volume as c last read it
  polls,            \* polls c has made in its wait
  reply,            \* the answer of the last call of slot c
  witness,          \* history: what was true of the volume during call c
  released          \* history: servers the CO was told are unpublished, no
                    \* attachment to them being under way

cloud == <<servers, volume, operation>>
vars == <<servers, volume, operation, job, pc, rpc, node, attachmentStatus,
          seen, polls, reply, witness, released>>

VolumeStatus == {"available", "attaching", "in-use", "detaching"}
Volume == [status : VolumeStatus, attachments : SUBSET Servers]
Idle == [kind |-> "none", server |-> NoServer]
Operation == {Idle} \cup [kind : {"attach", "detach"}, server : Servers]
AttachmentStatus == {"unknown", "NotAttached", "AttachingCurrentServer",
                     "AttachingOtherServer", "AttachedCurrentServer",
                     "AttachedOtherServer", "AttachError"}
Request == {"GetServer", "GetVolume", "Attach", "WaitAttached", "WaitAttaching",
            "GetDevice", "UnpublishGetVolume", "UnpublishGetServer", "Detach",
            "WaitDetached"}
JobState == {"none", "RUNNING", "SUCCESS", "FAIL", "Ecs.0111"}
Fact == {"in-use", "attached", "detached", "contended"}

NewVolume == [status |-> "available", attachments |-> {}]

Init ==
  /\ servers = Servers
  /\ volume = NewVolume
  /\ operation = Idle
  /\ job = [c \in Calls |-> "none"]
  /\ pc = [c \in Calls |-> "idle"]
  /\ \E i \in Intents : /\ rpc = [c \in Calls |-> i[1]]
                        /\ node = [c \in Calls |-> i[2]]
  /\ attachmentStatus = [c \in Calls |-> "unknown"]
  /\ seen = [c \in Calls |-> NewVolume]
  /\ polls = [c \in Calls |-> 0]
  /\ reply = [c \in Calls |-> "none"]
  /\ witness = [c \in Calls |-> {}]
  /\ released = {}

----------------------------------------------------------------------------
(* Steps of a call.                                                        *)

InProgress(c) == pc[c] # "idle"

\* The call goes on with the request named l, a job it polled being over.
Goto(c, l) ==
  /\ pc' = [pc EXCEPT ![c] = l]
  /\ job' = [job EXCEPT ![c] = "none"]
  /\ UNCHANGED reply

\* The handler returns: r is "OK" or "ERR".  Nobody polls its job any more.
Return(c, r) ==
  /\ pc' = [pc EXCEPT ![c] = "idle"]
  /\ reply' = [reply EXCEPT ![c] = r]
  /\ job' = [job EXCEPT ![c] = "none"]

request == <<rpc, node>>

Begin(c, i) ==
  /\ ~InProgress(c)
  /\ pc' = [pc EXCEPT ![c] =
              IF i[1] = "publish" THEN "GetServer" ELSE "UnpublishGetVolume"]
  /\ rpc' = [rpc EXCEPT ![c] = i[1]]
  /\ node' = [node EXCEPT ![c] = i[2]]
  /\ attachmentStatus' = [attachmentStatus EXCEPT ![c] = "unknown"]
  /\ seen' = [seen EXCEPT ![c] = NewVolume]
  /\ polls' = [polls EXCEPT ![c] = 0]
  /\ reply' = [reply EXCEPT ![c] = "none"]
  /\ UNCHANGED <<servers, volume, operation, job>>

\* publishValidation asks for the ECS instance.
GetServer(c) ==
  /\ pc[c] = "GetServer"
  /\ \/ node[c] \in servers /\ Goto(c, "GetVolume")
     \/ (node[c] \notin servers \/ "api" \in Faults) /\ Return(c, "ERR")
  /\ UNCHANGED <<cloud, request, attachmentStatus, seen, polls>>

\* The operators named Faulty... are what plausible mistakes would make of the
\* definition that follows them; the properties below must catch them.
FaultyIgnoresServer(v, s) ==
  IF v.status = "available" THEN "NotAttached" ELSE "AttachedCurrentServer"
FaultyNotIdempotent(v, s) ==
  IF v.status = "available" THEN "NotAttached" ELSE "AttachedOtherServer"

VolumeAttachmentStatus(v, s) ==
  CASE v.status = "available" -> "NotAttached"
    [] v.status = "attaching" /\ s \in v.attachments -> "AttachingCurrentServer"
    [] v.status = "attaching" /\ s \notin v.attachments -> "AttachingOtherServer"
    [] v.status = "in-use" /\ s \in v.attachments -> "AttachedCurrentServer"
    [] v.status = "in-use" /\ s \notin v.attachments -> "AttachedOtherServer"
    [] OTHER -> "AttachError"

\* The first GetVolume of a publish call and the switch on its result.
GetVolume(c) ==
  /\ pc[c] = "GetVolume"
  /\ \/ LET found == VolumeAttachmentStatus(volume, node[c])
        IN  /\ attachmentStatus' = [attachmentStatus EXCEPT ![c] = found]
            /\ seen' = [seen EXCEPT ![c] = volume]
            /\ \/ found = "NotAttached" /\ Goto(c, "Attach")
               \/ found = "AttachingCurrentServer" /\ Goto(c, "WaitAttaching")
               \/ found = "AttachedCurrentServer" /\ Return(c, "OK")
               \/ /\ found \in {"AttachingOtherServer", "AttachedOtherServer", "AttachError"}
                  /\ Return(c, "ERR")
     \/ "api" \in Faults /\ Return(c, "ERR") /\ UNCHANGED <<attachmentStatus, seen>>
  /\ UNCHANGED <<cloud, request, polls>>

\* The cloud takes on the attachment of the volume to server s: it does so
\* only for an available volume, a volume being not shareable.
AcceptAttach(s) ==
  /\ volume.status = "available" /\ s \in servers
  /\ volume' = [volume EXCEPT !.status = "attaching"]
  /\ operation' = [kind |-> "attach", server |-> s]
  /\ UNCHANGED servers

\* AttachVolumeCompleted sends the attach request and then polls the job.
Attach(c) ==
  /\ pc[c] = "Attach"
  /\ \/ /\ AcceptAttach(node[c])
        /\ \/ /\ pc' = [pc EXCEPT ![c] = "WaitAttached"]
              /\ job' = [job EXCEPT ![c] = "RUNNING"]
              /\ UNCHANGED reply
           \/ "lost" \in Faults /\ Return(c, "ERR")
     \/ /\ \/ volume.status # "available" \/ node[c] \notin servers
           \/ "api" \in Faults
        /\ Return(c, "ERR")
        /\ UNCHANGED cloud
  /\ UNCHANGED <<request, attachmentStatus, seen, polls>>

\* WaitForCompleted polls at most MaxPolls times; the last poll that finds the
\* condition still false ends the wait with ErrWaitTimeout.
FaultyOnePollMore(c) ==
  \/ polls[c] < MaxPolls /\ polls' = [polls EXCEPT ![c] = @ + 1] /\ UNCHANGED <<pc, job, reply>>
  \/ polls[c] = MaxPolls /\ Return(c, "ERR") /\ UNCHANGED polls

FaultyNoLimit(c) == UNCHANGED <<polls, pc, job, reply>>
NotYet(c) ==
  \/ /\ polls[c] + 1 < MaxPolls
     /\ polls' = [polls EXCEPT ![c] = @ + 1]
     /\ UNCHANGED <<pc, job, reply>>
  \/ /\ polls[c] + 1 = MaxPolls
     /\ "timeout" \in Faults
     /\ Return(c, "ERR")
     /\ UNCHANGED polls

\* waitForCondition polls the job of the call; success continues with done.
PollJob(c, done) ==
  \/ job[c] = "SUCCESS" /\ done /\ UNCHANGED polls
  \/ job[c] = "FAIL" /\ Return(c, "ERR") /\ UNCHANGED polls
  \/ job[c] = "RUNNING" /\ NotYet(c)
  \/ "api" \in Faults /\ Return(c, "ERR") /\ UNCHANGED polls

WaitAttached(c) ==
  /\ pc[c] = "WaitAttached"
  /\ PollJob(c, Goto(c, "GetDevice"))
  /\ UNCHANGED <<cloud, request, attachmentStatus, seen>>

\* WaitForVolumeAttaching polls the volume's status, whoever attaches it.
WaitAttaching(c) ==
  /\ pc[c] = "WaitAttaching"
  /\ \/ volume.status = "in-use" /\ Goto(c, "GetDevice") /\ UNCHANGED polls
     \/ volume.status = "attaching" /\ NotYet(c)
     \/ /\ volume.status \notin {"in-use", "attaching"} \/ "api" \in Faults
        /\ Return(c, "ERR")
        /\ UNCHANGED polls
  /\ UNCHANGED <<cloud, request, attachmentStatus, seen>>

\* The second GetVolume of a publish call, for the response's DevicePath.  The
\* path is empty when the attachment list does not name the server.
GetDevice(c) ==
  /\ pc[c] = "GetDevice"
  /\ \/ seen' = [seen EXCEPT ![c] = volume] /\ Return(c, "OK")
     \/ "api" \in Faults /\ Return(c, "ERR") /\ UNCHANGED seen
  /\ UNCHANGED <<cloud, request, attachmentStatus, polls>>

\* unpublishValidation reads the volume and then the ECS instance.
UnpublishGetVolume(c) ==
  /\ pc[c] = "UnpublishGetVolume"
  /\ \/ seen' = [seen EXCEPT ![c] = volume] /\ Goto(c, "UnpublishGetServer")
     \/ "api" \in Faults /\ Return(c, "ERR") /\ UNCHANGED seen
  /\ UNCHANGED <<cloud, request, attachmentStatus, polls>>

\* The check by which an unpublish call is skipped as already done.
FaultyBusyIsDetached(v) == v.status # "in-use"
NothingToDetach(v) == v.status = "available" \/ v.attachments = {}

UnpublishGetServer(c) ==
  /\ pc[c] = "UnpublishGetServer"
  /\ \/ /\ node[c] \in servers
        /\ IF NothingToDetach(seen[c]) THEN Return(c, "OK") ELSE Goto(c, "Detach")
     \/ (node[c] \notin servers \/ "api" \in Faults) /\ Return(c, "ERR")
  /\ UNCHANGED <<cloud, request, attachmentStatus, seen, polls>>

\* The cloud takes on the detachment of the volume from server s.
AcceptDetach(s) ==
  /\ volume.status = "in-use" /\ s \in volume.attachments
  /\ volume' = [volume EXCEPT !.status = "detaching"]
  /\ operation' = [kind |-> "detach", server |-> s]
  /\ UNCHANGED servers

\* Why the cloud answers Ecs.0111: the server is not in the volume's attachment
\* list.
NotInAttachList(s) == s \notin volume.attachments

\* The call polls the job of its detach request.
FaultyNoWait(c) == Return(c, "OK")
AwaitDetach(c) ==
  /\ pc' = [pc EXCEPT ![c] = "WaitDetached"]
  /\ job' = [job EXCEPT ![c] = "RUNNING"]
  /\ UNCHANGED reply

\* The cloud finds only in the job that there is nothing to detach.
JobRefused(c) ==
  /\ pc' = [pc EXCEPT ![c] = "WaitDetached"]
  /\ job' = [job EXCEPT ![c] = "Ecs.0111"]
  /\ UNCHANGED reply

\* DetachVolumeCompleted, and the handler's treatment of its errors.
Detach(c) ==
  /\ pc[c] = "Detach"
  /\ \/ /\ AcceptDetach(node[c])
        /\ \/ AwaitDetach(c)
           \/ "lost" \in Faults /\ Return(c, "ERR")
     \/ /\ NotInAttachList(node[c])
        /\ Return(c, "OK") \/ JobRefused(c)
        /\ UNCHANGED cloud
     \/ /\ \/ ~NotInAttachList(node[c]) /\ volume.status # "in-use"
           \/ "api" \in Faults
        /\ Return(c, "ERR")
        /\ UNCHANGED cloud
  /\ UNCHANGED <<request, attachmentStatus, seen, polls>>

\* The handler looks for Ecs.0111 in the text of any error, also in the failed
\* job that the error of the wait quotes.
WaitDetached(c) ==
  /\ pc[c] = "WaitDetached"
  /\ \/ PollJob(c, Return(c, "OK"))
     \/ job[c] = "Ecs.0111" /\ Return(c, "OK") /\ UNCHANGED polls
  /\ UNCHANGED <<cloud, request, attachmentStatus, seen>>

Publish(c) == \/ GetServer(c) \/ GetVolume(c) \/ Attach(c)
              \/ WaitAttached(c) \/ WaitAttaching(c) \/ GetDevice(c)

Unpublish(c) == \/ UnpublishGetVolume(c) \/ UnpublishGetServer(c)
                \/ Detach(c) \/ WaitDetached(c)

----------------------------------------------------------------------------
(* Steps of the cloud, and of the driver's process as a whole.             *)

calls == <<pc, rpc, node, attachmentStatus, seen, polls, reply>>

\* The end of the operation in progress, as the job of whoever waits for it
\* reports it.
Finish(result, v) ==
  /\ volume' = v
  /\ operation' = Idle
  /\ job' = [c \in Calls |-> IF job[c] = "RUNNING" THEN result ELSE job[c]]
  /\ UNCHANGED <<servers, calls>>

\* A volume that is being attached may show the attachment before it is in-use.
ListAttachment ==
  /\ operation.kind = "attach" /\ volume.attachments = {}
  /\ volume' = [volume EXCEPT !.attachments = {operation.server}]
  /\ UNCHANGED <<servers, operation, job, calls>>

AttachSucceeds ==
  /\ operation.kind = "attach"
  /\ Finish("SUCCESS", [status |-> "in-use", attachments |-> {operation.server}])

AttachFails ==
  /\ operation.kind = "attach" /\ "jobfail" \in Faults
  /\ Finish("FAIL", NewVolume)

DetachSucceeds ==
  /\ operation.kind = "detach"
  /\ Finish("SUCCESS", NewVolume)

DetachFails ==
  /\ operation.kind = "detach" /\ "jobfail" \in Faults
  /\ Finish("FAIL", [volume EXCEPT !.status = "in-use"])

\* The deletion of an ECS instance takes the volume off it.  A job that runs
\* fails, and that of a detach may say that the instance is not in the list.
DeleteServer(s) ==
  /\ s \in servers /\ "delete" \in Faults
  /\ servers' = servers \ {s}
  /\ IF s \in volume.attachments \/ operation.server = s
     THEN /\ volume' = NewVolume
          /\ operation' = Idle
          /\ \E r \in {"FAIL", "Ecs.0111"} :
               /\ operation.kind # "detach" => r = "FAIL"
               /\ job' = [c \in Calls |-> IF job[c] = "RUNNING" THEN r ELSE job[c]]
     ELSE UNCHANGED <<volume, operation, job>>
  /\ UNCHANGED calls

\* The process dies: the calls in progress end with a broken connection, and
\* the new process knows nothing of them.  The cloud goes on.
Crash ==
  /\ "crash" \in Faults /\ \E c \in Calls : InProgress(c)
  /\ pc' = [c \in Calls |-> "idle"]
  /\ reply' = [c \in Calls |-> IF InProgress(c) THEN "ERR" ELSE reply[c]]
  /\ job' = [c \in Calls |-> "none"]
  /\ UNCHANGED <<cloud, request, attachmentStatus, seen, polls>>

----------------------------------------------------------------------------
(* History variables.                                                      *)

Publishing(s) == \E c \in Calls : InProgress(c) /\ rpc[c] = "publish" /\ node[c] = s

Attaching(s) == operation = [kind |-> "attach", server |-> s]

\* What is true now of the volume and server s.
Facts(s) ==
  {f \in Fact : \/ f = "in-use" /\ volume.status = "in-use"
                \/ /\ f = "attached"
                   /\ volume.status = "in-use" /\ s \in volume.attachments
                \/ f = "detached" /\ s \notin volume.attachments
                \/ f = "contended" /\ (Publishing(s) \/ Attaching(s))}

\* This step answers the unpublish call c of s with success.
AnswersUnpublish(c, s) == /\ InProgress(c) /\ ~InProgress(c)'
                          /\ rpc[c] = "unpublish" /\ node[c] = s /\ reply'[c] = "OK"

History ==
  /\ witness' = [c \in Calls |->
       IF reply'[c] = "ERR" THEN {}
       ELSE IF InProgress(c) THEN witness[c] \cup Facts(node[c])'
       ELSE IF InProgress(c)' THEN Facts(node[c])'
       ELSE witness[c]]
  /\ released' = {s \in Servers : /\ ~Publishing(s)'
                                  /\ s \in released \/ \E c \in Calls :
                                       /\ AnswersUnpublish(c, s)
                                       /\ "contended" \notin witness[c]}

----------------------------------------------------------------------------
Handle(c) == (Publish(c) \/ Unpublish(c)) /\ History

Start(c) == (\E i \in Intents : Begin(c, i)) /\ History

CloudEnds == (AttachSucceeds \/ DetachSucceeds \/ AttachFails \/ DetachFails) /\ History

Environment == /\ ListAttachment \/ Crash \/ \E s \in Servers : DeleteServer(s)
               /\ History

Next == (\E c \in Calls : Start(c) \/ Handle(c)) \/ CloudEnds \/ Environment

Spec == Init /\ [][Next]_vars

\* The runtime schedules every goroutine.  Nothing is asked of the cloud.
HandlerFairness == \A c \in Calls : WF_vars(Handle(c))
LiveSpec == Spec /\ HandlerFairness

\* What retries need beside it: the CO keeps trying, the operations of the cloud
\* end, and an attachment asked for again and again does not fail for ever.
RetryFairness ==
  /\ \A c \in Calls : WF_vars(Start(c))
  /\ WF_vars(CloudEnds) /\ SF_vars(AttachSucceeds /\ History)

----------------------------------------------------------------------------
(* Properties.                                                             *)

\* Every variable stays in its range.
TypeOK ==
  /\ servers \in SUBSET Servers
  /\ volume \in Volume
  /\ operation \in Operation
  /\ job \in [Calls -> JobState]
  /\ pc \in [Calls -> {"idle"} \cup Request]
  /\ rpc \in [Calls -> {"publish", "unpublish"}]
  /\ node \in [Calls -> Servers]
  /\ attachmentStatus \in [Calls -> AttachmentStatus]
  /\ seen \in [Calls -> Volume]
  /\ polls \in [Calls -> 0 .. MaxPolls - 1]
  /\ reply \in [Calls -> {"none", "OK", "ERR"}]
  /\ witness \in [Calls -> SUBSET Fact]
  /\ released \in SUBSET Servers

Answered(c, kind) == ~InProgress(c) /\ reply[c] = "OK" /\ rpc[c] = kind

\* A publish call that answers OK has not made its success up: at some moment
\* of the call the volume was in-use, and it was attached to the very server of
\* the call unless the call only waited for an attach somebody else had begun
\* (WaitForVolumeAttaching never looks at the server).
PublishedWasAttached ==
  \A c \in Calls : Answered(c, "publish") =>
    /\ "in-use" \in witness[c]
    /\ attachmentStatus[c] # "AttachingCurrentServer" => "attached" \in witness[c]

\* An unpublish call that answers OK, be it by the job, by the skip or by
\* Ecs.0111, was right at some moment of the call: the attachment list did not
\* name its server.
UnpublishedWasDetached ==
  \A c \in Calls : Answered(c, "unpublish") => "detached" \in witness[c]

\* A call waits for the operation it asked for itself: the job it polls is that
\* of the operation in progress, for its server and of the kind it waits for,
\* and of two concurrent calls, even two that both found the volume available
\* or both found it attached, one at most has the operation.
JobIsOwn ==
  \A c \in Calls :
    /\ job[c] # "none" => pc[c] \in {"WaitAttached", "WaitDetached"}
    /\ job[c] = "RUNNING" =>
         /\ operation = [kind |-> IF pc[c] = "WaitAttached" THEN "attach" ELSE "detach",
                         server |-> node[c]]
         /\ \A d \in Calls \ {c} : job[d] # "RUNNING"

\* Once the CO was told that the volume is unpublished from s, by a call no
\* attachment to s was under way beside, and has not asked for s again, the
\* volume is not attached to s.
ReleasedStaysDetached ==
  \A s \in released : ~(volume.status = "in-use" /\ s \in volume.attachments)

\* The CO is not told that the volume is unpublished from s while the cloud is
\* about to finish an attachment to s that no call of the CO waits for.
UnpublishLeavesNoAttach ==
  [][\A c \in Calls, s \in Servers :
       AnswersUnpublish(c, s) /\ ~Publishing(s) => ~Attaching(s)']_vars

\* A publish call that logs success has a device to report: its last reading of
\* the volume names the server.
PublishSuccessNamesServer ==
  \A c \in Calls : Answered(c, "publish") => node[c] \in seen[c].attachments

\* The requests of a publish call, the others being those of an unpublish call.
PublishRequest == {"GetServer", "GetVolume", "Attach", "WaitAttached",
                   "WaitAttaching", "GetDevice"}

\* The volume's status tells what the cloud is doing to it.
StatusFollowsOperation ==
  /\ operation.kind = "none" <=> volume.status \in {"available", "in-use"}
  /\ operation.kind = "attach" <=> volume.status = "attaching"
  /\ operation.kind = "detach" <=> volume.status = "detaching"
  /\ volume.status = "available" => volume.attachments = {}

\* What call c may conclude from where it stands: its request is one of its own
\* handler; a job that succeeded, a volume read in-use, a reading that shows
\* nothing to detach were facts of the volume during the call.
Knows(c) ==
  /\ InProgress(c) => /\ reply[c] = "none"
                      /\ rpc[c] = "publish" <=> pc[c] \in PublishRequest
  /\ job[c] = "SUCCESS" =>
       IF pc[c] = "WaitAttached" THEN "in-use" \in witness[c] /\ "attached" \in witness[c]
                                 ELSE "detached" \in witness[c]
  /\ job[c] = "Ecs.0111" => pc[c] = "WaitDetached" /\ "detached" \in witness[c]
  /\ pc[c] = "WaitAttaching" => attachmentStatus[c] = "AttachingCurrentServer"
  /\ pc[c] = "GetDevice" \/ Answered(c, "publish") =>
       /\ "in-use" \in witness[c]
       /\ attachmentStatus[c] # "AttachingCurrentServer" => "attached" \in witness[c]
  /\ \/ pc[c] = "UnpublishGetServer" /\ NothingToDetach(seen[c])
     \/ Answered(c, "unpublish")
     => "detached" \in witness[c]

\* The inductive invariant.
CallsKnowTheVolume ==
  /\ StatusFollowsOperation
  /\ JobIsOwn
  /\ \A c \in Calls : Knows(c)

\* Every call returns, even when the operation it waits for never ends.
CallsReturn == \A c \in Calls : InProgress(c) ~> ~InProgress(c)

\* Once the CO only asks for the volume to be published to its one server, and
\* keeps trying after time-outs, lost answers and failed jobs, the volume is
\* attached and stays so, and every slot of the CO succeeds again and again.
RetriesSucceed ==
  RetryFairness /\ <>[](\A c \in Calls : rpc[c] = "publish")
    => /\ <>[](volume.status = "in-use")
       /\ \A c \in Calls : []<>(reply[c] = "OK")
=============================================================================
