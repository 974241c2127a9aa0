--------------------------- MODULE EvsAttachProofs ---------------------------
(* Theorems about EvsAttach: they hold for any number of servers and of      *)
(* calls, for every poll limit and every set of faults.                      *)
EXTENDS EvsAttach, TLAPS

USE DEF InProgress, AwaitDetach, JobRefused, JobState

\* The type of everything but the history variables, so that the steps of the
\* handlers can be treated one by one.
StateTypeOK ==
  /\ servers \in SUBSET Servers
  /\ volume \in Volume
  /\ operation \in Operation
  /\ job \in [Calls -> JobState]
  /\ pc \in [Calls -> {"idle"} \cup Request]
  /\ rpc \in [Calls -> {"publish", "unpublish"}]
  /\ node \in [Calls -> Servers]
  /\ attachmentStatus \in [Calls -> AttachmentStatus]
  /\ seen \in [Calls -> Volume]
  /\ polls \in [Calls -> 0 .. MaxPolls - 1]
  /\ reply \in [Calls -> {"none", "OK", "ERR"}]

\* What the cloud can make of the volume and of the operation has their type.
LEMMA VolumeTyping ==
  /\ NewVolume \in Volume
  /\ \A v \in Volume, st \in VolumeStatus : [v EXCEPT !.status = st] \in Volume
  /\ \A v \in Volume, s \in Servers : [v EXCEPT !.attachments = {s}] \in Volume
  /\ \A s \in Servers : [status |-> "in-use", attachments |-> {s}] \in Volume
BY DEF NewVolume, Volume, VolumeStatus

LEMMA OperationTyping ==
  /\ Idle \in Operation
  /\ \A k \in {"attach", "detach"}, s \in Servers : [kind |-> k, server |-> s] \in Operation
  /\ \A op \in Operation : op.kind # "none" => op.server \in Servers
BY DEF Idle, Operation

\* Every step of a publish call keeps the types.
LEMMA PublishTyping ==
  ASSUME StateTypeOK, NEW c \in Calls, Publish(c)
  PROVE  StateTypeOK'
<1> USE MaxPollsAssumption DEF StateTypeOK, Request
<1>1. CASE GetServer(c)
  BY <1>1 DEF GetServer, Goto, Return, cloud, request
<1>2. CASE GetVolume(c)
  <2>1. VolumeAttachmentStatus(volume, node[c]) \in AttachmentStatus
    BY DEF VolumeAttachmentStatus, AttachmentStatus
  <2>2. QED BY <1>2, <2>1 DEF GetVolume, Goto, Return, cloud, request
<1>3. CASE Attach(c)
  <2>1. volume \in Volume /\ operation \in Operation /\ node[c] \in Servers
    OBVIOUS
  <2>2. ASSUME AcceptAttach(node[c])
        PROVE  volume' \in Volume /\ operation' \in Operation /\ servers' = servers
    BY <2>1, <2>2, VolumeTyping, OperationTyping DEF AcceptAttach, VolumeStatus
  <2>3. volume' \in Volume /\ operation' \in Operation /\ servers' \in SUBSET Servers
    BY <1>3, <2>1, <2>2 DEF Attach, cloud
  <2>4. QED BY <1>3, <2>3 DEF Attach, Return, request
<1>4. CASE WaitAttached(c)
  BY <1>4 DEF WaitAttached, PollJob, NotYet, Goto, Return, cloud, request
<1>5. CASE WaitAttaching(c)
  BY <1>5 DEF WaitAttaching, NotYet, Goto, Return, cloud, request
<1>6. CASE GetDevice(c)
  BY <1>6 DEF GetDevice, Return, cloud, request
<1>7. QED BY <1>1, <1>2, <1>3, <1>4, <1>5, <1>6 DEF Publish

\* Every step of an unpublish call keeps the types.
LEMMA UnpublishTyping ==
  ASSUME StateTypeOK, NEW c \in Calls, Unpublish(c)
  PROVE  StateTypeOK'
<1> USE MaxPollsAssumption DEF StateTypeOK, Request
<1>1. CASE UnpublishGetVolume(c)
  BY <1>1 DEF UnpublishGetVolume, Goto, Return, cloud, request
<1>2. CASE UnpublishGetServer(c)
  BY <1>2 DEF UnpublishGetServer, Goto, Return, cloud, request
<1>3. CASE Detach(c)
  <2>1. volume \in Volume /\ operation \in Operation /\ node[c] \in Servers
    OBVIOUS
  <2>2. ASSUME AcceptDetach(node[c])
        PROVE  volume' \in Volume /\ operation' \in Operation /\ servers' = servers
    BY <2>1, <2>2, VolumeTyping, OperationTyping DEF AcceptDetach, VolumeStatus
  <2>3. volume' \in Volume /\ operation' \in Operation /\ servers' \in SUBSET Servers
    BY <1>3, <2>1, <2>2 DEF Detach, cloud
  <2>4. QED BY <1>3, <2>3 DEF Detach, Return, request
<1>4. CASE WaitDetached(c)
  BY <1>4 DEF WaitDetached, PollJob, NotYet, Return, cloud, request
<1>5. QED BY <1>1, <1>2, <1>3, <1>4 DEF Unpublish

\* A new call of the CO keeps the types.
LEMMA BeginTyping ==
  ASSUME StateTypeOK, NEW c \in Calls, NEW i \in Intents, Begin(c, i)
  PROVE  StateTypeOK'
<1>1. i[1] \in {"publish", "unpublish"} /\ i[2] \in Servers
  BY IntentsAssumption
<1>2. NewVolume \in Volume /\ 0 \in 0 .. MaxPolls - 1 /\ "unknown" \in AttachmentStatus
  BY VolumeTyping, MaxPollsAssumption DEF AttachmentStatus
<1>3. QED BY <1>1, <1>2 DEF StateTypeOK, Begin, Request

\* Every step of the cloud, and a crash of the driver, keeps the types.
LEMMA CloudTyping ==
  ASSUME StateTypeOK,
         \/ AttachSucceeds \/ DetachSucceeds \/ AttachFails \/ DetachFails
         \/ ListAttachment \/ Crash \/ \E s \in Servers : DeleteServer(s)
  PROVE  StateTypeOK'
<1>1. ASSUME NEW r \in {"SUCCESS", "FAIL"}, NEW v \in Volume, Finish(r, v)
      PROVE  StateTypeOK'
  BY <1>1, OperationTyping DEF StateTypeOK, Finish, calls
<1>2. operation \in Operation /\ volume \in Volume
  BY DEF StateTypeOK
<1>3. CASE AttachSucceeds
  BY <1>1, <1>2, <1>3, VolumeTyping, OperationTyping DEF AttachSucceeds
<1>4. CASE DetachSucceeds
  BY <1>1, <1>4, VolumeTyping DEF DetachSucceeds
<1>5. CASE AttachFails
  BY <1>1, <1>5, VolumeTyping DEF AttachFails
<1>6. CASE DetachFails
  BY <1>1, <1>2, <1>6, VolumeTyping DEF DetachFails, VolumeStatus
<1>7. CASE ListAttachment
  <2>1. volume' \in Volume
    BY <1>2, <1>7, VolumeTyping, OperationTyping DEF ListAttachment
  <2>2. QED BY <1>7, <2>1 DEF ListAttachment, StateTypeOK, calls
<1>8. CASE Crash
  BY <1>8 DEF Crash, StateTypeOK, cloud, request
<1>9. CASE \E s \in Servers : DeleteServer(s)
  BY <1>9, VolumeTyping, OperationTyping DEF DeleteServer, StateTypeOK, calls
<1>10. QED BY <1>3, <1>4, <1>5, <1>6, <1>7, <1>8, <1>9

\* The history variables keep their types.
LEMMA HistoryTyping ==
  ASSUME witness \in [Calls -> SUBSET Fact], History
  PROVE  /\ witness' \in [Calls -> SUBSET Fact]
         /\ released' \in SUBSET Servers
BY DEF History, Facts

\* Every variable stays in its range, whatever the CO asks and the cloud does.
THEOREM TypeCorrect == Spec => []TypeOK
<1>1. Init => TypeOK
  <2> SUFFICES ASSUME Init PROVE TypeOK
    OBVIOUS
  <2>1. PICK i \in Intents : /\ rpc = [c \in Calls |-> i[1]]
                             /\ node = [c \in Calls |-> i[2]]
    BY DEF Init
  <2>2. i[1] \in {"publish", "unpublish"} /\ i[2] \in Servers
    BY IntentsAssumption
  <2>3. NewVolume \in Volume /\ Idle \in Operation /\ 0 \in 0 .. MaxPolls - 1
    BY VolumeTyping, OperationTyping, MaxPollsAssumption
  <2>4. QED BY <2>1, <2>2, <2>3 DEF Init, TypeOK, AttachmentStatus
<1>2. TypeOK /\ [Next]_vars => TypeOK'
  <2> SUFFICES ASSUME TypeOK, [Next]_vars PROVE TypeOK'
    OBVIOUS
  <2>1. StateTypeOK
    BY DEF TypeOK, StateTypeOK
  <2>2. ASSUME StateTypeOK', History PROVE TypeOK'
    <3>1. witness \in [Calls -> SUBSET Fact]
      BY DEF TypeOK
    <3>2. QED BY <2>2, <3>1, HistoryTyping DEF TypeOK, StateTypeOK
  <2>3. ASSUME NEW c \in Calls, Start(c) PROVE TypeOK'
    BY <2>1, <2>2, <2>3, BeginTyping DEF Start
  <2>4. ASSUME NEW c \in Calls, Handle(c) PROVE TypeOK'
    BY <2>1, <2>2, <2>4, PublishTyping, UnpublishTyping DEF Handle
  <2>5. CASE CloudEnds
    BY <2>1, <2>2, <2>5, CloudTyping DEF CloudEnds
  <2>6. CASE Environment
    BY <2>1, <2>2, <2>6, CloudTyping DEF Environment
  <2>7. CASE UNCHANGED vars
    BY <2>7 DEF TypeOK, vars
  <2>8. QED BY <2>3, <2>4, <2>5, <2>6, <2>7 DEF Next
<1>3. QED BY <1>1, <1>2, PTL DEF Spec

----------------------------------------------------------------------------
(* The inductive invariant.                                                *)

\* The fields of call d that Knows(d) speaks of, other than its history.
Unmoved(d) ==
  /\ pc'[d] = pc[d] /\ rpc'[d] = rpc[d] /\ node'[d] = node[d]
  /\ attachmentStatus'[d] = attachmentStatus[d] /\ seen'[d] = seen[d]
  /\ reply'[d] = reply[d]

\* How the history of one call grows.
LEMMA HistoryGrows ==
  ASSUME TypeOK, History, NEW c \in Calls
  PROVE  /\ InProgress(c) /\ reply'[c] # "ERR" =>
              witness'[c] = witness[c] \cup Facts(node[c])'
         /\ ~InProgress(c) /\ ~InProgress(c)' /\ reply'[c] # "ERR" =>
              witness'[c] = witness[c]
BY DEF History, TypeOK

\* A call that a step leaves alone knows afterwards what it knew before.
LEMMA UnmovedKnows ==
  ASSUME TypeOK, JobIsOwn, History, NEW d \in Calls, Knows(d), Unmoved(d),
         job'[d] \in {"SUCCESS", "Ecs.0111"} => job[d] = job'[d]
  PROVE  Knows(d)'
<1>1. InProgress(d)' <=> InProgress(d)
  BY DEF Unmoved
<1>2. reply'[d] # "ERR" => witness[d] \subseteq witness'[d]
  BY <1>1, HistoryGrows
<1>3. InProgress(d) => reply[d] = "none" /\ witness[d] \subseteq witness'[d]
  BY <1>2 DEF Unmoved, Knows
<1>4. job[d] # "none" \/ pc[d] \in {"GetDevice", "UnpublishGetServer"} => InProgress(d)
  BY DEF JobIsOwn
<1>5. reply[d] = "OK" => witness[d] \subseteq witness'[d]
  BY <1>2 DEF Unmoved
<1>6. QED BY <1>1, <1>3, <1>4, <1>5 DEF Unmoved, Knows, Answered, NothingToDetach

\* A call that fails claims nothing.
LEMMA FailureKnows ==
  ASSUME TypeOK, NEW c \in Calls, Return(c, "ERR")
  PROVE  Knows(c)'
BY DEF TypeOK, Return, Knows, Answered

\* The facts of a step that does not end in failure are in the history.
LEMMA FactsSeen ==
  ASSUME TypeOK, History, NEW c \in Calls, InProgress(c), reply'[c] # "ERR"
  PROVE  /\ witness[c] \subseteq witness'[c]
         /\ volume'.status = "in-use" => "in-use" \in witness'[c]
         /\ volume'.status = "in-use" /\ node'[c] \in volume'.attachments =>
              "attached" \in witness'[c]
         /\ node'[c] \notin volume'.attachments => "detached" \in witness'[c]
BY HistoryGrows DEF Facts, Fact

\* A step of a publish call.
LEMMA PublishKnows ==
  ASSUME TypeOK, StatusFollowsOperation, JobIsOwn, History,
         NEW c \in Calls, Knows(c), Publish(c)
  PROVE  Knows(c)'
<1>1. InProgress(c) /\ reply[c] = "none" /\ rpc[c] = "publish"
  BY DEF Publish, GetServer, GetVolume, Attach, WaitAttached, WaitAttaching, GetDevice,
         Knows, PublishRequest
<1>2. CASE GetServer(c)
  BY <1>1, <1>2, FailureKnows
     DEF GetServer, Goto, Knows, Answered, PublishRequest, TypeOK, request
<1>3. CASE GetVolume(c)
  <2>1. CASE Return(c, "OK")
    <3>1. volume.status = "in-use" /\ node[c] \in volume.attachments /\ UNCHANGED <<volume, node, rpc>>
      BY <1>1, <1>3, <2>1 DEF GetVolume, VolumeAttachmentStatus, Return, Goto, TypeOK, cloud, request
    <3>2. QED BY <1>1, <2>1, <3>1, FactsSeen DEF Return, Knows, Answered, TypeOK
  <2>2. QED BY <1>1, <1>3, <2>1, FailureKnows
     DEF GetVolume, Goto, Knows, Answered, PublishRequest, TypeOK, request
<1>4. CASE Attach(c)
  BY <1>1, <1>4, FailureKnows
     DEF Attach, Knows, Answered, PublishRequest, TypeOK, request
<1>5. CASE WaitAttached(c)
  BY <1>1, <1>5, FailureKnows, FactsSeen
     DEF WaitAttached, PollJob, NotYet, Goto, Knows, Answered, PublishRequest, TypeOK, request
<1>6. CASE WaitAttaching(c)
  BY <1>1, <1>6, FailureKnows, FactsSeen
     DEF WaitAttaching, NotYet, Goto, Knows, Answered, PublishRequest, TypeOK, request, cloud
<1>7. CASE GetDevice(c)
  BY <1>1, <1>7, FailureKnows, FactsSeen
     DEF GetDevice, Return, Knows, Answered, PublishRequest, TypeOK, request
<1>8. QED BY <1>2, <1>3, <1>4, <1>5, <1>6, <1>7 DEF Publish

\* A step of an unpublish call.
LEMMA UnpublishKnows ==
  ASSUME TypeOK, StatusFollowsOperation, JobIsOwn, History,
         NEW c \in Calls, Knows(c), Unpublish(c)
  PROVE  Knows(c)'
<1>1. InProgress(c) /\ reply[c] = "none" /\ rpc[c] = "unpublish"
  BY DEF Unpublish, UnpublishGetVolume, UnpublishGetServer, Detach, WaitDetached,
         Knows, PublishRequest, TypeOK
<1>2. CASE UnpublishGetVolume(c)
  <2>1. CASE Goto(c, "UnpublishGetServer") /\ seen' = [seen EXCEPT ![c] = volume]
    <3>1. NothingToDetach(volume) => "detached" \in witness'[c]
      BY <1>1, <1>2, <2>1, FactsSeen
         DEF NothingToDetach, StatusFollowsOperation, UnpublishGetVolume, Goto, TypeOK, cloud, request
    <3>2. QED BY <1>1, <1>2, <2>1, <3>1
         DEF UnpublishGetVolume, Goto, Knows, Answered, PublishRequest, TypeOK, request, NothingToDetach
  <2>2. QED BY <1>2, <2>1, FailureKnows DEF UnpublishGetVolume
<1>3. CASE UnpublishGetServer(c)
  BY <1>1, <1>3, FailureKnows, FactsSeen
     DEF UnpublishGetServer, Return, Goto, Knows, Answered, PublishRequest, TypeOK, request
<1>4. CASE Detach(c)
  <2>1. CASE NotInAttachList(node[c]) /\ UNCHANGED cloud
    BY <1>1, <1>4, <2>1, FactsSeen
       DEF Detach, NotInAttachList, AcceptDetach, Return, Knows, Answered, PublishRequest,
           TypeOK, request, cloud
  <2>2. QED BY <1>1, <1>4, <2>1, FailureKnows
       DEF Detach, Knows, Answered, PublishRequest, TypeOK, request
<1>5. CASE WaitDetached(c)
  BY <1>1, <1>5, FailureKnows, FactsSeen
     DEF WaitDetached, PollJob, NotYet, Return, Knows, Answered, PublishRequest, TypeOK, request
<1>6. QED BY <1>2, <1>3, <1>4, <1>5 DEF Unpublish

\* A step of call c moves no other call, and starts no second operation.
LEMMA HandlerStep ==
  ASSUME TypeOK, StatusFollowsOperation, JobIsOwn,
         NEW c \in Calls, Publish(c) \/ Unpublish(c)
  PROVE  /\ StatusFollowsOperation'
         /\ JobIsOwn'
         /\ \A d \in Calls \ {c} : Unmoved(d) /\ job'[d] = job[d]
<1>1. \A d \in Calls \ {c} : Unmoved(d) /\ job'[d] = job[d]
  BY DEF TypeOK, Unmoved, Publish, GetServer, GetVolume, Attach, WaitAttached,
         WaitAttaching, GetDevice, Unpublish, UnpublishGetVolume, UnpublishGetServer,
         Detach, WaitDetached, PollJob, NotYet, Goto, Return, request
<1>2. CASE /\ UNCHANGED cloud /\ node'[c] = node[c]
           /\ \/ job'[c] = "none"
              \/ job'[c] = "Ecs.0111" /\ pc'[c] = "WaitDetached"
              \/ job'[c] = job[c] /\ pc'[c] = pc[c]
  <2>1. StatusFollowsOperation'
    BY <1>2 DEF StatusFollowsOperation, cloud
  <2>2. JobIsOwn'
    BY <1>1, <1>2 DEF JobIsOwn, Unmoved, cloud
  <2>3. QED BY <1>1, <2>1, <2>2
<1>3. ASSUME NEW kind \in {"attach", "detach"}, UNCHANGED node,
             volume'.status = IF kind = "attach" THEN "attaching" ELSE "detaching",
             volume.status \in {"available", "in-use"},
             operation' = [kind |-> kind, server |-> node[c]],
             \/ job'[c] = "none"
             \/ /\ job'[c] = "RUNNING"
                /\ pc'[c] = IF kind = "attach" THEN "WaitAttached" ELSE "WaitDetached"
      PROVE  StatusFollowsOperation' /\ JobIsOwn'
  <2>1. operation.kind = "none"
    BY <1>3 DEF StatusFollowsOperation
  <2>2. \A d \in Calls : job[d] # "RUNNING"
    BY <2>1 DEF JobIsOwn
  <2>3. StatusFollowsOperation'
    BY <1>3 DEF StatusFollowsOperation
  <2>4. JobIsOwn'
    BY <1>1, <1>3, <2>2 DEF JobIsOwn, Unmoved
  <2>5. QED BY <2>3, <2>4
<1>4. CASE GetServer(c) \/ GetVolume(c) \/ GetDevice(c)
  BY <1>1, <1>2, <1>4 DEF TypeOK, GetServer, GetVolume, GetDevice, Goto, Return, request
<1>5. CASE WaitAttached(c) \/ WaitAttaching(c) \/ WaitDetached(c)
  BY <1>1, <1>2, <1>5
     DEF TypeOK, WaitAttached, WaitAttaching, WaitDetached, PollJob, NotYet, Goto, Return, request
<1>6. CASE UnpublishGetVolume(c) \/ UnpublishGetServer(c)
  BY <1>1, <1>2, <1>6 DEF TypeOK, UnpublishGetVolume, UnpublishGetServer, Goto, Return, request
<1>7. CASE Attach(c)
  <2>1. CASE AcceptAttach(node[c])
    <3>1. volume.status = "available" /\ volume'.status = "attaching"
      BY <2>1 DEF AcceptAttach, TypeOK, Volume
    <3>2. operation' = [kind |-> "attach", server |-> node[c]]
      BY <2>1 DEF AcceptAttach
    <3>3. \/ job'[c] = "none"
          \/ job'[c] = "RUNNING" /\ pc'[c] = "WaitAttached"
      BY <1>7, <2>1 DEF Attach, Return, TypeOK
    <3>4. UNCHANGED node
      BY <1>7 DEF Attach, request
    <3>5. QED BY <1>1, <1>3, <3>1, <3>2, <3>3, <3>4
  <2>2. CASE UNCHANGED cloud /\ Return(c, "ERR")
    BY <1>1, <1>2, <1>7, <2>2 DEF TypeOK, Attach, Return, request
  <2>3. QED BY <1>7, <2>1, <2>2 DEF Attach
<1>8. CASE Detach(c)
  <2>1. CASE AcceptDetach(node[c])
    <3>1. volume.status = "in-use" /\ volume'.status = "detaching"
      BY <2>1 DEF AcceptDetach, TypeOK, Volume
    <3>2. operation' = [kind |-> "detach", server |-> node[c]]
      BY <2>1 DEF AcceptDetach
    <3>3. \/ job'[c] = "none"
          \/ job'[c] = "RUNNING" /\ pc'[c] = "WaitDetached"
      BY <1>8, <2>1 DEF Detach, AcceptDetach, NotInAttachList, Return, TypeOK
    <3>4. UNCHANGED node
      BY <1>8 DEF Detach, request
    <3>5. QED BY <1>1, <1>3, <3>1, <3>2, <3>3, <3>4
  <2>2. CASE UNCHANGED cloud /\ (JobRefused(c) \/ \E r \in {"OK", "ERR"} : Return(c, r))
    BY <1>1, <1>2, <1>8, <2>2 DEF TypeOK, Detach, Return, request
  <2>3. QED BY <1>8, <2>1, <2>2 DEF Detach
<1>9. QED BY <1>4, <1>5, <1>6, <1>7, <1>8 DEF Publish, Unpublish

\* A new call knows nothing yet, and moves no other call.
LEMMA BeginStep ==
  ASSUME TypeOK, StatusFollowsOperation, JobIsOwn,
         NEW c \in Calls, NEW i \in Intents, Begin(c, i)
  PROVE  /\ StatusFollowsOperation'
         /\ JobIsOwn'
         /\ Knows(c)'
         /\ \A d \in Calls \ {c} : Unmoved(d) /\ job'[d] = job[d]
<1>1. i[1] \in {"publish", "unpublish"}
  BY IntentsAssumption
<1>2. \A d \in Calls \ {c} : Unmoved(d) /\ job'[d] = job[d]
  BY DEF TypeOK, Begin, Unmoved
<1>3. job[c] = "none" /\ job'[c] = "none"
  BY DEF TypeOK, Begin, JobIsOwn
<1>4. StatusFollowsOperation'
  BY DEF StatusFollowsOperation, Begin
<1>5. JobIsOwn'
  BY <1>2, <1>3 DEF JobIsOwn, Begin, Unmoved
<1>6. Knows(c)'
  BY <1>1, <1>3 DEF TypeOK, Begin, Knows, Answered, PublishRequest
<1>7. QED BY <1>2, <1>4, <1>5, <1>6

\* When an operation ends, the call that polls its job learns the truth.
LEMMA FinishStep ==
  ASSUME TypeOK, StatusFollowsOperation, JobIsOwn, \A c \in Calls : Knows(c), History,
         NEW result \in {"SUCCESS", "FAIL"}, NEW v \in Volume, Finish(result, v),
         v.status \in {"available", "in-use"}, v.status = "available" => v.attachments = {},
         result = "SUCCESS" =>
           IF operation.kind = "attach"
           THEN v.status = "in-use" /\ operation.server \in v.attachments
           ELSE operation.kind = "detach" /\ operation.server \notin v.attachments
  PROVE  CallsKnowTheVolume'
<1>1. StatusFollowsOperation'
  BY DEF Finish, StatusFollowsOperation, Idle
<1>2. JobIsOwn'
  BY DEF Finish, JobIsOwn, TypeOK, calls
<1>3. ASSUME NEW d \in Calls PROVE Knows(d)'
  <2>1. Unmoved(d)
    BY DEF Finish, Unmoved, calls
  <2>2. CASE job'[d] \in {"SUCCESS", "Ecs.0111"} => job[d] = job'[d]
    BY <2>1, <2>2, UnmovedKnows
  <2>3. CASE job[d] = "RUNNING" /\ result = "SUCCESS"
    <3>1. InProgress(d) /\ reply[d] = "none" /\ reply'[d] = "none"
      BY <2>1, <2>3 DEF JobIsOwn, Knows, Unmoved
    <3>2. operation = [kind |-> IF pc[d] = "WaitAttached" THEN "attach" ELSE "detach",
                       server |-> node[d]]
          /\ pc[d] \in {"WaitAttached", "WaitDetached"}
      BY <2>3 DEF JobIsOwn
    <3>3. volume' = v /\ node'[d] = node[d] /\ pc'[d] = pc[d]
      BY <2>1 DEF Finish, Unmoved
    <3>4. pc[d] = "WaitAttached" => "in-use" \in witness'[d] /\ "attached" \in witness'[d]
      BY <2>3, <3>1, <3>2, <3>3, FactsSeen
    <3>5. pc[d] = "WaitDetached" => "detached" \in witness'[d]
      BY <2>3, <3>1, <3>2, <3>3, FactsSeen
    <3>6. job'[d] = "SUCCESS"
      BY <2>3 DEF Finish, TypeOK
    <3>7. QED BY <2>1, <3>1, <3>2, <3>3, <3>4, <3>5, <3>6 DEF Knows, Answered, Unmoved
  <2>4. QED BY <2>2, <2>3 DEF Finish, TypeOK
<1>4. QED BY <1>1, <1>2, <1>3 DEF CallsKnowTheVolume

\* What the cloud does, and a crash, leaves the calls right about the volume.
LEMMA CloudStep ==
  ASSUME TypeOK, CallsKnowTheVolume, CloudEnds \/ Environment
  PROVE  CallsKnowTheVolume'
<1>1. /\ StatusFollowsOperation /\ JobIsOwn /\ (\A c \in Calls : Knows(c)) /\ History
  BY DEF CallsKnowTheVolume, CloudEnds, Environment
<1>2. /\ operation \in Operation /\ volume \in Volume
      /\ operation.kind # "none" => operation.server \in Servers
  BY OperationTyping DEF TypeOK
<1>3. CASE AttachSucceeds
  BY <1>1, <1>2, <1>3, FinishStep, VolumeTyping DEF AttachSucceeds
<1>4. CASE DetachSucceeds
  <2>1. NewVolume.status = "available" /\ NewVolume.attachments = {}
    BY DEF NewVolume
  <2>2. QED BY <1>1, <1>2, <1>4, <2>1, FinishStep, VolumeTyping DEF DetachSucceeds
<1>5. CASE AttachFails
  <2>1. NewVolume.status = "available" /\ NewVolume.attachments = {}
    BY DEF NewVolume
  <2>2. QED BY <1>1, <1>2, <1>5, <2>1, FinishStep, VolumeTyping DEF AttachFails
<1>6. CASE DetachFails
  <2> DEFINE v == [volume EXCEPT !.status = "in-use"]
  <2>1. v \in Volume /\ v.status = "in-use"
    BY <1>2 DEF Volume, VolumeStatus
  <2>2. QED BY <1>1, <1>6, <2>1, FinishStep DEF DetachFails
<1>7. CASE ListAttachment
  <2>1. \A d \in Calls : Unmoved(d) /\ job'[d] = job[d]
    BY <1>7 DEF ListAttachment, Unmoved, calls
  <2>2. StatusFollowsOperation'
    BY <1>1, <1>2, <1>7 DEF ListAttachment, StatusFollowsOperation, Volume
  <2>3. JobIsOwn'
    BY <1>1, <1>7 DEF ListAttachment, JobIsOwn, calls
  <2>4. QED BY <1>1, <2>1, <2>2, <2>3, UnmovedKnows DEF CallsKnowTheVolume
<1>8. CASE Crash
  <2>1. StatusFollowsOperation'
    BY <1>1, <1>8 DEF Crash, StatusFollowsOperation, cloud
  <2>2. JobIsOwn'
    BY <1>8 DEF Crash, JobIsOwn
  <2>3. ASSUME NEW d \in Calls PROVE Knows(d)'
    <3>1. CASE InProgress(d)
      BY <1>8, <3>1 DEF Crash, Knows, Answered
    <3>2. CASE ~InProgress(d)
      <4>1. Unmoved(d) /\ job'[d] = "none"
        BY <1>8, <3>2 DEF Crash, Unmoved, TypeOK, request
      <4>2. QED BY <1>1, <4>1, UnmovedKnows
    <3>3. QED BY <3>1, <3>2
  <2>4. QED BY <2>1, <2>2, <2>3 DEF CallsKnowTheVolume
<1>9. CASE \E s \in Servers : DeleteServer(s)
  <2>1. \A d \in Calls : /\ Unmoved(d)
                         /\ job'[d] # job[d] =>
                              /\ job[d] = "RUNNING" /\ volume' = NewVolume
                              /\ job'[d] \in {"FAIL", "Ecs.0111"}
                              /\ operation.kind # "detach" => job'[d] = "FAIL"
    BY <1>9 DEF DeleteServer, Unmoved, calls, TypeOK
  <2>2. StatusFollowsOperation'
    BY <1>1, <1>9 DEF DeleteServer, StatusFollowsOperation, NewVolume, Idle
  <2>3. JobIsOwn'
    <3>1. \A d \in Calls : job'[d] = "RUNNING" => job[d] = "RUNNING"
      BY <2>1
    <3>2. (\E d \in Calls : job'[d] = "RUNNING") => UNCHANGED operation
      BY <1>9 DEF DeleteServer, TypeOK
    <3>3. QED BY <1>1, <2>1, <3>1, <3>2 DEF JobIsOwn, Unmoved
  <2>4. ASSUME NEW d \in Calls PROVE Knows(d)'
    <3>1. CASE job'[d] = "Ecs.0111" /\ job[d] # "Ecs.0111"
      <4>1. /\ job[d] = "RUNNING" /\ operation.kind = "detach"
            /\ volume' = NewVolume /\ Unmoved(d)
        BY <2>1, <3>1
      <4>2. pc[d] = "WaitDetached" /\ reply[d] = "none" /\ InProgress(d)
        BY <1>1, <4>1 DEF JobIsOwn, Knows
      <4>3. "detached" \in witness'[d]
        BY <1>1, <4>1, <4>2, FactsSeen DEF NewVolume, Unmoved
      <4>4. QED BY <1>1, <3>1, <4>1, <4>2, <4>3 DEF Knows, Answered, Unmoved
    <3>2. QED BY <1>1, <2>1, <3>1, UnmovedKnows
  <2>5. QED BY <2>2, <2>3, <2>4 DEF CallsKnowTheVolume
<1>10. QED BY <1>3, <1>4, <1>5, <1>6, <1>7, <1>8, <1>9 DEF CloudEnds, Environment

\* What a call knows of the volume is true, at every point of every call.
THEOREM CallsAreRight == Spec => []CallsKnowTheVolume
<1>1. Init => CallsKnowTheVolume
  BY DEF Init, CallsKnowTheVolume, StatusFollowsOperation, JobIsOwn, Knows, Answered,
         NewVolume, Idle
<1>2. TypeOK /\ CallsKnowTheVolume /\ [Next]_vars => CallsKnowTheVolume'
  <2> SUFFICES ASSUME TypeOK, CallsKnowTheVolume, [Next]_vars PROVE CallsKnowTheVolume'
    OBVIOUS
  <2>1. /\ StatusFollowsOperation /\ JobIsOwn /\ \A c \in Calls : Knows(c)
    BY DEF CallsKnowTheVolume
  <2>2. ASSUME NEW c \in Calls, NEW i \in Intents, Begin(c, i), History
        PROVE  CallsKnowTheVolume'
    <3>1. \A d \in Calls \ {c} : Knows(d)'
      BY <2>1, <2>2, BeginStep, UnmovedKnows
    <3>2. QED BY <2>1, <2>2, <3>1, BeginStep DEF CallsKnowTheVolume
  <2>3. ASSUME NEW c \in Calls, Publish(c) \/ Unpublish(c), History
        PROVE  CallsKnowTheVolume'
    <3>1. \A d \in Calls \ {c} : Knows(d)'
      BY <2>1, <2>3, HandlerStep, UnmovedKnows
    <3>2. Knows(c)'
      BY <2>1, <2>3, PublishKnows, UnpublishKnows
    <3>3. QED BY <2>1, <2>3, <3>1, <3>2, HandlerStep DEF CallsKnowTheVolume
  <2>4. CASE CloudEnds \/ Environment
    BY <2>4, CloudStep
  <2>5. CASE UNCHANGED vars
    BY <2>1, <2>5 DEF vars, CallsKnowTheVolume, StatusFollowsOperation, JobIsOwn, Knows,
                     Answered, NothingToDetach
  <2>6. QED BY <2>2, <2>3, <2>4, <2>5 DEF Next, Start, Handle
<1>3. QED BY <1>1, <1>2, TypeCorrect, PTL DEF Spec

\* A publish call that answers OK had the volume in-use during the call, and on
\* its own server unless it only waited for an attach begun before it.
THEOREM PublishIsHonest == Spec => []PublishedWasAttached
<1>1. CallsKnowTheVolume => PublishedWasAttached
  BY DEF CallsKnowTheVolume, Knows, PublishedWasAttached
<1>2. QED BY <1>1, CallsAreRight, PTL

\* An unpublish call that answers OK had its server off the attachment list at
\* some moment of the call.
THEOREM UnpublishIsHonest == Spec => []UnpublishedWasDetached
<1>1. CallsKnowTheVolume => UnpublishedWasDetached
  BY DEF CallsKnowTheVolume, Knows, UnpublishedWasDetached
<1>2. QED BY <1>1, CallsAreRight, PTL

\* A call polls the job of its own operation, and never two calls at once.
THEOREM JobsAreOwn == Spec => []JobIsOwn
<1>1. CallsKnowTheVolume => JobIsOwn
  BY DEF CallsKnowTheVolume
<1>2. QED BY <1>1, CallsAreRight, PTL

----------------------------------------------------------------------------
(* What the CO was told is unpublished stays detached.                     *)

\* Nobody asks for the volume on s, and the cloud is not attaching it there.
Quiet(s) == ~Publishing(s) /\ ~Attaching(s)

\* Why a released server stays detached: nothing can attach the volume to it,
\* and an unpublish call that nothing disturbed yet knows as much of its own.
ReleasedForGood ==
  /\ \A s \in released : Quiet(s) /\ s \notin volume.attachments
  /\ \A c \in Calls :
       InProgress(c) /\ rpc[c] = "unpublish" /\ "contended" \notin witness[c] =>
         /\ Quiet(node[c])
         /\ "detached" \in witness[c] => node[c] \notin volume.attachments

\* Only a publish call of s makes the cloud attach the volume to s, and only
\* such an attachment brings s back into the list.
LEMMA QuietStaysDetached ==
  ASSUME TypeOK, CallsKnowTheVolume, Next, NEW s \in Servers, Quiet(s)
  PROVE  /\ ~Attaching(s)'
         /\ s \notin volume.attachments => s \notin volume'.attachments
<1> DEFINE Goal == /\ ~Attaching(s)'
                   /\ s \notin volume.attachments => s \notin volume'.attachments
<1>1. ~Attaching(s) /\ volume \in Volume /\ operation \in Operation
  BY DEF Quiet, TypeOK
<1>2. operation.kind = "attach" => operation.server # s
  BY <1>1 DEF Attaching, Operation, Idle
<1>3. ASSUME UNCHANGED <<volume, operation>> PROVE Goal
  BY <1>1, <1>3 DEF Attaching
<1>4. ASSUME NEW t \in Servers, NEW k \in {"attach", "detach"},
             operation' = [kind |-> k, server |-> t], t # s \/ k = "detach",
             volume'.attachments = volume.attachments
      PROVE  Goal
  BY <1>4 DEF Attaching
<1>5. ASSUME NEW r, NEW v, Finish(r, v), v.attachments \subseteq volume.attachments
                                           \/ \E t \in Servers \ {s} : v.attachments = {t}
      PROVE  Goal
  BY <1>5 DEF Finish, Attaching, Idle
<1>6. CASE \E c \in Calls : Start(c)
  BY <1>3, <1>6 DEF Start, Begin
<1>7. ASSUME NEW c \in Calls, Attach(c) PROVE Goal
  <2>1. CASE AcceptAttach(node[c])
    <3>1. node[c] \in Servers /\ node[c] # s
      BY <1>7 DEF Attach, TypeOK, CallsKnowTheVolume, Knows, PublishRequest, Quiet, Publishing
    <3>2. volume'.attachments = volume.attachments
      BY <1>1, <2>1 DEF AcceptAttach, Volume
    <3>3. QED BY <1>4, <2>1, <3>1, <3>2 DEF AcceptAttach
  <2>2. QED BY <1>3, <1>7, <2>1 DEF Attach, cloud
<1>8. ASSUME NEW c \in Calls, Detach(c) PROVE Goal
  <2>1. CASE AcceptDetach(node[c])
    <3>1. node[c] \in Servers /\ volume'.attachments = volume.attachments
      BY <1>1, <2>1 DEF AcceptDetach, Volume, TypeOK
    <3>2. QED BY <1>4, <2>1, <3>1 DEF AcceptDetach
  <2>2. QED BY <1>3, <1>8, <2>1 DEF Detach, cloud
<1>9. ASSUME NEW c \in Calls, Publish(c) \/ Unpublish(c) PROVE Goal
  BY <1>3, <1>7, <1>8, <1>9
     DEF Publish, Unpublish, GetServer, GetVolume, WaitAttached, WaitAttaching, GetDevice,
         UnpublishGetVolume, UnpublishGetServer, WaitDetached, cloud
<1>10. CASE CloudEnds
  <2>1. CASE AttachSucceeds
    BY <1>1, <1>2, <1>5, <2>1, OperationTyping DEF AttachSucceeds
  <2>2. CASE DetachSucceeds \/ AttachFails
    BY <1>5, <2>2 DEF DetachSucceeds, AttachFails, NewVolume
  <2>3. CASE DetachFails
    BY <1>1, <1>5, <2>3 DEF DetachFails, Volume
  <2>4. QED BY <1>10, <2>1, <2>2, <2>3 DEF CloudEnds
<1>11. CASE Environment
  <2>1. CASE ListAttachment
    BY <1>1, <1>2, <2>1 DEF ListAttachment, Attaching, Volume
  <2>2. CASE Crash
    BY <1>3, <2>2 DEF Crash, cloud
  <2>3. CASE \E t \in Servers : DeleteServer(t)
    BY <1>1, <2>3 DEF DeleteServer, Attaching, Idle, NewVolume
  <2>4. QED BY <1>11, <2>1, <2>2, <2>3 DEF Environment
<1>12. QED BY <1>6, <1>9, <1>10, <1>11 DEF Next, Handle

\* A call keeps its request while it is in progress.
LEMMA RequestKept ==
  ASSUME TypeOK, Next, NEW c \in Calls, InProgress(c)
  PROVE  rpc'[c] = rpc[c] /\ node'[c] = node[c]
BY DEF TypeOK, Next, Start, Begin, Handle, Publish, Unpublish, GetServer, GetVolume, Attach,
       WaitAttached, WaitAttaching, GetDevice, UnpublishGetVolume, UnpublishGetServer,
       Detach, WaitDetached, request, CloudEnds, AttachSucceeds, DetachSucceeds,
       AttachFails, DetachFails, Finish, Environment, ListAttachment, Crash,
       DeleteServer, calls

\* A volume the CO was told is unpublished does not come back attached, unless
\* an attachment was under way when the unpublish call was made.
THEOREM ReleaseIsFinal == Spec => []ReleasedStaysDetached
<1>1. Init => ReleasedForGood
  BY DEF Init, ReleasedForGood
<1>2. /\ TypeOK /\ TypeOK' /\ CallsKnowTheVolume /\ CallsKnowTheVolume'
      /\ ReleasedForGood /\ [Next]_vars
      => ReleasedForGood'
  <2> SUFFICES ASSUME TypeOK, TypeOK', CallsKnowTheVolume, CallsKnowTheVolume',
                      ReleasedForGood, [Next]_vars
               PROVE  ReleasedForGood'
    OBVIOUS
  <2>1. CASE UNCHANGED vars
    BY <2>1 DEF vars, ReleasedForGood, Quiet, Publishing, Attaching
  <2>2. CASE Next
    <3>1. History
      BY <2>2 DEF Next, Start, Handle, CloudEnds, Environment
    <3>2. ASSUME NEW c \in Calls, InProgress(c), reply'[c] # "ERR"
          PROVE  /\ "contended" \in witness[c] => "contended" \in witness'[c]
                 /\ ~Quiet(node[c])' => "contended" \in witness'[c]
                 /\ "detached" \in witness'[c] =>
                      "detached" \in witness[c] \/ node[c] \notin volume'.attachments
      <4>1. witness'[c] = witness[c] \cup Facts(node[c])'
        BY <3>1, <3>2, HistoryGrows
      <4>2. (node[c])' = node[c]
        BY <2>2, <3>2, RequestKept
      <4>3. QED BY <4>1, <4>2 DEF Facts, Fact, Quiet
    <3>3. ASSUME NEW c \in Calls, InProgress(c), rpc[c] = "unpublish",
                 "contended" \notin witness[c], reply'[c] # "ERR",
                 "detached" \in witness'[c]
          PROVE  node[c] \notin volume'.attachments
      <4>1. node[c] \in Servers /\ Quiet(node[c])
        BY <3>3 DEF ReleasedForGood, TypeOK
      <4>2. QED BY <2>2, <3>2, <3>3, <4>1, QuietStaysDetached DEF ReleasedForGood
    <3>4. ASSUME NEW c \in Calls, InProgress(c)', rpc'[c] = "unpublish",
                 "contended" \notin witness'[c]
          PROVE  /\ Quiet(node[c])'
                 /\ "detached" \in witness'[c] => (node[c])' \notin volume'.attachments
      <4>1. reply'[c] # "ERR"
        BY <3>4 DEF CallsKnowTheVolume, Knows
      <4>2. CASE InProgress(c)
        <5>1. rpc[c] = "unpublish" /\ (node[c])' = node[c]
          BY <2>2, <3>4, <4>2, RequestKept
        <5>2. QED BY <3>2, <3>3, <3>4, <4>1, <4>2, <5>1
      <4>3. CASE ~InProgress(c)
        <5>1. witness'[c] = Facts(node[c])'
          BY <3>1, <3>4, <4>1, <4>3 DEF History
        <5>2. QED BY <3>4, <5>1 DEF Facts, Fact, Quiet
      <4>4. QED BY <4>2, <4>3
    <3>5. ASSUME NEW s \in released'
          PROVE  Quiet(s)' /\ s \notin volume'.attachments
      <4>1. s \in Servers /\ ~Publishing(s)'
        BY <3>1, <3>5 DEF History
      <4>2. CASE s \in released
        BY <2>2, <4>1, <4>2, QuietStaysDetached DEF ReleasedForGood, Quiet
      <4>3. ASSUME NEW c \in Calls, AnswersUnpublish(c, s), "contended" \notin witness[c]
            PROVE  Quiet(s)' /\ s \notin volume'.attachments
        <5>1. /\ InProgress(c) /\ ~InProgress(c)' /\ reply'[c] = "OK"
              /\ rpc[c] = "unpublish" /\ node[c] = s
          BY <4>3 DEF AnswersUnpublish
        <5>2. Answered(c, "unpublish")'
          BY <2>2, <5>1, RequestKept DEF Answered
        <5>3. "detached" \in witness'[c]
          BY <5>2 DEF CallsKnowTheVolume, Knows
        <5>4. s \notin volume'.attachments
          BY <3>3, <4>3, <5>1, <5>3
        <5>5. Quiet(s)
          BY <4>3, <5>1 DEF ReleasedForGood
        <5>6. QED BY <2>2, <4>1, <5>4, <5>5, QuietStaysDetached DEF Quiet
      <4>4. QED BY <3>1, <3>5, <4>2, <4>3 DEF History
    <3>6. QED BY <3>4, <3>5 DEF ReleasedForGood
  <2>3. QED BY <2>1, <2>2
<1>3. ReleasedForGood => ReleasedStaysDetached
  BY DEF ReleasedForGood, ReleasedStaysDetached
<1>4. QED BY <1>1, <1>2, <1>3, TypeCorrect, CallsAreRight, PTL DEF Spec
=============================================================================
