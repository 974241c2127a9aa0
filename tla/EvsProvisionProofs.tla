------------------------- MODULE EvsProvisionProofs -------------------------
(* Theorems about EvsProvision: they hold for any number of IDs and of calls. *)
EXTENDS EvsProvision, FiniteSetTheorems, TLAPS

USE DEF InProgress, SameName, SameSize, NotFound, LargeEnough

\* The type of everything but the history variable.
StateTypeOK ==
  /\ status \in [VolumeIds -> Status]
  /\ size \in [VolumeIds -> Sizes \cup {0}]
  /\ goal \in [VolumeIds -> Sizes \cup {0}]
  /\ job \in [Calls -> {"none", "RUNNING", "SUCCESS", "FAIL"}]
  /\ pc \in [Calls -> {"idle"} \cup Request]
  /\ rpc \in [Calls -> {"create", "delete", "expand"}]
  /\ asked \in [Calls -> Sizes \cup {0}]
  /\ target \in [Calls -> VolumeIds \cup {NoVolume}]
  /\ polls \in [Calls -> 0 .. MaxPolls - 1]
  /\ reply \in [Calls -> {"none", "OK", "ERR"}]

\* Every step of a create call keeps the types.
LEMMA CreateTyping ==
  ASSUME StateTypeOK, NEW c \in Calls, CreateVolume(c)
  PROVE  StateTypeOK'
<1> USE MaxPollsAssumption DEF StateTypeOK, Request
<1>1. CASE CheckVolumeExists(c)
  BY <1>1 DEF CheckVolumeExists, Listed, Goto, Return, cloud, request
<1>2. CASE CheckSnapshotExists(c)
  BY <1>2 DEF CheckSnapshotExists, Goto, Return, cloud, request
<1>3. CASE Create(c)
  BY <1>3 DEF Create, AcceptCreate, Status, Goto, Return, cloud, request
<1>4. CASE WaitCreated(c)
  BY <1>4 DEF WaitCreated, PollJob, NotYet, Goto, Return, cloud, request
<1>5. CASE WaitCinder(c)
  BY <1>5 DEF WaitCinder, NotYet, Goto, Return, cloud, request
<1>6. CASE GetCreated(c)
  BY <1>6 DEF GetCreated, Return, cloud, request
<1>7. QED BY <1>1, <1>2, <1>3, <1>4, <1>5, <1>6 DEF CreateVolume

\* Every step of a delete or expand call keeps the types.
LEMMA DeleteExpandTyping ==
  ASSUME StateTypeOK, NEW c \in Calls, Delete(c) \/ ControllerExpandVolume(c)
  PROVE  StateTypeOK'
<1> USE MaxPollsAssumption DEF StateTypeOK, Request
<1>1. CASE Delete(c)
  BY <1>1 DEF Delete, AcceptDelete, Status, Return, cloud, request
<1>2. CASE ExpandGetVolume(c)
  BY <1>2 DEF ExpandGetVolume, Goto, Return, cloud, request
<1>3. CASE Expand(c)
  BY <1>3 DEF Expand, AcceptExtend, Status, Return, cloud, request
<1>4. CASE WaitExpanded(c)
  BY <1>4 DEF WaitExpanded, PollJob, NotYet, Return, cloud, request
<1>5. QED BY <1>1, <1>2, <1>3, <1>4 DEF ControllerExpandVolume

\* A new call of the CO keeps the types.
LEMMA BeginTyping ==
  ASSUME StateTypeOK, NEW c \in Calls, NEW kind \in Rpcs, NEW sz \in Sizes,
         NEW v \in VolumeIds \cup {NoVolume}, Begin(c, kind, sz, v)
  PROVE  StateTypeOK'
<1>1. kind \in {"create", "delete", "expand"} /\ 0 \in 0 .. MaxPolls - 1
  BY RpcsAssumption, MaxPollsAssumption
<1>2. FirstRequest(kind) \in Request
  BY <1>1 DEF FirstRequest, Request
<1>3. QED BY <1>1, <1>2 DEF StateTypeOK, Begin, cloud

\* Every step of the cloud, and a crash of the driver, keeps the types.
LEMMA CloudTyping ==
  ASSUME StateTypeOK,
         \/ Crash
         \/ \E v \in VolumeIds :
              \/ ListVolume(v) \/ CreateSucceeds(v) \/ CreateFails(v)
              \/ ExtendSucceeds(v) \/ ExtendFails(v) \/ DeleteEnds(v)
  PROVE  StateTypeOK'
<1> USE DEF StateTypeOK, Status, calls, EndJob
<1>1. CASE Crash
  BY <1>1 DEF Crash, cloud, request
<1>2. ASSUME NEW v \in VolumeIds, ListVolume(v) PROVE StateTypeOK'
  BY <1>2 DEF ListVolume
<1>3. ASSUME NEW v \in VolumeIds, CreateSucceeds(v) PROVE StateTypeOK'
  BY <1>3 DEF CreateSucceeds
<1>4. ASSUME NEW v \in VolumeIds, CreateFails(v) PROVE StateTypeOK'
  BY <1>4 DEF CreateFails
<1>5. ASSUME NEW v \in VolumeIds, ExtendSucceeds(v) PROVE StateTypeOK'
  BY <1>5 DEF ExtendSucceeds
<1>6. ASSUME NEW v \in VolumeIds, ExtendFails(v) PROVE StateTypeOK'
  BY <1>6 DEF ExtendFails
<1>7. ASSUME NEW v \in VolumeIds, DeleteEnds(v) PROVE StateTypeOK'
  BY <1>7 DEF DeleteEnds
<1>8. QED BY <1>1, <1>2, <1>3, <1>4, <1>5, <1>6, <1>7

\* Every variable stays in its range.
THEOREM TypeCorrect == Spec => []TypeOK
<1>1. Init => TypeOK
  BY MaxPollsAssumption DEF Init, TypeOK, Status
<1>2. TypeOK /\ [Next]_vars => TypeOK'
  <2> SUFFICES ASSUME TypeOK, [Next]_vars PROVE TypeOK'
    OBVIOUS
  <2>1. StateTypeOK
    BY DEF TypeOK, StateTypeOK
  <2>2. ASSUME StateTypeOK', History PROVE TypeOK'
    <3>1. witness' \in [Calls -> SUBSET Fact]
      BY <2>2 DEF TypeOK, History, Facts
    <3>2. QED BY <2>2, <3>1 DEF TypeOK, StateTypeOK
  <2>3. ASSUME NEW c \in Calls, Start(c) PROVE TypeOK'
    BY <2>1, <2>2, <2>3, BeginTyping DEF Start
  <2>4. ASSUME NEW c \in Calls, Handle(c) PROVE TypeOK'
    BY <2>1, <2>2, <2>4, CreateTyping, DeleteExpandTyping DEF Handle
  <2>5. ASSUME NEW v \in VolumeIds, CloudEnds(v) PROVE TypeOK'
    BY <2>1, <2>2, <2>5, CloudTyping DEF CloudEnds
  <2>6. CASE Crash /\ History
    BY <2>1, <2>2, <2>6, CloudTyping
  <2>7. CASE UNCHANGED vars
    BY <2>7 DEF TypeOK, vars
  <2>8. QED BY <2>3, <2>4, <2>5, <2>6, <2>7 DEF Next
<1>3. QED BY <1>1, <1>2, PTL DEF Spec

----------------------------------------------------------------------------
(* The number of volumes of one name.                                      *)

\* There are finitely many volumes and committed calls, so both can be counted.
LEMMA CountsAreFinite ==
  /\ IsFiniteSet(Listed) /\ Cardinality(Listed) \in Nat
  /\ IsFiniteSet(Committed) /\ Cardinality(Committed) \in Nat
  /\ Cardinality(Committed) <= Cardinality(Calls)
  /\ Cardinality(Calls) \in Nat
<1>1. Listed \in SUBSET VolumeIds /\ Committed \in SUBSET Calls
  BY DEF Listed, Committed
<1>2. IsFiniteSet(Listed) /\ IsFiniteSet(Committed)
      /\ Cardinality(Committed) <= Cardinality(Calls)
  BY <1>1, FS_Subset, VolumeIdsAssumption, CallsAssumption
<1>3. QED BY <1>2, FS_CardinalityType, CallsAssumption

\* The same of the next state.
LEMMA CountsAreFiniteNext ==
  /\ IsFiniteSet(Listed') /\ Cardinality(Listed') \in Nat
  /\ IsFiniteSet(Committed') /\ Cardinality(Committed') \in Nat
  /\ Cardinality(Committed') <= Cardinality(Calls)
<1>1. Listed' \in SUBSET VolumeIds /\ Committed' \in SUBSET Calls
  BY DEF Listed, Committed
<1>2. IsFiniteSet(Listed') /\ IsFiniteSet(Committed')
      /\ Cardinality(Committed') <= Cardinality(Calls)
  BY <1>1, FS_Subset, VolumeIdsAssumption, CallsAssumption
<1>3. QED BY <1>2, FS_CardinalityType

\* A step that adds neither a volume nor a committed call keeps the bound.
LEMMA NothingAdded ==
  ASSUME DuplicatesBounded, Listed' \subseteq Listed, Committed' \subseteq Committed
  PROVE  DuplicatesBounded'
<1>1. Cardinality(Listed') <= Cardinality(Listed)
  BY CountsAreFinite, FS_Subset
<1>2. Cardinality(Committed') <= Cardinality(Committed)
  BY CountsAreFinite, FS_Subset
<1>3. QED BY <1>1, <1>2, CountsAreFinite, CountsAreFiniteNext DEF DuplicatesBounded

\* The two steps that add something: a listing that finds no volume commits a
\* call, when there is room for all of them; a creation spends a commitment.
LEMMA CreateKeepsBound ==
  ASSUME TypeOK, DuplicatesBounded, NEW c \in Calls, CreateVolume(c)
  PROVE  DuplicatesBounded'
<1>1. CASE CheckVolumeExists(c)
  <2>1. Listed' = Listed
    BY <1>1 DEF CheckVolumeExists, cloud, Listed
  <2>2. CASE Listed = {}
    <3>1. Cardinality(Listed') = 0
      BY <2>1, <2>2, FS_EmptySet
    <3>2. QED BY <3>1, CountsAreFiniteNext DEF DuplicatesBounded
  <2>3. CASE Listed # {}
    <3>1. \E r \in {"OK", "ERR"} : Return(c, r)
      BY <1>1, <2>3 DEF CheckVolumeExists
    <3>2. Committed' \subseteq Committed
      BY <3>1 DEF Return, Committed, TypeOK
    <3>3. QED BY <2>1, <3>2, NothingAdded
  <2>4. QED BY <2>2, <2>3
<1>2. CASE CheckSnapshotExists(c)
  <2>1. Listed' = Listed
    BY <1>2 DEF CheckSnapshotExists, cloud, Listed
  <2>2. Committed' \subseteq Committed
    BY <1>2 DEF CheckSnapshotExists, Goto, Return, Committed, TypeOK
  <2>3. QED BY <2>1, <2>2, NothingAdded
<1>3. CASE Create(c)
  <2>1. c \in Committed /\ Committed' = Committed \ {c}
    BY <1>3 DEF Create, Goto, Return, Committed, TypeOK
  <2>2. Cardinality(Committed') = Cardinality(Committed) - 1
    BY <2>1, CountsAreFinite, FS_RemoveElement
  <2>3. ASSUME NEW v \in VolumeIds, AcceptCreate(v, asked[c])
        PROVE  DuplicatesBounded'
    <3>1. Listed' \in SUBSET (Listed \cup {v})
      BY <2>3 DEF AcceptCreate, Listed, TypeOK
    <3>2. IsFiniteSet(Listed \cup {v}) /\ Cardinality(Listed \cup {v}) <= Cardinality(Listed) + 1
      <4>1. IsFiniteSet(Listed) /\ Cardinality(Listed) \in Nat
        BY CountsAreFinite
      <4>2. IsFiniteSet(Listed \cup {v})
            /\ Cardinality(Listed \cup {v}) =
                 IF v \in Listed THEN Cardinality(Listed) ELSE Cardinality(Listed) + 1
        BY <4>1, FS_AddElement
      <4>3. QED BY <4>1, <4>2
    <3>3. Cardinality(Listed') <= Cardinality(Listed \cup {v})
      BY <3>1, <3>2, FS_Subset
    <3>4. Cardinality(Listed \cup {v}) \in Nat
      BY <3>2, FS_CardinalityType
    <3>5. QED BY <2>2, <3>2, <3>3, <3>4, CountsAreFinite, CountsAreFiniteNext
                 DEF DuplicatesBounded
  <2>4. CASE UNCHANGED cloud
    <3>1. Listed' = Listed
      BY <2>4 DEF cloud, Listed
    <3>2. QED BY <2>1, <3>1, NothingAdded
  <2>5. QED BY <1>3, <2>3, <2>4 DEF Create
<1>4. CASE WaitCreated(c) \/ WaitCinder(c) \/ GetCreated(c)
  <2>1. Listed' = Listed
    BY <1>4 DEF WaitCreated, WaitCinder, GetCreated, cloud, Listed
  <2>2. Committed' \subseteq Committed
    BY <1>4 DEF WaitCreated, WaitCinder, GetCreated, PollJob, NotYet, Goto, Return,
                Committed, TypeOK
  <2>3. QED BY <2>1, <2>2, NothingAdded
<1>5. QED BY <1>1, <1>2, <1>3, <1>4 DEF CreateVolume

\* No other step adds a volume or a committed call, unless a volume is listed late.
LEMMA OthersAddNothing ==
  ASSUME TypeOK, "lag" \notin Faults, \A v \in VolumeIds : status[v] # "submitted",
         \/ \E c \in Calls : Delete(c) \/ ControllerExpandVolume(c)
         \/ \E c \in Calls, kind \in Rpcs, sz \in Sizes, v \in VolumeIds \cup {NoVolume} :
              Begin(c, kind, sz, v)
         \/ \E v \in VolumeIds :
              \/ ListVolume(v) \/ CreateSucceeds(v) \/ CreateFails(v)
              \/ ExtendSucceeds(v) \/ ExtendFails(v) \/ DeleteEnds(v)
         \/ Crash
  PROVE  /\ Listed' \subseteq Listed /\ Committed' \subseteq Committed
         /\ \A v \in VolumeIds : status'[v] # "submitted"
<1> USE DEF TypeOK, Listed, Committed
<1>1. ASSUME NEW c \in Calls, Delete(c) \/ Expand(c)
      PROVE  /\ Listed' \subseteq Listed /\ Committed' \subseteq Committed
             /\ \A v \in VolumeIds : status'[v] # "submitted"
  BY <1>1 DEF Delete, AcceptDelete, Expand, AcceptExtend, Return, cloud
<1>2. ASSUME NEW c \in Calls, ExpandGetVolume(c) \/ WaitExpanded(c)
      PROVE  /\ Listed' \subseteq Listed /\ Committed' \subseteq Committed
             /\ \A v \in VolumeIds : status'[v] # "submitted"
  BY <1>2 DEF ExpandGetVolume, WaitExpanded, PollJob, NotYet, Goto, Return, cloud
<1>3. ASSUME NEW c \in Calls, NEW kind \in Rpcs, NEW sz \in Sizes,
             NEW v \in VolumeIds \cup {NoVolume}, Begin(c, kind, sz, v)
      PROVE  /\ Listed' \subseteq Listed /\ Committed' \subseteq Committed
             /\ \A u \in VolumeIds : status'[u] # "submitted"
  <2>1. FirstRequest(kind) \notin {"CheckSnapshotExists", "Create"}
    BY RpcsAssumption DEF FirstRequest
  <2>2. QED BY <1>3, <2>1 DEF Begin, cloud
<1>4. ASSUME NEW v \in VolumeIds,
             \/ ListVolume(v) \/ CreateSucceeds(v) \/ CreateFails(v)
             \/ ExtendSucceeds(v) \/ ExtendFails(v) \/ DeleteEnds(v)
      PROVE  /\ Listed' \subseteq Listed /\ Committed' \subseteq Committed
             /\ \A u \in VolumeIds : status'[u] # "submitted"
  BY <1>4 DEF ListVolume, CreateSucceeds, CreateFails, ExtendSucceeds, ExtendFails,
              DeleteEnds, calls
<1>5. CASE Crash
  BY <1>5 DEF Crash, cloud
<1>6. QED BY <1>1, <1>2, <1>3, <1>4, <1>5 DEF ControllerExpandVolume

\* If the cloud lists a volume as soon as it accepts it, the race between listing
\* and creating never makes more volumes of one name than there are calls that
\* can run at the same time.
THEOREM RaceIsBounded ==
  ASSUME "lag" \notin Faults
  PROVE  Spec => []DuplicatesBounded
<1> DEFINE NoneSubmitted == \A v \in VolumeIds : status[v] # "submitted"
           Inv == DuplicatesBounded /\ NoneSubmitted
<1>1. Init => Inv
  <2> SUFFICES ASSUME Init PROVE Inv
    OBVIOUS
  <2>1. Listed = {} /\ NoneSubmitted
    BY DEF Init, Listed
  <2>2. QED BY <2>1, FS_EmptySet, CountsAreFinite DEF DuplicatesBounded
<1>2. TypeOK /\ Inv /\ [Next]_vars => Inv'
  <2> SUFFICES ASSUME TypeOK, Inv, [Next]_vars PROVE Inv'
    OBVIOUS
  <2>1. ASSUME NEW c \in Calls, CreateVolume(c) PROVE Inv'
    <3>1. NoneSubmitted'
      BY <2>1 DEF TypeOK, CreateVolume, CheckVolumeExists, CheckSnapshotExists, Create,
                  AcceptCreate, WaitCreated, WaitCinder, GetCreated, cloud
    <3>2. QED BY <2>1, <3>1, CreateKeepsBound
  <2>2. CASE \/ \E c \in Calls : Delete(c) \/ ControllerExpandVolume(c)
             \/ \E c \in Calls, kind \in Rpcs, sz \in Sizes, v \in VolumeIds \cup {NoVolume} :
                  Begin(c, kind, sz, v)
             \/ \E v \in VolumeIds :
                  \/ ListVolume(v) \/ CreateSucceeds(v) \/ CreateFails(v)
                  \/ ExtendSucceeds(v) \/ ExtendFails(v) \/ DeleteEnds(v)
             \/ Crash
    BY <2>2, OthersAddNothing, NothingAdded
  <2>3. CASE UNCHANGED vars
    <3>1. Listed' = Listed /\ Committed' = Committed
      BY <2>3 DEF vars, Listed, Committed
    <3>2. QED BY <2>3, <3>1 DEF vars, DuplicatesBounded
  <2>4. QED BY <2>1, <2>2, <2>3 DEF Next, Start, Handle, CloudEnds
<1>3. QED BY <1>1, <1>2, TypeCorrect, PTL DEF Spec

\* So a CO that never has two calls under way gets one volume per name at most,
\* whatever times out, fails, is lost or crashes.
THEOREM SerialIsIdempotent ==
  ASSUME "lag" \notin Faults, Cardinality(Calls) = 1
  PROVE  Spec => []OneVolumePerName
<1>1. DuplicatesBounded => OneVolumePerName
  BY CountsAreFinite DEF DuplicatesBounded, OneVolumePerName
<1>2. QED BY <1>1, RaceIsBounded, PTL

----------------------------------------------------------------------------
(* What a successful answer says.                                          *)

Named(c) == target[c] \in VolumeIds /\ status[target[c]] # "unborn"

\* What the next request of a call, or its answer, tells of its volume: the three
\* properties about answers, carried back to the requests before them.  A job
\* that runs for an expand call is the extension the call asked for itself.
Knows(c) ==
  /\ InProgress(c) => reply[c] = "none"
  /\ pc[c] \in {"CheckVolumeExists", "CheckSnapshotExists", "Create"} =>
       rpc[c] = "create" /\ "made" \notin witness[c]
  /\ pc[c] \in {"WaitCreated", "WaitCinder", "GetCreated"} =>
       rpc[c] = "create" /\ Named(c) /\ "sized" \in witness[c]
  /\ pc[c] = "WaitCreated" /\ job[c] = "SUCCESS" => "ready" \in witness[c]
  /\ pc[c] = "GetCreated" => "ready" \in witness[c]
  /\ pc[c] = "Delete" => rpc[c] = "delete" /\ Named(c)
  /\ pc[c] \in {"ExpandGetVolume", "Expand", "WaitExpanded"} =>
       rpc[c] = "expand" /\ Named(c)
  /\ pc[c] = "WaitExpanded" /\ job[c] = "RUNNING" =>
       status[target[c]] = "extending" /\ goal[target[c]] = asked[c]
  /\ pc[c] = "WaitExpanded" /\ job[c] = "SUCCESS" => "grown" \in witness[c]
  /\ Answered(c, "create") =>
       "sized" \in witness[c] /\ ("made" \in witness[c] => "ready" \in witness[c])
  /\ Answered(c, "delete") => "doomed" \in witness[c]
  /\ Answered(c, "expand") => "grown" \in witness[c]

\* A step that leaves the fields of call d alone: volumes that were born stay
\* born, and d's job ends only with its operation.
StaysBorn == \A v \in VolumeIds : status[v] # "unborn" => status'[v] # "unborn"
Unmoved(d) == UNCHANGED <<pc[d], rpc[d], asked[d], target[d], reply[d]>>
JobFollows(d) ==
  target[d] \in VolumeIds =>
    LET v == target[d]
    IN  /\ job'[d] = "RUNNING" =>
             /\ job[d] = "RUNNING"
             /\ status[v] = "extending" => status'[v] = "extending" /\ goal'[v] = goal[v]
        /\ job'[d] = "SUCCESS" /\ job[d] # "SUCCESS" =>
             /\ job[d] = "RUNNING" /\ status'[v] = "available"
             /\ status[v] = "extending" => size'[v] = goal[v]

\* A call that takes no step keeps what it knows: what was true during the call
\* stays remembered.
LEMMA UnmovedKnows ==
  ASSUME TypeOK, TypeOK', NEW d \in Calls, Knows(d), History,
         StaysBorn, Unmoved(d), JobFollows(d)
  PROVE  Knows(d)'
<1>1. CASE InProgress(d)
  <2>1. witness'[d] = witness[d] \cup Facts(d)'
    BY <1>1 DEF History, Knows, Unmoved
  <2>2. pc[d] \notin {"WaitCreated", "WaitCinder"} => "made" \notin Facts(d)'
    BY DEF Facts, Unmoved
  <2>3. Named(d) => Named(d)'
    BY DEF Named, Unmoved, StaysBorn
  <2>4. ASSUME pc[d] = "WaitCreated", job'[d] = "SUCCESS" PROVE "ready" \in witness'[d]
    <3>1. CASE job[d] = "SUCCESS"
      BY <2>1, <2>4, <3>1 DEF Knows
    <3>2. CASE job[d] # "SUCCESS"
      <4>1. target'[d] \in VolumeIds /\ status'[target'[d]] = "available"
        BY <2>4, <3>2 DEF Knows, Named, JobFollows, Unmoved
      <4>2. "ready" \in Facts(d)'
        BY <4>1, VolumeIdsAssumption DEF Facts, Fact
      <4>3. QED BY <2>1, <4>2
    <3>3. QED BY <3>1, <3>2
  <2>5. ASSUME pc[d] = "WaitExpanded", job'[d] = "SUCCESS" PROVE "grown" \in witness'[d]
    <3>1. CASE job[d] = "SUCCESS"
      BY <2>1, <2>5, <3>1 DEF Knows
    <3>2. CASE job[d] # "SUCCESS"
      <4>1. /\ target'[d] \in VolumeIds /\ status'[target'[d]] = "available"
            /\ size'[target'[d]] = asked'[d]
        BY <2>5, <3>2 DEF Knows, Named, JobFollows, Unmoved
      <4>2. asked'[d] \in Sizes \cup {0} /\ Sizes \cup {0} \subseteq Nat
        BY SizesAssumption DEF TypeOK
      <4>3. "grown" \in Facts(d)'
        BY <4>1, <4>2, VolumeIdsAssumption DEF Facts, Fact, Exists
      <4>4. QED BY <2>1, <4>3
    <3>3. QED BY <3>1, <3>2
  <2>6. pc[d] = "WaitExpanded" /\ job'[d] = "RUNNING" =>
          status'[target'[d]] = "extending" /\ goal'[target'[d]] = asked'[d]
    BY DEF Knows, Named, JobFollows, Unmoved
  <2>7. QED BY <1>1, <2>1, <2>2, <2>3, <2>4, <2>5, <2>6 DEF Knows, Unmoved, Answered
<1>2. CASE ~InProgress(d)
  <2>1. reply[d] = "OK" => witness'[d] = witness[d]
    BY <1>2 DEF History, Unmoved
  <2>2. QED BY <1>2, <2>1 DEF Knows, Unmoved, Answered
<1>3. QED BY <1>1, <1>2

\* A call that ends with an error claims nothing.
LEMMA ErrorKnows ==
  ASSUME TypeOK, NEW c \in Calls, pc'[c] = "idle", reply'[c] = "ERR"
  PROVE  Knows(c)'
BY DEF Knows, Answered
\* Listing the volumes of the name: an answer names one of the size asked for.
LEMMA CheckKnows ==
  ASSUME TypeOK, NEW c \in Calls, Knows(c), CheckVolumeExists(c), History
  PROVE  Knows(c)'
<1> USE DEF CheckVolumeExists
<1>1. InProgress(c) /\ rpc'[c] = "create" /\ "made" \notin witness[c] /\ reply[c] = "none"
  BY DEF Knows, request
<1>2. CASE Goto(c, "CheckSnapshotExists")
  <2>1. pc'[c] = "CheckSnapshotExists" /\ reply'[c] = "none"
    BY <1>1, <1>2 DEF Goto, TypeOK
  <2>2. "made" \notin witness'[c]
    BY <1>1, <2>1 DEF History, Facts
  <2>3. QED BY <1>1, <2>1, <2>2 DEF Knows, Answered
<1>3. ASSUME NEW v \in Listed, size[v] = asked[c],
             target' = [target EXCEPT ![c] = v], Return(c, "OK")
      PROVE  Knows(c)'
  <2>1. target'[c] = v /\ pc'[c] = "idle" /\ reply'[c] = "OK"
    BY <1>3 DEF Return, TypeOK
  <2>2. "sized" \in Facts(c)' /\ "made" \notin Facts(c)'
    BY <1>3, <2>1, VolumeIdsAssumption DEF Facts, Fact, Listed, Exists, cloud, request
  <2>3. witness'[c] = witness[c] \cup Facts(c)'
    BY <1>1, <2>1 DEF History
  <2>4. QED BY <1>1, <2>1, <2>2, <2>3 DEF Knows, Answered
<1>4. CASE Return(c, "ERR")
  BY <1>4, ErrorKnows DEF Return, TypeOK
<1>5. QED BY <1>2, <1>3, <1>4

\* Reading the source snapshot tells nothing of a volume.
LEMMA CheckSnapshotKnows ==
  ASSUME TypeOK, NEW c \in Calls, Knows(c), CheckSnapshotExists(c), History
  PROVE  Knows(c)'
<1> USE DEF CheckSnapshotExists
<1>1. InProgress(c) /\ rpc'[c] = "create" /\ "made" \notin witness[c] /\ reply[c] = "none"
  BY DEF Knows, request
<1>2. CASE Goto(c, "Create")
  <2>1. pc'[c] = "Create" /\ reply'[c] = "none"
    BY <1>1, <1>2 DEF Goto, TypeOK
  <2>2. "made" \notin witness'[c]
    BY <1>1, <2>1 DEF History, Facts
  <2>3. QED BY <1>1, <2>1, <2>2 DEF Knows, Answered
<1>3. CASE Return(c, "ERR")
  BY <1>3, ErrorKnows DEF Return, TypeOK
<1>4. QED BY <1>2, <1>3

\* A volume just made has the size asked for; its job, if any, still runs.
LEMMA CreateKnows ==
  ASSUME TypeOK, NEW c \in Calls, Knows(c), Create(c), History
  PROVE  Knows(c)'
<1> USE DEF Create
<1>1. InProgress(c) /\ rpc'[c] = "create" /\ reply[c] = "none"
  BY DEF Knows, request
<1>2. ASSUME NEW v \in VolumeIds, AcceptCreate(v, asked[c]),
             target' = [target EXCEPT ![c] = v], UNCHANGED reply,
             \/ pc'[c] = "WaitCinder"
             \/ pc'[c] = "WaitCreated" /\ job'[c] = "RUNNING"
      PROVE  Knows(c)'
  <2>1. target'[c] = v /\ reply'[c] = "none"
    BY <1>1, <1>2 DEF TypeOK
  <2>2. status'[v] \in {"creating", "submitted"} /\ size'[v] = asked'[c]
    BY <1>2 DEF AcceptCreate, TypeOK, request
  <2>3. "sized" \in Facts(c)'
    BY <2>1, <2>2, VolumeIdsAssumption DEF Facts, Fact, Exists
  <2>4. "sized" \in witness'[c]
    BY <1>1, <2>1, <2>3 DEF History
  <2>5. QED BY <1>1, <1>2, <2>1, <2>2, <2>4 DEF Knows, Named, Answered
<1>3. CASE Return(c, "ERR")
  BY <1>3, ErrorKnows DEF Return, TypeOK
<1>4. Goto(c, "WaitCinder") => pc'[c] = "WaitCinder" /\ UNCHANGED reply
  BY DEF Goto, TypeOK
<1>5. pc' = [pc EXCEPT ![c] = "WaitCreated"] /\ job' = [job EXCEPT ![c] = "RUNNING"]
        => pc'[c] = "WaitCreated" /\ job'[c] = "RUNNING"
  BY DEF TypeOK
<1>6. QED BY <1>2, <1>3, <1>4, <1>5

\* A poll that goes on with the wait moves nothing but the count of polls.
LEMMA PollKnows ==
  ASSUME TypeOK, TypeOK', NEW c \in Calls, Knows(c), History,
         UNCHANGED <<cloud, request, target, pc, job, reply>>
  PROVE  Knows(c)'
<1>1. Unmoved(c) /\ StaysBorn /\ JobFollows(c)
  BY DEF Unmoved, StaysBorn, JobFollows, cloud, request
<1>2. QED BY <1>1, UnmovedKnows

\* Both waits of a create call end well only when the volume is available.
LEMMA WaitCreatedKnows ==
  ASSUME TypeOK, TypeOK', NEW c \in Calls, Knows(c), WaitCreated(c) \/ WaitCinder(c), History
  PROVE  Knows(c)'
<1>1. /\ UNCHANGED <<cloud, request, target>> /\ InProgress(c) /\ rpc[c] = "create"
      /\ Named(c) /\ "sized" \in witness[c] /\ reply[c] = "none"
  BY DEF Knows, WaitCreated, WaitCinder
<1>2. ASSUME Goto(c, "GetCreated"), "ready" \in witness'[c] PROVE Knows(c)'
  <2>1. pc'[c] = "GetCreated" /\ reply'[c] = "none"
    BY <1>1, <1>2 DEF Goto, TypeOK
  <2>2. "sized" \in witness'[c]
    BY <1>1, <2>1 DEF History
  <2>3. QED BY <1>1, <1>2, <2>1, <2>2 DEF Knows, Named, Answered, cloud, request
<1>3. CASE UNCHANGED <<pc, job, reply>>
  BY <1>1, <1>3, PollKnows
<1>4. CASE Return(c, "ERR")
  BY <1>4, ErrorKnows DEF Return, TypeOK
<1>5. CASE pc[c] = "WaitCreated" /\ job[c] = "SUCCESS" /\ Goto(c, "GetCreated")
  <2>1. "ready" \in witness'[c]
    BY <1>1, <1>5 DEF Knows, History, Goto
  <2>2. QED BY <1>2, <1>5, <2>1
<1>6. CASE status[target[c]] = "available" /\ Goto(c, "GetCreated")
  <2>1. "ready" \in Facts(c)'
    BY <1>1, <1>6, VolumeIdsAssumption DEF Facts, Fact, Named, cloud
  <2>2. "ready" \in witness'[c]
    BY <1>1, <1>6, <2>1 DEF History, Goto
  <2>3. QED BY <1>2, <1>6, <2>2
<1>7. QED BY <1>3, <1>4, <1>5, <1>6 DEF WaitCreated, WaitCinder, PollJob, NotYet

\* The answer of a call that waited repeats what the wait has shown.
LEMMA GetCreatedKnows ==
  ASSUME TypeOK, NEW c \in Calls, Knows(c), GetCreated(c), History
  PROVE  Knows(c)'
<1> USE DEF GetCreated
<1>1. CASE Return(c, "OK")
  <2>1. /\ InProgress(c) /\ rpc'[c] = "create" /\ pc'[c] = "idle" /\ reply'[c] = "OK"
        /\ {"sized", "ready"} \subseteq witness[c]
    BY <1>1 DEF Knows, Return, TypeOK, request
  <2>2. {"sized", "ready"} \subseteq witness'[c]
    BY <2>1 DEF History
  <2>3. QED BY <2>1, <2>2 DEF Knows, Answered
<1>2. CASE Return(c, "ERR")
  BY <1>2, ErrorKnows DEF Return, TypeOK
<1>3. QED BY <1>1, <1>2

\* A delete call answers OK when the cloud took it on, or no longer knows the ID.
LEMMA DeleteKnows ==
  ASSUME TypeOK, NEW c \in Calls, Knows(c), Delete(c), History
  PROVE  Knows(c)'
<1> USE DEF Delete
<1>1. InProgress(c) /\ rpc'[c] = "delete" /\ Named(c) /\ reply[c] = "none"
  BY DEF Knows, request
<1>2. ASSUME status'[target[c]] \in {"deleting", "gone"}, Return(c, "OK")
      PROVE  Knows(c)'
  <2>1. pc'[c] = "idle" /\ reply'[c] = "OK" /\ target' = target
    BY <1>2 DEF Return, TypeOK
  <2>2. "doomed" \in Facts(c)'
    BY <1>1, <1>2, <2>1, VolumeIdsAssumption DEF Facts, Fact, Named
  <2>3. "doomed" \in witness'[c]
    BY <1>1, <2>1, <2>2 DEF History
  <2>4. QED BY <1>1, <2>1, <2>3 DEF Knows, Answered
<1>3. CASE Return(c, "ERR")
  BY <1>3, ErrorKnows DEF Return, TypeOK
<1>4. AcceptDelete(target[c]) => status'[target[c]] = "deleting"
  BY <1>1 DEF AcceptDelete, TypeOK, Named
<1>5. ~Exists(target[c]) /\ UNCHANGED cloud => status'[target[c]] \in {"deleting", "gone"}
  BY <1>1 DEF Exists, Named, cloud
<1>6. QED BY <1>2, <1>3, <1>4, <1>5

\* An expand call reads the volume, has the cloud extend it and waits for the job.
LEMMA ExpandKnows ==
  ASSUME TypeOK, TypeOK', NEW c \in Calls, Knows(c), ControllerExpandVolume(c), History
  PROVE  Knows(c)'
<1>1. InProgress(c) /\ rpc'[c] = "expand" /\ Named(c) /\ reply[c] = "none" /\ target' = target
  BY DEF Knows, request, ControllerExpandVolume, ExpandGetVolume, Expand, WaitExpanded
<1>2. CASE Return(c, "ERR")
  BY <1>2, ErrorKnows DEF Return, TypeOK
<1>3. ASSUME Return(c, "OK"), "grown" \in witness'[c] PROVE Knows(c)'
  <2>1. pc'[c] = "idle" /\ reply'[c] = "OK"
    BY <1>3 DEF Return, TypeOK
  <2>2. QED BY <1>1, <1>3, <2>1 DEF Knows, Answered
<1>4. CASE ExpandGetVolume(c)
  <2>1. CASE Goto(c, "Expand")
    <3>1. pc'[c] = "Expand" /\ reply'[c] = "none"
      BY <1>1, <2>1 DEF Goto, TypeOK
    <3>2. Named(c)'
      BY <1>1, <1>4 DEF ExpandGetVolume, Named, cloud
    <3>3. QED BY <1>1, <3>1, <3>2 DEF Knows, Answered
  <2>2. CASE Exists(target[c]) /\ size[target[c]] >= asked[c] /\ Return(c, "OK")
    <3>1. "grown" \in Facts(c)'
      BY <1>1, <1>4, <2>2, VolumeIdsAssumption
         DEF Facts, Fact, Named, Exists, ExpandGetVolume, cloud, request
    <3>2. "grown" \in witness'[c]
      BY <1>1, <2>2, <3>1 DEF History, Return, TypeOK
    <3>3. QED BY <1>3, <2>2, <3>2
  <2>3. QED BY <1>2, <1>4, <2>1, <2>2 DEF ExpandGetVolume
<1>5. CASE Expand(c)
  <2>1. ASSUME AcceptExtend(target[c], asked[c]), pc' = [pc EXCEPT ![c] = "WaitExpanded"],
               job' = [job EXCEPT ![c] = "RUNNING"], UNCHANGED reply
        PROVE  Knows(c)'
    <3>1. pc'[c] = "WaitExpanded" /\ job'[c] = "RUNNING" /\ reply'[c] = "none"
      BY <1>1, <2>1 DEF TypeOK
    <3>2. status'[target'[c]] = "extending" /\ goal'[target'[c]] = asked'[c]
      BY <1>1, <1>5, <2>1 DEF AcceptExtend, Named, TypeOK, Expand, request
    <3>3. QED BY <1>1, <3>1, <3>2 DEF Knows, Named, Answered
  <2>2. QED BY <1>2, <1>5, <2>1 DEF Expand
<1>6. CASE WaitExpanded(c)
  <2>1. CASE UNCHANGED <<pc, job, reply>>
    BY <1>6, <2>1, PollKnows DEF WaitExpanded
  <2>2. CASE job[c] = "SUCCESS" /\ Return(c, "OK")
    <3>1. "grown" \in witness'[c]
      BY <1>1, <1>6, <2>2 DEF Knows, WaitExpanded, History, Return, TypeOK
    <3>2. QED BY <1>3, <2>2, <3>1
  <2>3. QED BY <1>2, <1>6, <2>1, <2>2 DEF WaitExpanded, PollJob, NotYet
<1>7. QED BY <1>4, <1>5, <1>6 DEF ControllerExpandVolume

\* A new call knows nothing yet.
LEMMA StartKnows ==
  ASSUME TypeOK, NEW c \in Calls, Start(c)
  PROVE  Knows(c)'
<1> SUFFICES ASSUME NEW kind \in Rpcs, NEW sz \in Sizes,
                    NEW v \in VolumeIds \cup {NoVolume}, Begin(c, kind, sz, v), History
             PROVE  Knows(c)'
  BY DEF Start
<1>1. /\ ~InProgress(c) /\ pc'[c] = FirstRequest(kind) /\ rpc'[c] = kind
      /\ reply'[c] = "none" /\ target'[c] = v
  BY DEF Begin, TypeOK
<1>2. CASE kind = "create"
  <2>1. pc'[c] = "CheckVolumeExists"
    BY <1>1, <1>2 DEF FirstRequest
  <2>2. "made" \notin witness'[c]
    BY <1>1, <2>1 DEF History, Facts
  <2>3. QED BY <1>1, <1>2, <2>1, <2>2 DEF Knows, Answered
<1>3. CASE kind = "delete" \/ kind = "expand"
  <2>1. pc'[c] = IF kind = "delete" THEN "Delete" ELSE "ExpandGetVolume"
    BY <1>1, <1>3 DEF FirstRequest
  <2>2. Named(c)'
    BY <1>1, <1>3 DEF Begin, Named, cloud
  <2>3. QED BY <1>1, <1>3, <2>1, <2>2 DEF Knows, Answered
<1>4. QED BY <1>2, <1>3, RpcsAssumption

\* What a step of one call leaves alone.
LEMMA OthersUnmoved ==
  ASSUME TypeOK, NEW c \in Calls, Start(c) \/ Handle(c)
  PROVE  StaysBorn /\ \A d \in Calls \ {c} : Unmoved(d) /\ JobFollows(d)
<1> USE DEF TypeOK, StaysBorn, Unmoved, JobFollows
<1>1. CASE Start(c)
  BY <1>1 DEF Start, Begin, cloud
<1>2. CASE CheckVolumeExists(c) \/ CheckSnapshotExists(c)
  BY <1>2 DEF CheckVolumeExists, CheckSnapshotExists, Goto, Return, cloud, request
<1>3. CASE Create(c)
  BY <1>3 DEF Create, AcceptCreate, Goto, Return, cloud, request
<1>4. CASE WaitCreated(c) \/ WaitCinder(c) \/ GetCreated(c)
  BY <1>4 DEF WaitCreated, WaitCinder, GetCreated, PollJob, NotYet, Goto, Return,
              cloud, request
<1>5. CASE Delete(c)
  BY <1>5 DEF Delete, AcceptDelete, Return, cloud, request
<1>6. CASE ExpandGetVolume(c) \/ WaitExpanded(c)
  BY <1>6 DEF ExpandGetVolume, WaitExpanded, PollJob, NotYet, Goto, Return, cloud, request
<1>7. CASE Expand(c)
  BY <1>7 DEF Expand, AcceptExtend, Return, cloud, request
<1>8. QED BY <1>1, <1>2, <1>3, <1>4, <1>5, <1>6, <1>7
             DEF Handle, CreateVolume, ControllerExpandVolume

\* What a step of the cloud leaves alone.
LEMMA CloudUnmoved ==
  ASSUME TypeOK, NEW v \in VolumeIds, CloudEnds(v)
  PROVE  StaysBorn /\ \A d \in Calls : Unmoved(d) /\ JobFollows(d)
<1> USE DEF TypeOK, StaysBorn, Unmoved, JobFollows, calls, EndJob
<1>1. CASE ListVolume(v) \/ DeleteEnds(v)
  BY <1>1 DEF ListVolume, DeleteEnds
<1>2. CASE CreateSucceeds(v) \/ CreateFails(v)
  BY <1>2 DEF CreateSucceeds, CreateFails
<1>3. CASE ExtendSucceeds(v)
  BY <1>3 DEF ExtendSucceeds
<1>4. CASE ExtendFails(v)
  BY <1>4 DEF ExtendFails
<1>5. QED BY <1>1, <1>2, <1>3, <1>4 DEF CloudEnds

\* A crash ends the calls in progress and leaves the answers of the others.
LEMMA CrashKnows ==
  ASSUME TypeOK, TypeOK', NEW d \in Calls, Knows(d), Crash, History
  PROVE  Knows(d)'
<1>1. CASE InProgress(d)
  BY <1>1, ErrorKnows DEF Crash
<1>2. CASE ~InProgress(d)
  <2>1. Unmoved(d) /\ StaysBorn /\ JobFollows(d)
    BY <1>2 DEF Crash, Unmoved, StaysBorn, JobFollows, TypeOK, cloud, request
  <2>2. QED BY <2>1, UnmovedKnows
<1>3. QED BY <1>1, <1>2

\* Knows is an invariant, for every call.
LEMMA CallsKnow == Spec => [](\A c \in Calls : Knows(c))
<1> DEFINE Inv == \A c \in Calls : Knows(c)
<1>1. Init => Inv
  BY DEF Init, Knows, Answered
<1>2. TypeOK /\ TypeOK' /\ Inv /\ [Next]_vars => Inv'
  <2> SUFFICES ASSUME TypeOK, TypeOK', Inv, [Next]_vars PROVE Inv'
    OBVIOUS
  <2>1. ASSUME NEW c \in Calls, Start(c) \/ Handle(c) PROVE Inv'
    <3>1. ASSUME NEW d \in Calls \ {c} PROVE Knows(d)'
      BY <2>1, OthersUnmoved, UnmovedKnows DEF Start, Handle
    <3>2. Knows(c)'
      BY <2>1, StartKnows, CheckKnows, CheckSnapshotKnows, CreateKnows, WaitCreatedKnows,
         GetCreatedKnows, DeleteKnows, ExpandKnows DEF Handle, CreateVolume
    <3>3. QED BY <3>1, <3>2
  <2>2. ASSUME NEW v \in VolumeIds, CloudEnds(v) PROVE Inv'
    BY <2>2, CloudUnmoved, UnmovedKnows DEF CloudEnds
  <2>3. CASE Crash /\ History
    BY <2>3, CrashKnows
  <2>4. CASE UNCHANGED vars
    BY <2>4 DEF vars, Knows, Answered, Named
  <2>5. QED BY <2>1, <2>2, <2>3, <2>4 DEF Next
<1>3. QED BY <1>1, <1>2, TypeCorrect, PTL DEF Spec

\* A create call that answers OK returns a volume that had the size asked for
\* during the call; one it made itself had become available.
THEOREM CreationIsHonest == Spec => []CreateIsHonest
<1>1. (\A c \in Calls : Knows(c)) => CreateIsHonest
  BY DEF Knows, CreateIsHonest
<1>2. QED BY <1>1, CallsKnow, PTL

\* A delete call that answers OK found the volume gone or set its deletion off.
THEOREM DeletionIsHonest == Spec => []DeleteIsHonest
<1>1. (\A c \in Calls : Knows(c)) => DeleteIsHonest
  BY DEF Knows, DeleteIsHonest
<1>2. QED BY <1>1, CallsKnow, PTL

\* An expand call that answers OK had a volume as large as it asked for: a job that
\* ends well for it was its own extension, whatever other calls did meanwhile.
THEOREM ExpansionIsHonest == Spec => []ExpandIsHonest
<1>1. (\A c \in Calls : Knows(c)) => ExpandIsHonest
  BY DEF Knows, ExpandIsHonest
<1>2. QED BY <1>1, CallsKnow, PTL
=============================================================================
