-------------------------- MODULE EvsSnapshotProofs --------------------------
(* Theorems about EvsSnapshot: they hold for any number of IDs, volumes and   *)
(* calls, for every poll limit and every set of faults.                       *)
EXTENDS EvsSnapshot, FiniteSetTheorems, TLAPS

USE DEF InProgress, SameName, SameVolume, Ready, NotFound

\* The type of everything but the history variable.
StateTypeOK ==
  /\ volumes \in SUBSET Volumes
  /\ status \in [SnapshotIds -> Status]
  /\ source \in [SnapshotIds -> Volumes]
  /\ rpc \in [Calls -> {"create", "delete"}]
  /\ asked \in [Calls -> Volumes]
  /\ target \in [Calls -> SnapshotIds \cup {NoSnapshot}]
  /\ pc \in [Calls -> {"idle"} \cup Request]
  /\ polls \in [Calls -> 0 .. MaxPolls - 1]
  /\ reply \in [Calls -> {"none", "OK", "ERR"}]

\* Every step of a handler keeps the types.
LEMMA HandlerTyping ==
  ASSUME StateTypeOK, NEW c \in Calls,
         \/ CheckDuplicateSnapshotName(c) \/ GetVolume(c) \/ CreateSnapshot(c)
         \/ WaitSnapshotReady(c) \/ DeleteSnapshot(c)
  PROVE  StateTypeOK'
<1> USE MaxPollsAssumption DEF StateTypeOK, Request
<1>1. CASE CheckDuplicateSnapshotName(c)
  BY <1>1 DEF CheckDuplicateSnapshotName, Listed, Goto, Return, cloud, request
<1>2. CASE GetVolume(c)
  BY <1>2 DEF GetVolume, Goto, Return, cloud, request
<1>3. CASE CreateSnapshot(c)
  BY <1>3 DEF CreateSnapshot, AcceptCreate, Status, Goto, Return, cloud, request
<1>4. CASE WaitSnapshotReady(c)
  BY <1>4 DEF WaitSnapshotReady, NotYet, Return, cloud, request
<1>5. CASE DeleteSnapshot(c)
  BY <1>5 DEF DeleteSnapshot, AcceptDelete, Status, Return, cloud, request
<1>6. QED BY <1>1, <1>2, <1>3, <1>4, <1>5

\* A new call of the CO keeps the types.
LEMMA BeginTyping ==
  ASSUME StateTypeOK, NEW c \in Calls,
         \/ \E v \in Volumes : BeginCreate(c, v)
         \/ \E s \in SnapshotIds : BeginDelete(c, s)
  PROVE  StateTypeOK'
BY MaxPollsAssumption DEF StateTypeOK, Request, BeginCreate, BeginDelete, Enter, cloud

\* Every step of the cloud, and a crash of the driver, keeps the types.
LEMMA CloudTyping ==
  ASSUME StateTypeOK,
         \/ \E s \in SnapshotIds : CreateEnds(s) \/ DeleteEnds(s)
         \/ \E v \in Volumes : VolumeGone(v)
         \/ Crash
  PROVE  StateTypeOK'
<1> USE DEF StateTypeOK, calls
<1>1. ASSUME NEW s \in SnapshotIds, CreateEnds(s) \/ DeleteEnds(s) PROVE StateTypeOK'
  <2>1. \E st \in Status : status' = [status EXCEPT ![s] = st]
    BY <1>1 DEF CreateEnds, DeleteEnds, Status
  <2>2. QED BY <1>1, <2>1 DEF CreateEnds, DeleteEnds
<1>2. CASE \E v \in Volumes : VolumeGone(v)
  BY <1>2 DEF VolumeGone
<1>3. CASE Crash
  BY <1>3 DEF Crash, CrashCalls, cloud, request
<1>4. QED BY <1>1, <1>2, <1>3

\* Every variable stays in its range.
THEOREM TypeCorrect == Spec => []TypeOK
<1>1. Init => TypeOK
  BY MaxPollsAssumption DEF Init, TypeOK, Status
<1>2. TypeOK /\ [Next]_vars => TypeOK'
  <2> SUFFICES ASSUME TypeOK, [Next]_vars PROVE TypeOK'
    OBVIOUS
  <2>1. StateTypeOK
    BY DEF TypeOK, StateTypeOK
  <2>2. ASSUME StateTypeOK', History PROVE TypeOK'
    <3>1. witness' \in [Calls -> SUBSET Fact]
      BY <2>2 DEF TypeOK, History, Facts
    <3>2. QED BY <2>2, <3>1 DEF TypeOK, StateTypeOK
  <2>3. ASSUME NEW c \in Calls, Start(c) PROVE TypeOK'
    BY <2>1, <2>2, <2>3, BeginTyping DEF Start
  <2>4. ASSUME NEW c \in Calls, Handle(c) PROVE TypeOK'
    BY <2>1, <2>2, <2>4, HandlerTyping DEF Handle
  <2>5. CASE Environment
    BY <2>1, <2>2, <2>5, CloudTyping DEF Environment
  <2>6. CASE UNCHANGED vars
    BY <2>6 DEF TypeOK, vars
  <2>7. QED BY <2>3, <2>4, <2>5, <2>6 DEF Next
<1>3. QED BY <1>1, <1>2, PTL DEF Spec

----------------------------------------------------------------------------
(* What a successful answer says.                                          *)

Named(c) == target[c] \in SnapshotIds /\ status[target[c]] # "unborn"

\* What the next request of a call, or its answer, tells of its snapshot: the
\* three properties about answers, carried back to the requests before them.
Knows(c) ==
  /\ InProgress(c) => reply[c] = "none"
  /\ pc[c] \in {"CheckDuplicateSnapshotName", "GetVolume", "CreateSnapshot"} =>
       rpc[c] = "create" /\ "made" \notin witness[c]
  /\ pc[c] = "WaitSnapshotReady" =>
       rpc[c] = "create" /\ Named(c) /\ "source" \in witness[c]
  /\ pc[c] = "DeleteSnapshot" => rpc[c] = "delete" /\ Named(c)
  /\ Answered(c, "create") =>
       "source" \in witness[c] /\ ("made" \in witness[c] => "ready" \in witness[c])
  /\ Answered(c, "delete") => "doomed" \in witness[c]

\* Snapshots that were born stay born, and the fields of call d are not touched.
StaysBorn == \A s \in SnapshotIds : status[s] # "unborn" => status'[s] # "unborn"
Unmoved(d) == UNCHANGED <<pc[d], rpc[d], asked[d], target[d], reply[d]>>

\* A call that takes no step keeps what it knows: what was true during the call
\* stays remembered.
LEMMA UnmovedKnows ==
  ASSUME TypeOK, NEW d \in Calls, Knows(d), History, StaysBorn, Unmoved(d)
  PROVE  Knows(d)'
<1>1. CASE InProgress(d)
  <2>1. witness'[d] = witness[d] \cup Facts(d)'
    BY <1>1 DEF History, Knows, Unmoved
  <2>2. pc[d] # "WaitSnapshotReady" => "made" \notin Facts(d)'
    BY DEF Facts, Unmoved
  <2>3. Named(d) => Named(d)'
    BY DEF Named, Unmoved, StaysBorn
  <2>4. QED BY <1>1, <2>1, <2>2, <2>3 DEF Knows, Unmoved, Answered
<1>2. CASE ~InProgress(d)
  <2>1. reply[d] = "OK" => witness'[d] = witness[d]
    BY <1>2 DEF History, Unmoved
  <2>2. QED BY <1>2, <2>1 DEF Knows, Unmoved, Answered
<1>3. QED BY <1>1, <1>2

\* A call that ends with an error claims nothing.
LEMMA ErrorKnows ==
  ASSUME TypeOK, NEW c \in Calls, pc'[c] = "idle", reply'[c] = "ERR"
  PROVE  Knows(c)'
BY DEF Knows, Answered

\* Listing the snapshots of the name: an answer names one of the volume asked for.
LEMMA CheckKnows ==
  ASSUME TypeOK, NEW c \in Calls, Knows(c), CheckDuplicateSnapshotName(c), History
  PROVE  Knows(c)'
<1> USE DEF CheckDuplicateSnapshotName
<1>1. InProgress(c) /\ rpc'[c] = "create" /\ "made" \notin witness[c] /\ reply[c] = "none"
  BY DEF Knows, request
<1>2. ASSUME pc' = [pc EXCEPT ![c] = "GetVolume"], UNCHANGED reply PROVE Knows(c)'
  <2>1. "made" \notin witness'[c]
    BY <1>1, <1>2 DEF History, Facts, TypeOK
  <2>2. QED BY <1>1, <1>2, <2>1 DEF Knows, Answered, TypeOK
<1>3. ASSUME NEW s \in Listed, source[s] = asked[c],
             target' = [target EXCEPT ![c] = s], Return(c, "OK")
      PROVE  Knows(c)'
  <2>1. target'[c] = s /\ pc'[c] = "idle" /\ reply'[c] = "OK"
    BY <1>3 DEF Return, TypeOK
  <2>2. "source" \in Facts(c)' /\ "made" \notin Facts(c)'
    BY <1>3, <2>1, SnapshotIdsAssumption DEF Facts, Fact, Listed, cloud, request
  <2>3. witness'[c] = witness[c] \cup Facts(c)'
    BY <1>1, <2>1 DEF History
  <2>4. QED BY <1>1, <2>1, <2>2, <2>3 DEF Knows, Answered
<1>4. CASE Return(c, "ERR")
  BY <1>4, ErrorKnows DEF Return, TypeOK
<1>5. QED BY <1>2, <1>3, <1>4 DEF Goto

\* Reading the volume tells nothing of a snapshot.
LEMMA GetVolumeKnows ==
  ASSUME TypeOK, NEW c \in Calls, Knows(c), GetVolume(c), History
  PROVE  Knows(c)'
<1> USE DEF GetVolume
<1>1. InProgress(c) /\ rpc'[c] = "create" /\ "made" \notin witness[c] /\ reply[c] = "none"
  BY DEF Knows, request
<1>2. CASE Goto(c, "CreateSnapshot")
  <2>1. "made" \notin witness'[c]
    BY <1>1, <1>2 DEF History, Facts, TypeOK, Goto
  <2>2. QED BY <1>1, <1>2, <2>1 DEF Knows, Answered, TypeOK, Goto
<1>3. CASE Return(c, "ERR")
  BY <1>3, ErrorKnows DEF Return, TypeOK
<1>4. QED BY <1>2, <1>3

\* A snapshot just made is one of the volume asked for.
LEMMA CreateKnows ==
  ASSUME TypeOK, NEW c \in Calls, Knows(c), CreateSnapshot(c), History
  PROVE  Knows(c)'
<1> USE DEF CreateSnapshot
<1>1. InProgress(c) /\ rpc'[c] = "create" /\ reply[c] = "none"
  BY DEF Knows, request
<1>2. ASSUME NEW s \in SnapshotIds, AcceptCreate(s, asked[c]),
             target' = [target EXCEPT ![c] = s], Goto(c, "WaitSnapshotReady")
      PROVE  Knows(c)'
  <2>1. target'[c] = s /\ pc'[c] = "WaitSnapshotReady" /\ reply'[c] = "none"
    BY <1>1, <1>2 DEF Goto, TypeOK
  <2>2. status'[s] = "creating" /\ source'[s] = asked'[c]
    BY <1>2 DEF AcceptCreate, TypeOK, request
  <2>3. "source" \in Facts(c)'
    BY <2>1, <2>2, SnapshotIdsAssumption DEF Facts, Fact, Listed
  <2>4. "source" \in witness'[c]
    BY <1>1, <2>1, <2>3 DEF History
  <2>5. QED BY <1>1, <2>1, <2>2, <2>4 DEF Knows, Named, Answered
<1>3. CASE Return(c, "ERR")
  BY <1>3, ErrorKnows DEF Return, TypeOK
<1>4. QED BY <1>2, <1>3

\* The wait ends well only when the snapshot is available.
LEMMA WaitKnows ==
  ASSUME TypeOK, NEW c \in Calls, Knows(c), WaitSnapshotReady(c), History
  PROVE  Knows(c)'
<1> USE DEF WaitSnapshotReady
<1>1. /\ InProgress(c) /\ rpc[c] = "create" /\ Named(c)
      /\ "source" \in witness[c] /\ reply[c] = "none"
  BY DEF Knows
<1>2. CASE status[target[c]] = "available" /\ Return(c, "OK")
  <2>1. pc'[c] = "idle" /\ reply'[c] = "OK" /\ rpc'[c] = "create"
    BY <1>1, <1>2 DEF Return, TypeOK, request
  <2>2. "ready" \in Facts(c)'
    BY <1>1, <1>2, SnapshotIdsAssumption DEF Facts, Fact, Named, cloud
  <2>3. witness'[c] = witness[c] \cup Facts(c)'
    BY <1>1, <2>1 DEF History
  <2>4. QED BY <1>1, <2>1, <2>2, <2>3 DEF Knows, Answered
<1>3. CASE UNCHANGED <<pc, reply>>
  <2>1. Unmoved(c) /\ StaysBorn
    BY <1>3 DEF Unmoved, StaysBorn, cloud, request
  <2>2. QED BY <2>1, UnmovedKnows
<1>4. CASE Return(c, "ERR")
  BY <1>4, ErrorKnows DEF Return, TypeOK
<1>5. QED BY <1>2, <1>3, <1>4 DEF NotYet

\* A delete call answers OK when the cloud took it on, or no longer knows the ID.
LEMMA DeleteKnows ==
  ASSUME TypeOK, NEW c \in Calls, Knows(c), DeleteSnapshot(c), History
  PROVE  Knows(c)'
<1> USE DEF DeleteSnapshot
<1>1. InProgress(c) /\ rpc'[c] = "delete" /\ Named(c) /\ reply[c] = "none"
  BY DEF Knows, request
<1>2. ASSUME status'[target[c]] \in {"deleting", "gone"}, Return(c, "OK")
      PROVE  Knows(c)'
  <2>1. pc'[c] = "idle" /\ reply'[c] = "OK" /\ target' = target
    BY <1>2 DEF Return, TypeOK
  <2>2. "doomed" \in Facts(c)'
    BY <1>1, <1>2, <2>1, SnapshotIdsAssumption DEF Facts, Fact, Named
  <2>3. "doomed" \in witness'[c]
    BY <1>1, <2>1, <2>2 DEF History
  <2>4. QED BY <1>1, <2>1, <2>3 DEF Knows, Answered
<1>3. CASE Return(c, "ERR")
  BY <1>3, ErrorKnows DEF Return, TypeOK
<1>4. AcceptDelete(target[c]) => status'[target[c]] = "deleting"
  BY <1>1 DEF AcceptDelete, TypeOK, Named
<1>5. target[c] \notin Listed /\ UNCHANGED cloud => status'[target[c]] \in {"deleting", "gone"}
  BY <1>1 DEF Listed, Named, cloud
<1>6. QED BY <1>2, <1>3, <1>4, <1>5

\* A new call knows nothing yet.
LEMMA StartKnows ==
  ASSUME TypeOK, NEW c \in Calls, Start(c)
  PROVE  Knows(c)'
<1>1. ASSUME NEW v \in Volumes, BeginCreate(c, v), History PROVE Knows(c)'
  <2>1. /\ ~InProgress(c) /\ pc'[c] = "CheckDuplicateSnapshotName"
        /\ reply'[c] = "none" /\ rpc'[c] = "create"
    BY <1>1 DEF BeginCreate, Enter, TypeOK
  <2>2. "made" \notin witness'[c]
    BY <1>1, <2>1 DEF History, Facts
  <2>3. QED BY <2>1, <2>2 DEF Knows, Answered
<1>2. ASSUME NEW s \in SnapshotIds, BeginDelete(c, s) PROVE Knows(c)'
  <2>1. /\ pc'[c] = "DeleteSnapshot" /\ reply'[c] = "none" /\ rpc'[c] = "delete"
        /\ target'[c] = s /\ status'[s] # "unborn"
    BY <1>2 DEF BeginDelete, Enter, TypeOK, cloud
  <2>2. QED BY <2>1 DEF Knows, Named, Answered
<1>3. QED BY <1>1, <1>2 DEF Start

\* What a step of one call or of the cloud leaves alone.
LEMMA OthersUnmoved ==
  ASSUME TypeOK, NEW c \in Calls, Start(c) \/ Handle(c)
  PROVE  StaysBorn /\ \A d \in Calls \ {c} : Unmoved(d)
<1> USE DEF TypeOK, StaysBorn, Unmoved
<1>1. CASE Start(c)
  BY <1>1 DEF Start, BeginCreate, BeginDelete, Enter, cloud
<1>2. CASE CheckDuplicateSnapshotName(c) \/ GetVolume(c)
  BY <1>2 DEF CheckDuplicateSnapshotName, GetVolume, Goto, Return, cloud, request
<1>3. CASE CreateSnapshot(c)
  BY <1>3 DEF CreateSnapshot, AcceptCreate, Goto, Return, cloud, request
<1>4. CASE WaitSnapshotReady(c)
  BY <1>4 DEF WaitSnapshotReady, NotYet, Return, cloud, request
<1>5. CASE DeleteSnapshot(c)
  BY <1>5 DEF DeleteSnapshot, AcceptDelete, Return, cloud, request
<1>6. QED BY <1>1, <1>2, <1>3, <1>4, <1>5 DEF Handle

LEMMA CloudKnows ==
  ASSUME TypeOK, \A d \in Calls : Knows(d), Environment
  PROVE  \A d \in Calls : Knows(d)'
<1> SUFFICES ASSUME NEW d \in Calls PROVE Knows(d)'
  OBVIOUS
<1>1. CASE Crash
  <2>1. CASE InProgress(d)
    BY <1>1, <2>1, ErrorKnows DEF Crash, CrashCalls
  <2>2. CASE ~InProgress(d)
    <3>1. Unmoved(d) /\ StaysBorn
      BY <1>1, <2>2 DEF Crash, CrashCalls, Unmoved, StaysBorn, TypeOK, cloud, request
    <3>2. QED BY <3>1, UnmovedKnows DEF Environment
  <2>3. QED BY <2>1, <2>2
<1>2. CASE \/ \E s \in SnapshotIds : CreateEnds(s) \/ DeleteEnds(s)
           \/ \E v \in Volumes : VolumeGone(v)
  <2>1. Unmoved(d) /\ StaysBorn
    BY <1>2 DEF CreateEnds, DeleteEnds, VolumeGone, Unmoved, StaysBorn, TypeOK, calls
  <2>2. QED BY <2>1, UnmovedKnows DEF Environment
<1>3. QED BY <1>1, <1>2 DEF Environment

\* Knows is an invariant, for every call.
LEMMA CallsKnow == Spec => [](\A c \in Calls : Knows(c))
<1> DEFINE Inv == \A c \in Calls : Knows(c)
<1>1. Init => Inv
  BY DEF Init, Knows, Answered
<1>2. TypeOK /\ Inv /\ [Next]_vars => Inv'
  <2> SUFFICES ASSUME TypeOK, Inv, [Next]_vars PROVE Inv'
    OBVIOUS
  <2>1. ASSUME NEW c \in Calls, Start(c) \/ Handle(c) PROVE Inv'
    <3>1. ASSUME NEW d \in Calls \ {c} PROVE Knows(d)'
      BY <2>1, OthersUnmoved, UnmovedKnows DEF Start, Handle
    <3>2. Knows(c)'
      BY <2>1, StartKnows, CheckKnows, GetVolumeKnows, CreateKnows, WaitKnows, DeleteKnows
         DEF Handle
    <3>3. QED BY <3>1, <3>2
  <2>2. CASE Environment
    BY <2>2, CloudKnows
  <2>3. CASE UNCHANGED vars
    BY <2>3 DEF vars, Knows, Answered, Named
  <2>4. QED BY <2>1, <2>2, <2>3 DEF Next
<1>3. QED BY <1>1, <1>2, TypeCorrect, PTL DEF Spec

\* A create call that answers OK names a snapshot of the very volume asked for,
\* which existed during the call, however many calls race for the name.
THEOREM CreateIsHonest == Spec => []CreateNamesItsVolume
<1>1. (\A c \in Calls : Knows(c)) => CreateNamesItsVolume
  BY DEF Knows, CreateNamesItsVolume
<1>2. QED BY <1>1, CallsKnow, PTL

\* A snapshot a call made itself was available during the call that says so.
THEOREM ReadyIsHonest == Spec => []OwnSnapshotWasReady
<1>1. (\A c \in Calls : Knows(c)) => OwnSnapshotWasReady
  BY DEF Knows, OwnSnapshotWasReady
<1>2. QED BY <1>1, CallsKnow, PTL

\* A delete call that answers OK found the snapshot gone or set its deletion off.
THEOREM DeletionIsHonest == Spec => []DeleteIsHonest
<1>1. (\A c \in Calls : Knows(c)) => DeleteIsHonest
  BY DEF Knows, DeleteIsHonest
<1>2. QED BY <1>1, CallsKnow, PTL

----------------------------------------------------------------------------
(* The number of snapshots of one name.                                    *)

\* Sets of snapshots and of calls can be counted, and a part has no more
\* elements than the whole.
LEMMA Counting ==
  /\ Cardinality(Calls) \in Nat
  /\ \A S \in SUBSET SnapshotIds : IsFiniteSet(S) /\ Cardinality(S) \in Nat
  /\ \A S \in SUBSET Calls :
       IsFiniteSet(S) /\ Cardinality(S) \in Nat /\ Cardinality(S) <= Cardinality(Calls)
<1>1. \A S \in SUBSET SnapshotIds : IsFiniteSet(S)
  BY FS_Subset, SnapshotIdsAssumption
<1>2. \A S \in SUBSET Calls : IsFiniteSet(S) /\ Cardinality(S) <= Cardinality(Calls)
  BY FS_Subset, CallsAssumption
<1>3. QED BY <1>1, <1>2, FS_CardinalityType, CallsAssumption

\* A step that adds neither a snapshot nor a committed call keeps the bound.
LEMMA NothingAdded ==
  ASSUME DuplicatesBounded, Listed' \subseteq Listed, Committed' \subseteq Committed
  PROVE  DuplicatesBounded'
<1>1. Listed \in SUBSET SnapshotIds /\ Committed \in SUBSET Calls
  BY DEF Listed, Committed
<1>2. Cardinality(Listed') <= Cardinality(Listed)
  BY <1>1, Counting, FS_Subset
<1>3. Cardinality(Committed') <= Cardinality(Committed)
  BY <1>1, Counting, FS_Subset
<1>4. Listed' \in SUBSET SnapshotIds /\ Committed' \in SUBSET Calls
  BY <1>1
<1>5. QED BY <1>1, <1>2, <1>3, <1>4, Counting DEF DuplicatesBounded

\* A call commits itself only when it saw no snapshot: there is room for all calls.
LEMMA CheckKeepsBound ==
  ASSUME TypeOK, DuplicatesBounded, NEW c \in Calls, CheckDuplicateSnapshotName(c)
  PROVE  DuplicatesBounded'
<1>1. Listed' = Listed
  BY DEF CheckDuplicateSnapshotName, cloud, Listed
<1>2. CASE Listed = {}
  <2>1. Cardinality(Listed') = 0
    BY <1>1, <1>2, FS_EmptySet
  <2>2. Committed' \in SUBSET Calls
    BY DEF Committed
  <2>3. QED BY <2>1, <2>2, Counting DEF DuplicatesBounded
<1>3. CASE Listed # {}
  <2>1. \E r \in {"OK", "ERR"} : Return(c, r)
    BY <1>3 DEF CheckDuplicateSnapshotName
  <2>2. Committed' \subseteq Committed
    BY <2>1 DEF Return, Committed, TypeOK
  <2>3. QED BY <1>1, <2>2, NothingAdded
<1>4. QED BY <1>2, <1>3

\* Making a snapshot spends a commitment.
LEMMA CreateKeepsBound ==
  ASSUME TypeOK, DuplicatesBounded, NEW c \in Calls, CreateSnapshot(c)
  PROVE  DuplicatesBounded'
<1>1. c \in Committed /\ Committed' = Committed \ {c}
  BY DEF CreateSnapshot, Goto, Return, Committed, TypeOK
<1>2. Listed \in SUBSET SnapshotIds /\ Committed \in SUBSET Calls /\ Committed' \in SUBSET Calls
  BY <1>1 DEF Listed, Committed
<1>3. Cardinality(Committed') = Cardinality(Committed) - 1
  BY <1>1, <1>2, Counting, FS_RemoveElement
<1>4. ASSUME NEW s \in SnapshotIds, AcceptCreate(s, asked[c])
      PROVE  DuplicatesBounded'
  <2>1. Listed' = Listed \cup {s} /\ s \notin Listed
    BY <1>4 DEF AcceptCreate, Listed, TypeOK
  <2>2. Cardinality(Listed') = Cardinality(Listed) + 1
    BY <1>2, <2>1, Counting, FS_AddElement
  <2>3. QED BY <1>2, <1>3, <2>2, Counting DEF DuplicatesBounded
<1>5. CASE UNCHANGED cloud
  <2>1. Listed' = Listed
    BY <1>5 DEF cloud, Listed
  <2>2. QED BY <1>1, <2>1, NothingAdded
<1>6. QED BY <1>4, <1>5 DEF CreateSnapshot

\* However often the CO retries and whatever fails, the race between listing and
\* creating never makes more snapshots of one name than there are calls that can
\* run at the same time.
THEOREM RaceIsBounded == Spec => []DuplicatesBounded
<1>1. Init => DuplicatesBounded
  <2> SUFFICES ASSUME Init PROVE DuplicatesBounded
    OBVIOUS
  <2>1. Listed = {} /\ Committed = {}
    BY DEF Init, Listed, Committed
  <2>2. QED BY <2>1, FS_EmptySet, Counting DEF DuplicatesBounded
<1>2. TypeOK /\ DuplicatesBounded /\ [Next]_vars => DuplicatesBounded'
  <2> SUFFICES ASSUME TypeOK, DuplicatesBounded, [Next]_vars PROVE DuplicatesBounded'
    OBVIOUS
  <2>1. ASSUME NEW c \in Calls,
               Start(c) \/ GetVolume(c) \/ WaitSnapshotReady(c) \/ DeleteSnapshot(c)
        PROVE  DuplicatesBounded'
    <3>1. Listed' \subseteq Listed
      BY <2>1 DEF Start, BeginCreate, BeginDelete, GetVolume, WaitSnapshotReady,
                  DeleteSnapshot, AcceptDelete, cloud, Listed, TypeOK
    <3>2. Committed' \subseteq Committed
      BY <2>1 DEF Start, BeginCreate, BeginDelete, Enter, GetVolume, WaitSnapshotReady,
                  NotYet, DeleteSnapshot, Goto, Return, Committed, TypeOK
    <3>3. QED BY <3>1, <3>2, NothingAdded
  <2>2. CASE Environment
    <3>1. Listed' \subseteq Listed /\ Committed' \subseteq Committed
      BY <2>2 DEF Environment, CreateEnds, DeleteEnds, VolumeGone, Crash, CrashCalls,
                  calls, cloud, Listed, Committed, TypeOK
    <3>2. QED BY <3>1, NothingAdded
  <2>3. CASE UNCHANGED vars
    BY <2>3, NothingAdded DEF vars, Listed, Committed
  <2>4. QED BY <2>1, <2>2, <2>3, CheckKeepsBound, CreateKeepsBound DEF Next, Handle
<1>3. QED BY <1>1, <1>2, TypeCorrect, PTL DEF Spec

\* With one call at a time the name is never given to a second snapshot.
THEOREM SerialIsIdempotent ==
  ASSUME Cardinality(Calls) = 1
  PROVE  Spec => [](Cardinality(Listed) <= 1)
<1>1. DuplicatesBounded => Cardinality(Listed) <= 1
  <2>1. Listed \in SUBSET SnapshotIds /\ Committed \in SUBSET Calls
    BY DEF Listed, Committed
  <2>2. QED BY <2>1, Counting DEF DuplicatesBounded
<1>2. QED BY <1>1, RaceIsBounded, PTL
=============================================================================
