---------------------------- MODULE ObsBucketProofs ----------------------------
(* Theorems about ObsBucket: they hold for any number of calls, objects and    *)
(* uploads, all sizes, every size of a page and every set of faults.           *)
EXTENDS ObsBucket, FiniteSetTheorems, TLAPS

USE DEF InProgress, LargeEnough, GoneAlready

Point == {"idle", "Metadata", "Quota", "CreateBucket", "SetQuota", "ListUploads", "Abort",
          "ListObjects", "DeleteObjects", "DeleteBucket", "Reply"}

Tasks == [kind : {"none", "create", "delete", "get", "expand"}, size : Nat, made : BOOLEAN,
          page : SUBSET (ObjectIds \cup UploadIds), capacity : Nat]

\* Every variable but the history stays in its range.
ContentsTypeOK ==
  /\ bucket \in {"none", "fs", "other"} /\ quota \in Nat
  /\ objects \in SUBSET ObjectIds /\ uploads \in SUBSET UploadIds

CallsTypeOK ==
  /\ task \in [Calls -> Tasks]
  /\ pc \in [Calls -> Point]
  /\ reply \in [Calls -> {"none", "OK", "ERR"}]

BucketTypeOK == ContentsTypeOK /\ CallsTypeOK

\* The task of a call that works on nothing is a task.
LEMMA NoTaskTyped == NoTask \in Tasks
BY DEF NoTask, Tasks

\* What leaves the bucket alone keeps the types of its contents.
LEMMA SameContents ==
  ASSUME ContentsTypeOK, UNCHANGED contents
  PROVE  ContentsTypeOK'
BY DEF ContentsTypeOK, contents

\* A call that goes on to its next request keeps the types.
LEMMA GotoTyping ==
  ASSUME CallsTypeOK, NEW c \in Calls, NEW l \in Point, Goto(c, l), task' \in [Calls -> Tasks]
  PROVE  CallsTypeOK'
BY DEF CallsTypeOK, Goto

\* So does one whose task stays the same.
LEMMA OnTyping ==
  ASSUME CallsTypeOK, NEW c \in Calls, NEW l \in Point, On(c, l)
  PROVE  CallsTypeOK'
BY GotoTyping DEF On, CallsTypeOK

\* A call that fails keeps the types.
LEMMA FailTyping ==
  ASSUME CallsTypeOK, NEW c \in Calls, Fail(c)
  PROVE  CallsTypeOK'
BY NoTaskTyped DEF Fail, Return, CallsTypeOK, Point

\* A field of the task of one call is set.
LEMMA TaskTyping ==
  ASSUME CallsTypeOK, NEW c \in Calls
  PROVE  /\ task[c] \in Tasks
         /\ \A p \in SUBSET (ObjectIds \cup UploadIds) : [task EXCEPT ![c].page = p] \in [Calls -> Tasks]
         /\ \A n \in Nat : [task EXCEPT ![c].capacity = n] \in [Calls -> Tasks]
         /\ [task EXCEPT ![c].made = TRUE] \in [Calls -> Tasks]
<1>1. task[c] \in Tasks
  BY DEF CallsTypeOK
<1>2. \A p \in SUBSET (ObjectIds \cup UploadIds) : [task EXCEPT ![c].page = p] \in [Calls -> Tasks]
  BY DEF CallsTypeOK, Tasks
<1>3. \A n \in Nat : [task EXCEPT ![c].capacity = n] \in [Calls -> Tasks]
  BY DEF CallsTypeOK, Tasks
<1>4. [task EXCEPT ![c].made = TRUE] \in [Calls -> Tasks]
  BY DEF CallsTypeOK, Tasks
<1>5. QED BY <1>1, <1>2, <1>3, <1>4

\* A request that is answered, or whose answer is lost.
LEMMA DoneTyping ==
  ASSUME CallsTypeOK, NEW c \in Calls, NEW l \in Point, Done(c, l)
  PROVE  CallsTypeOK'
BY OnTyping, FailTyping DEF Done

\* Every request that leaves the bucket alone keeps the types.
LEMMA ReadTyping ==
  ASSUME BucketTypeOK, NEW c \in Calls,
         Metadata(c) \/ Quota(c) \/ ListUploads(c) \/ ListObjects(c) \/ ReplyBucket(c)
  PROVE  BucketTypeOK'
<1> USE DEF BucketTypeOK
<1>1. UNCHANGED contents
  BY DEF Metadata, Quota, ListUploads, ListObjects, ReplyBucket, NotFound, Found, ApiError, contents
<1> SUFFICES CallsTypeOK'
  BY <1>1, SameContents
<1>2. ASSUME NotFound(c) PROVE CallsTypeOK'
  BY <1>2, OnTyping, FailTyping DEF NotFound, Point
<1>3. ASSUME Found(c, quota) PROVE CallsTypeOK'
  <2>1. task' \in [Calls -> Tasks]
    BY <1>3, TaskTyping DEF Found, ContentsTypeOK
  <2>2. \E l \in Point : Goto(c, l)
    BY <1>3 DEF Found, Point
  <2>3. QED BY <2>1, <2>2, GotoTyping
<1>4. ASSUME NEW S, S \subseteq ObjectIds \/ S \subseteq UploadIds, NEW p \in Page(S),
             NEW l \in Point, Goto(c, l), task' = [task EXCEPT ![c].page = p]
      PROVE  CallsTypeOK'
  <2>1. p \in SUBSET (ObjectIds \cup UploadIds)
    BY <1>4 DEF Page, kSubset
  <2>2. QED BY <1>4, <2>1, TaskTyping, GotoTyping
<1>5. CASE Metadata(c)
  BY <1>2, <1>5, OnTyping, FailTyping DEF Metadata, ApiError, Point
<1>6. CASE Quota(c)
  BY <1>2, <1>3, <1>6, FailTyping DEF Quota, ApiError
<1>7. CASE ListUploads(c)
  BY <1>4, <1>7, FailTyping DEF ListUploads, ContentsTypeOK, Point
<1>8. CASE ListObjects(c)
  BY <1>4, <1>8, OnTyping, FailTyping DEF ListObjects, ContentsTypeOK, Point
<1>9. CASE ReplyBucket(c)
  BY <1>9, NoTaskTyped DEF ReplyBucket, Return, CallsTypeOK, Point
<1>10. QED BY <1>5, <1>6, <1>7, <1>8, <1>9

\* Every request that changes the bucket keeps the types.
LEMMA WriteTyping ==
  ASSUME BucketTypeOK, NEW c \in Calls,
         CreateBucket(c) \/ SetQuota(c) \/ Abort(c) \/ DeleteObjects(c) \/ DeleteBucket(c)
  PROVE  BucketTypeOK'
<1> USE DEF BucketTypeOK
<1>1. CASE ApiError(c) \/ (Fail(c) /\ UNCHANGED contents)
  BY <1>1, FailTyping, SameContents DEF ApiError
<1>2. CASE CreateBucket(c)
  <2>1. ASSUME bucket' = "fs", UNCHANGED <<quota, objects, uploads>> PROVE ContentsTypeOK'
    BY <2>1 DEF ContentsTypeOK
  <2>2. ASSUME task' = [task EXCEPT ![c].made = TRUE], NEW l \in {"Metadata", "SetQuota"}, Goto(c, l)
        PROVE  CallsTypeOK'
    BY <2>2, TaskTyping, GotoTyping DEF Point
  <2>3. QED BY <1>1, <1>2, <2>1, <2>2, FailTyping DEF CreateBucket
<1>3. CASE SetQuota(c)
  <2>1. task[c].size \in Nat
    BY DEF CallsTypeOK, Tasks
  <2>2. ASSUME quota' = task[c].size, UNCHANGED <<bucket, objects, uploads>> PROVE ContentsTypeOK'
    BY <2>1, <2>2 DEF ContentsTypeOK
  <2>3. ASSUME Goto(c, "Reply"), task' = [task EXCEPT ![c].capacity = task[c].size]
        PROVE  CallsTypeOK'
    BY <2>1, <2>3, TaskTyping, GotoTyping DEF Point
  <2>4. QED BY <1>1, <1>3, <2>2, <2>3, DoneTyping, FailTyping DEF SetQuota, Point
<1>4. CASE Abort(c)
  <2>1. ASSUME NEW u \in task[c].page, uploads' = uploads \ {u}, UNCHANGED <<bucket, quota, objects>>,
               \/ task' = [task EXCEPT ![c].page = @ \ {u}] /\ UNCHANGED <<pc, reply>>
               \/ Fail(c)
        PROVE  BucketTypeOK'
    <3>1. ContentsTypeOK'
      BY <2>1 DEF ContentsTypeOK
    <3>2. task[c].page \ {u} \in SUBSET (ObjectIds \cup UploadIds)
      BY DEF CallsTypeOK, Tasks
    <3>3. task' = [task EXCEPT ![c].page = @ \ {u}] => task' \in [Calls -> Tasks]
      BY <3>2 DEF CallsTypeOK, Tasks
    <3>4. QED BY <2>1, <3>1, <3>3, FailTyping DEF CallsTypeOK
  <2>2. CASE On(c, "ListObjects") /\ UNCHANGED contents
    BY <2>2, OnTyping, SameContents DEF Point
  <2>3. QED BY <1>1, <1>4, <2>1, <2>2 DEF Abort
<1>5. CASE DeleteObjects(c)
  <2>1. ContentsTypeOK'
    BY <1>5 DEF DeleteObjects, ContentsTypeOK
  <2>2. task' = [task EXCEPT ![c].page = {}] => task' \in [Calls -> Tasks]
    BY DEF CallsTypeOK, Tasks
  <2>3. QED BY <1>5, <2>1, <2>2, GotoTyping, FailTyping DEF DeleteObjects, Point
<1>6. CASE DeleteBucket(c)
  <2>1. ContentsTypeOK'
    BY <1>6 DEF DeleteBucket, ContentsTypeOK
  <2>2. QED BY <1>6, <2>1, OnTyping, DoneTyping, FailTyping DEF DeleteBucket, Point
<1>7. QED BY <1>2, <1>3, <1>4, <1>5, <1>6

\* Every step keeps the types.
LEMMA Typing ==
  ASSUME BucketTypeOK, BucketNext
  PROVE  BucketTypeOK'
<1> USE DEF BucketTypeOK
<1>1. ASSUME NEW c \in Calls, BucketStart(c) PROVE BucketTypeOK'
  <2>1. ASSUME NEW k \in {"create", "delete", "get", "expand"}, NEW n \in Nat,
               BeginBucketCall(c, k, n)
        PROVE  BucketTypeOK'
    <3>1. [NoTask EXCEPT !.kind = k, !.size = n] \in Tasks
      BY DEF NoTask, Tasks
    <3>2. CallsTypeOK'
      BY <2>1, <3>1 DEF BeginBucketCall, Enter, CallsTypeOK, Point
    <3>3. QED BY <2>1, <3>2, SameContents DEF BeginBucketCall
  <2>2. QED BY <1>1, <2>1, AskedBytesAssumption DEF BucketStart
<1>2. ASSUME NEW c \in Calls, BucketHandle(c) PROVE BucketTypeOK'
  BY <1>2, ReadTyping, WriteTyping
     DEF BucketHandle, CreateVolume, DeleteVolume, ControllerGetVolume, ControllerExpandVolume, GetVolume
<1>3. CASE Pods
  BY <1>3 DEF Pods, Write, StartUpload, EndUpload, ContentsTypeOK, CallsTypeOK
<1>4. CASE CrashBuckets
  BY <1>4, NoTaskTyped, SameContents DEF CrashBuckets, CrashCalls, CallsTypeOK, Point
<1>5. QED BY <1>1, <1>2, <1>3, <1>4 DEF BucketNext

----------------------------------------------------------------------------
(* What a successful answer says.                                          *)

Kind(c, K) == task[c].kind \in K

\* What the next request of a call may conclude: of which kind the call is, and
\* that a call which made the bucket saw it with the quota asked for before it
\* looks at it again.  A bucket that is no parallel file system is never touched.
Knows(c) ==
  /\ pc[c] = "idle" => saw[c] = {}
  /\ pc[c] = "CreateBucket" => Kind(c, {"create"}) /\ ~task[c].made
  /\ pc[c] = "SetQuota" => Kind(c, {"create", "expand"})
  /\ pc[c] \in {"ListUploads", "Abort", "ListObjects", "DeleteObjects", "DeleteBucket"} =>
       Kind(c, {"delete"})
  /\ bucket = "other" => pc[c] \in {"idle", "Metadata"}
  /\ pc[c] \in {"Metadata", "Quota"} /\ task[c].made => Kind(c, {"create"}) /\ "large" \in saw[c]
  /\ pc[c] = "Reply" =>
       CASE task[c].kind = "delete" -> "gone" \in saw[c]
         [] task[c].kind = "expand" -> "large" \in saw[c]
         [] OTHER -> "there" \in saw[c] /\ (task[c].made => "large" \in saw[c])

\* What is true of the bucket during a call in progress is remembered.
LEMMA Remembered ==
  ASSUME BucketHistory, NEW c \in Calls, pc'[c] # "idle"
  PROVE  /\ saw[c] \subseteq saw'[c]
         /\ bucket' = "fs" => "there" \in saw'[c]
         /\ bucket' = "none" => "gone" \in saw'[c]
         /\ bucket' = "fs" /\ quota' >= task'[c].size => "large" \in saw'[c]
<1>1. saw'[c] = saw[c] \cup BucketFacts(c)'
  BY DEF BucketHistory
<1>2. /\ bucket' = "fs" => "there" \in BucketFacts(c)'
      /\ bucket' = "none" => "gone" \in BucketFacts(c)'
      /\ bucket' = "fs" /\ quota' >= task'[c].size => "large" \in BucketFacts(c)'
  BY DEF BucketFacts
<1>3. QED BY <1>1, <1>2

\* A call that ends claims nothing and forgets what it saw.
LEMMA IdleKnows ==
  ASSUME NEW c \in Calls, pc'[c] = "idle", BucketHistory
  PROVE  Knows(c)'
<1>1. saw'[c] = {}
  BY DEF BucketHistory
<1>2. QED BY <1>1 DEF Knows

\* A call that fails claims nothing.
LEMMA FailKnows ==
  ASSUME BucketTypeOK, NEW c \in Calls, Fail(c) \/ ApiError(c), BucketHistory
  PROVE  Knows(c)'
BY IdleKnows DEF Fail, ApiError, Return, BucketTypeOK, CallsTypeOK

\* A bucket of the other sort does not come into being.
NoOther == bucket' = "other" => bucket = "other"

\* A call that takes no step keeps what it knows.
LEMMA UnmovedKnows ==
  ASSUME NEW d \in Calls, Knows(d), BucketHistory, NoOther, UNCHANGED <<pc[d], task[d]>>
  PROVE  Knows(d)'
<1>1. CASE pc[d] = "idle"
  BY <1>1, IdleKnows
<1>2. CASE pc[d] # "idle"
  <2>1. saw[d] \subseteq saw'[d]
    BY <1>2, Remembered
  <2>2. QED BY <1>2, <2>1 DEF Knows, NoOther, Kind
<1>3. QED BY <1>1, <1>2

\* The next request of a call is the one it went on to.
LEMMA GoneTo ==
  ASSUME BucketTypeOK, NEW c \in Calls, NEW l, Goto(c, l)
  PROVE  pc'[c] = l
BY DEF Goto, BucketTypeOK, CallsTypeOK

\* Looking for the bucket: the answer depends on the kind of call.
LEMMA GetKnows ==
  ASSUME BucketTypeOK, NEW c \in Calls, Knows(c), Metadata(c) \/ Quota(c), BucketHistory
  PROVE  Knows(c)'
<1>1. ASSUME NotFound(c), bucket = "none" PROVE Knows(c)'
  <2>1. bucket' = "none"
    BY <1>1 DEF NotFound, contents
  <2>2. CASE task[c].kind = "create" /\ ~task[c].made
    <3>1. pc'[c] = "CreateBucket" /\ task' = task
      BY <1>1, <2>2, GoneTo DEF NotFound, On
    <3>2. QED BY <2>1, <2>2, <3>1 DEF Knows, Kind
  <2>3. CASE task[c].kind = "delete"
    <3>1. pc'[c] = "Reply" /\ task' = task
      BY <1>1, <2>3, GoneTo DEF NotFound, On
    <3>2. "gone" \in saw'[c]
      BY <2>1, <3>1, Remembered
    <3>3. QED BY <2>1, <2>3, <3>1, <3>2 DEF Knows, Kind
  <2>4. CASE ~(task[c].kind = "create" /\ ~task[c].made) /\ task[c].kind # "delete"
    BY <1>1, <2>4, FailKnows DEF NotFound
  <2>5. QED BY <2>2, <2>3, <2>4
<1>2. ASSUME Found(c, quota), bucket = "fs", pc[c] = "Quota" PROVE Knows(c)'
  <2>1. /\ bucket' = "fs" /\ quota' = quota
        /\ task'[c].kind = task[c].kind /\ task'[c].made = task[c].made
        /\ task'[c].size = task[c].size
    BY <1>2 DEF Found, contents, BucketTypeOK, CallsTypeOK, Tasks
  <2>2. CASE task[c].kind = "delete"
    <3>1. pc'[c] = "ListUploads"
      BY <1>2, <2>2, GoneTo DEF Found
    <3>2. QED BY <2>1, <2>2, <3>1 DEF Knows, Kind
  <2>3. CASE task[c].kind = "expand" /\ ~(quota >= task[c].size)
    <3>1. pc'[c] = "SetQuota"
      BY <1>2, <2>3, GoneTo DEF Found
    <3>2. QED BY <2>1, <2>3, <3>1 DEF Knows, Kind
  <2>4. CASE task[c].kind # "delete" /\ ~(task[c].kind = "expand" /\ ~(quota >= task[c].size))
    <3>1. pc'[c] = "Reply"
      BY <1>2, <2>4, GoneTo DEF Found
    <3>2. "there" \in saw'[c] /\ saw[c] \subseteq saw'[c]
      BY <2>1, <3>1, Remembered
    <3>3. task[c].kind = "expand" => "large" \in saw'[c]
      BY <2>1, <2>4, <3>1, Remembered
    <3>4. task[c].made => "large" \in saw'[c]
      BY <1>2, <3>2 DEF Knows
    <3>5. QED BY <2>1, <2>4, <3>1, <3>2, <3>3, <3>4 DEF Knows, Kind
  <2>5. QED BY <2>2, <2>3, <2>4
<1>3. ASSUME On(c, "Quota"), bucket = "fs", UNCHANGED contents, pc[c] = "Metadata" PROVE Knows(c)'
  <2>1. pc'[c] = "Quota" /\ task' = task /\ bucket' = "fs"
    BY <1>3, GoneTo DEF On, contents
  <2>2. saw[c] \subseteq saw'[c]
    BY <2>1, Remembered
  <2>3. QED BY <1>3, <2>1, <2>2 DEF Knows, Kind
<1>4. QED BY <1>1, <1>2, <1>3, FailKnows DEF Metadata, Quota

\* Making the bucket and setting its quota: the call has seen it as large as asked.
LEMMA MakeKnows ==
  ASSUME BucketTypeOK, NEW c \in Calls, Knows(c), CreateBucket(c) \/ SetQuota(c), BucketHistory
  PROVE  Knows(c)'
<1>1. task[c].size \in Nat /\ quota \in Nat
  BY DEF BucketTypeOK, CallsTypeOK, ContentsTypeOK, Tasks
<1>2. CASE CreateBucket(c)
  <2>1. ASSUME bucket' = "fs", UNCHANGED quota, task' = [task EXCEPT ![c].made = TRUE],
               Goto(c, IF task[c].size = 0 THEN "Metadata" ELSE "SetQuota")
        PROVE  Knows(c)'
    <3>1. task'[c].kind = "create" /\ task'[c].size = task[c].size
      BY <1>2, <2>1 DEF CreateBucket, Knows, Kind, BucketTypeOK, CallsTypeOK, Tasks
    <3>2. pc'[c] = IF task[c].size = 0 THEN "Metadata" ELSE "SetQuota"
      BY <2>1, GoneTo
    <3>3. task[c].size = 0 => "large" \in saw'[c]
      BY <1>1, <2>1, <3>1, <3>2, Remembered
    <3>4. QED BY <2>1, <3>1, <3>2, <3>3 DEF Knows, Kind
  <2>2. QED BY <1>2, <2>1, FailKnows DEF CreateBucket
<1>3. CASE SetQuota(c)
  <2>1. bucket # "other"
    BY <1>3 DEF SetQuota, Knows
  <2>2. ASSUME bucket # "none", UNCHANGED bucket, quota' = task[c].size, pc'[c] # "idle",
               task'[c].size = task[c].size
        PROVE  bucket' = "fs" /\ "large" \in saw'[c]
    <3>1. bucket' = "fs"
      BY <2>1, <2>2 DEF BucketTypeOK, ContentsTypeOK
    <3>2. QED BY <1>1, <2>2, <3>1, Remembered
  <2>3. ASSUME bucket # "none", UNCHANGED bucket, quota' = task[c].size,
               task[c].kind = "create", On(c, "Metadata")
        PROVE  Knows(c)'
    <3>1. pc'[c] = "Metadata" /\ task' = task
      BY <2>3, GoneTo DEF On
    <3>2. bucket' = "fs" /\ "large" \in saw'[c]
      BY <2>2, <2>3, <3>1
    <3>3. QED BY <2>3, <3>1, <3>2 DEF Knows, Kind
  <2>4. ASSUME bucket # "none", UNCHANGED bucket, quota' = task[c].size,
               task[c].kind = "expand", Goto(c, "Reply"),
               task' = [task EXCEPT ![c].capacity = task[c].size]
        PROVE  Knows(c)'
    <3>1. task'[c].size = task[c].size /\ task'[c].kind = task[c].kind
      BY <2>4 DEF BucketTypeOK, CallsTypeOK, Tasks
    <3>2. pc'[c] = "Reply"
      BY <2>4, GoneTo
    <3>3. bucket' = "fs" /\ "large" \in saw'[c]
      BY <2>2, <2>4, <3>1, <3>2
    <3>4. QED BY <2>4, <3>1, <3>2, <3>3 DEF Knows, Kind
  <2>5. QED BY <1>3, <2>3, <2>4, FailKnows DEF SetQuota, Done
<1>4. QED BY <1>2, <1>3

\* Emptying and deleting it: the call answers when it is gone.
LEMMA DeleteKnows ==
  ASSUME BucketTypeOK, NEW c \in Calls, Knows(c), BucketHistory,
         ListUploads(c) \/ Abort(c) \/ ListObjects(c) \/ DeleteObjects(c) \/ DeleteBucket(c)
  PROVE  Knows(c)'
<1>1. Kind(c, {"delete"}) /\ bucket # "other"
  BY DEF ListUploads, Abort, ListObjects, DeleteObjects, DeleteBucket, Knows
<1>2. ASSUME pc'[c] \in {"Abort", "ListObjects", "DeleteObjects", "DeleteBucket"},
             task'[c].kind = task[c].kind, UNCHANGED bucket
      PROVE  Knows(c)'
  BY <1>1, <1>2 DEF Knows, Kind
<1>3. ASSUME NEW p, task' = [task EXCEPT ![c].page = p] PROVE task'[c].kind = task[c].kind
  BY <1>3 DEF BucketTypeOK, CallsTypeOK, Tasks
<1>4. ASSUME NEW l \in {"Abort", "ListObjects", "DeleteObjects", "DeleteBucket"},
             Goto(c, l), UNCHANGED bucket, UNCHANGED task \/ \E p : task' = [task EXCEPT ![c].page = p]
      PROVE  Knows(c)'
  BY <1>2, <1>3, <1>4, GoneTo
<1>5. CASE ListUploads(c) \/ ListObjects(c)
  BY <1>4, <1>5, FailKnows DEF ListUploads, ListObjects, On, contents
<1>6. CASE Abort(c)
  <2>1. UNCHANGED bucket
    BY <1>6 DEF Abort, ApiError, contents
  <2>2. ASSUME NEW p, task' = [task EXCEPT ![c].page = p], UNCHANGED pc PROVE Knows(c)'
    BY <1>2, <1>3, <1>6, <2>1, <2>2 DEF Abort
  <2>3. QED BY <1>4, <1>6, <2>1, <2>2, FailKnows DEF Abort, On
<1>7. CASE DeleteObjects(c)
  BY <1>4, <1>7, FailKnows DEF DeleteObjects
<1>8. CASE DeleteBucket(c)
  <2>1. ASSUME On(c, "Reply"), bucket' = "none" PROVE Knows(c)'
    <3>1. pc'[c] = "Reply" /\ task' = task
      BY <2>1, GoneTo DEF On
    <3>2. "gone" \in saw'[c]
      BY <2>1, <3>1, Remembered
    <3>3. QED BY <1>1, <2>1, <3>1, <3>2 DEF Knows, Kind
  <2>2. QED BY <1>8, <2>1, FailKnows DEF DeleteBucket, Done
<1>9. QED BY <1>5, <1>6, <1>7, <1>8

\* A step of one call leaves the others' tasks alone and makes no other bucket.
LEMMA OthersUnmoved ==
  ASSUME BucketTypeOK, NEW c \in Calls, BucketStart(c) \/ BucketHandle(c)
  PROVE  NoOther /\ \A d \in Calls \ {c} : UNCHANGED <<pc[d], task[d]>>
<1> USE DEF BucketTypeOK, ContentsTypeOK, CallsTypeOK
<1>1. CASE BucketStart(c)
  <2>1. ASSUME NEW k, NEW n, BeginBucketCall(c, k, n)
        PROVE  UNCHANGED bucket /\ \A d \in Calls \ {c} : UNCHANGED <<pc[d], task[d]>>
    BY <2>1 DEF BeginBucketCall, Enter, contents
  <2>2. QED BY <1>1, <2>1 DEF BucketStart, NoOther
<1>2. CASE BucketHandle(c)
  <2> DEFINE Others == \A d \in Calls \ {c} : UNCHANGED <<pc[d], task[d]>>
  <2>1. ASSUME Fail(c) \/ ApiError(c) \/ ReplyBucket(c) \/ (\E l : On(c, l) \/ Done(c, l)) PROVE Others
    BY <2>1 DEF Fail, ApiError, ReplyBucket, On, Done, Goto, Return
  <2>2. ASSUME NEW l, Goto(c, l) \/ UNCHANGED pc,
               \/ \E p : task' = [task EXCEPT ![c].page = p]
               \/ \E n : task' = [task EXCEPT ![c].capacity = n]
               \/ task' = [task EXCEPT ![c].made = TRUE]
        PROVE  Others
    BY <2>2 DEF Goto
  <2>3. NoOther
    BY <1>2 DEF BucketHandle, CreateVolume, DeleteVolume, ControllerGetVolume,
         ControllerExpandVolume, GetVolume, Metadata, Quota, ReplyBucket, NotFound, Found, ApiError,
         CreateBucket, SetQuota, ListUploads, Abort, ListObjects, DeleteObjects, DeleteBucket,
         contents, NoOther
  <2> SUFFICES Others
    BY <2>3
  <2>4. CASE Metadata(c) \/ Quota(c) \/ ReplyBucket(c)
    BY <2>1, <2>2, <2>4 DEF Metadata, Quota, NotFound, Found
  <2>5. CASE CreateBucket(c) \/ SetQuota(c)
    BY <2>1, <2>2, <2>5 DEF CreateBucket, SetQuota
  <2>6. CASE ListUploads(c) \/ Abort(c) \/ ListObjects(c)
    BY <2>1, <2>2, <2>6 DEF ListUploads, Abort, ListObjects
  <2>7. CASE DeleteObjects(c) \/ DeleteBucket(c)
    BY <2>1, <2>2, <2>7 DEF DeleteObjects, DeleteBucket
  <2>8. QED BY <1>2, <2>4, <2>5, <2>6, <2>7
          DEF BucketHandle, CreateVolume, DeleteVolume, ControllerGetVolume,
              ControllerExpandVolume, GetVolume
<1>3. QED BY <1>1, <1>2

\* A call that has answered claims nothing any more.
LEMMA ReplyKnows ==
  ASSUME BucketTypeOK, NEW c \in Calls, ReplyBucket(c), BucketHistory
  PROVE  Knows(c)'
BY IdleKnows DEF ReplyBucket, Return, BucketTypeOK, CallsTypeOK

\* A new call looks for the bucket and has made none.
LEMMA StartKnows ==
  ASSUME BucketTypeOK, NEW c \in Calls, Knows(c), BucketStart(c), BucketHistory
  PROVE  Knows(c)'
<1>1. PICK k \in {"create", "delete", "get", "expand"}, n \in AskedBytes \cup {0} :
        BeginBucketCall(c, k, n)
  BY DEF BucketStart
<1>2. pc'[c] = "Metadata" /\ task'[c] = [NoTask EXCEPT !.kind = k, !.size = n]
  BY <1>1 DEF BeginBucketCall, Enter, BucketTypeOK, CallsTypeOK
<1>3. QED BY <1>2 DEF NoTask, Knows

\* Knows is an invariant, for every call.
LEMMA CallsKnow == BucketSpec => [](BucketTypeOK /\ \A c \in Calls : Knows(c))
<1> DEFINE Inv == \A c \in Calls : Knows(c)
<1>1. BucketInit => BucketTypeOK /\ Inv
  BY NoTaskTyped DEF BucketInit, NoCalls, BucketTypeOK, ContentsTypeOK, CallsTypeOK, Point, Knows
<1>2. BucketTypeOK /\ Inv /\ [BucketNext]_bucketVars => (BucketTypeOK /\ Inv)'
  <2> SUFFICES ASSUME BucketTypeOK, Inv, [BucketNext]_bucketVars PROVE (BucketTypeOK /\ Inv)'
    OBVIOUS
  <2>1. ASSUME NEW c \in Calls, BucketStart(c) \/ BucketHandle(c), BucketHistory PROVE Inv'
    <3>1. ASSUME NEW d \in Calls \ {c} PROVE Knows(d)'
      BY <2>1, <3>1, OthersUnmoved, UnmovedKnows
    <3>2. Knows(c)'
      BY <2>1, StartKnows, GetKnows, MakeKnows, DeleteKnows, ReplyKnows
         DEF BucketHandle, CreateVolume, DeleteVolume, ControllerGetVolume,
             ControllerExpandVolume, GetVolume
    <3>3. QED BY <3>1, <3>2
  <2>2. ASSUME Pods, BucketHistory PROVE Inv'
    <3>1. NoOther /\ UNCHANGED <<pc, task>>
      BY <2>2 DEF Pods, NoOther
    <3>2. QED BY <2>2, <3>1, UnmovedKnows
  <2>3. ASSUME CrashBuckets, BucketHistory PROVE Inv'
    BY <2>3, IdleKnows DEF CrashBuckets, CrashCalls
  <2>4. CASE UNCHANGED bucketVars
    <3>1. BucketTypeOK'
      BY <2>4 DEF bucketVars, BucketTypeOK, ContentsTypeOK, CallsTypeOK
    <3>2. Inv'
      BY <2>4 DEF bucketVars, Knows, Kind
    <3>3. QED BY <3>1, <3>2
  <2>5. CASE BucketNext
    <3>1. Inv'
      BY <2>1, <2>2, <2>3, <2>5 DEF BucketNext
    <3>2. QED BY <2>5, <3>1, Typing
  <2>6. QED BY <2>4, <2>5
<1>3. QED BY <1>1, <1>2, PTL DEF BucketSpec

\* A call that answers OK saw what it answers, however many calls and pods meddle
\* with the bucket meanwhile.
THEOREM AnswersAreHonest == BucketSpec => []BucketAnswersAreHonest
<1>1. (\A c \in Calls : Knows(c)) => BucketAnswersAreHonest
  BY DEF Knows, BucketAnswersAreHonest
<1>2. QED BY <1>1, CallsKnow, PTL

----------------------------------------------------------------------------
(* The quota and what was promised.                                        *)

\* What a call that is not behind knows of the quota it is about to set or to
\* answer: it does not take away from it, or has read no more.
Consistent(c) ==
  /\ pc[c] = "SetQuota" => task[c].size >= quota
  /\ pc[c] = "Reply" /\ task[c].kind # "delete" => task[c].capacity <= quota

\* QuotaKept alone is not inductive: a call that sets the quota must know that it
\* does not take back what was promised, one that answers that the quota is still
\* as large as what it read.
PromiseKept ==
  /\ promised \in Nat
  /\ bucket = "none" => quota = 0 /\ promised = 0
  /\ ~outrun => quota >= promised
  /\ \A c \in Calls \ behind : Consistent(c)

\* The larger of two numbers is one of them, and no smaller than either.
LEMMA LargestOfTwo ==
  ASSUME NEW a \in Nat, NEW b \in Nat
  PROVE  Max({a, b}) \in {a, b}
<1>1. \E x \in {a, b} : \A y \in {a, b} : x >= y
  OBVIOUS
<1>2. QED BY <1>1 DEF Max

\* The largest of one number is that number.
LEMMA LargestOfOne ==
  ASSUME NEW a \in Nat
  PROVE  Max({a}) = a
<1>1. \E x \in {a} : \A y \in {a} : x >= y
  OBVIOUS
<1>2. QED BY <1>1 DEF Max

\* When nobody answers, nothing is promised that was not.
LEMMA NothingPromised ==
  ASSUME BucketHistory, promised \in Nat, Promising = {}
  PROVE  promised' = IF bucket' = "none" THEN 0 ELSE promised
<1>1. {promised} \cup {task[c].capacity : c \in Promising} = {promised}
  OBVIOUS
<1>2. QED BY <1>1, LargestOfOne DEF BucketHistory

\* A single call may add the capacity it answers.
LEMMA OnePromised ==
  ASSUME BucketTypeOK, BucketHistory, promised \in Nat, NEW c \in Calls, Promising = {c}
  PROVE  promised' \in {0, promised, task[c].capacity} /\ (bucket' = "none" => promised' = 0)
<1>1. task[c].capacity \in Nat
  BY DEF BucketTypeOK, CallsTypeOK, Tasks
<1>2. {promised} \cup {task[e].capacity : e \in Promising} = {promised, task[c].capacity}
  OBVIOUS
<1>3. QED BY <1>1, <1>2, LargestOfTwo DEF BucketHistory

\* A call that takes no step and has not fallen behind stays consistent.
LEMMA StaysConsistent ==
  ASSUME BucketTypeOK, quota' \in Nat, PromiseKept, BucketHistory,
         NEW d \in Calls, d \notin behind', UNCHANGED <<pc[d], task[d]>>
  PROVE  Consistent(d)'
<1>1. d \notin behind /\ ~FallsBehind(d)
  BY DEF BucketHistory
<1>2. quota \in Nat /\ task[d].capacity \in Nat
  BY DEF BucketTypeOK, ContentsTypeOK, CallsTypeOK, Tasks
<1>3. QED BY <1>1, <1>2 DEF PromiseKept, Consistent, FallsBehind

\* A step of one call that promises nothing: either the quota stays what it was, or
\* it falls only with the bucket, or is outrun.
LEMMA StepKeepsPromise ==
  ASSUME BucketTypeOK, quota' \in Nat, PromiseKept, BucketHistory, NEW c \in Calls,
         \A d \in Calls \ {c} : UNCHANGED <<pc[d], task[d]>>,
         pc[c] # "Reply", Consistent(c)', bucket' = "none" => quota' = 0,
         ~outrun' /\ bucket' # "none" => quota' >= promised
  PROVE  PromiseKept'
<1>1. promised \in Nat
  BY DEF PromiseKept
<1>2. Promising = {}
  <2>1. \A d \in Calls : pc[d] = "Reply" => pc'[d] = "Reply"
    OBVIOUS
  <2>2. QED BY <2>1 DEF Promising
<1>3. promised' = IF bucket' = "none" THEN 0 ELSE promised
  BY <1>1, <1>2, NothingPromised
<1>4. \A d \in Calls \ behind' : Consistent(d)'
  BY StaysConsistent
<1>5. behind' \subseteq Calls
  BY DEF BucketHistory
<1>6. QED BY <1>1, <1>3, <1>4 DEF PromiseKept

\* So does one that leaves the quota alone.
LEMMA SameQuotaKeepsPromise ==
  ASSUME BucketTypeOK, PromiseKept, BucketHistory, NEW c \in Calls,
         \A d \in Calls \ {c} : UNCHANGED <<pc[d], task[d]>>,
         pc[c] # "Reply", Consistent(c)', UNCHANGED quota,
         bucket' = "none" => bucket = "none"
  PROVE  PromiseKept'
<1>1. quota' \in Nat /\ promised \in Nat
  BY DEF BucketTypeOK, ContentsTypeOK, PromiseKept
<1>2. ASSUME ~outrun', bucket' # "none" PROVE quota' >= promised
  BY <1>2 DEF BucketHistory, PromiseKept
<1>3. bucket' = "none" => quota' = 0
  BY DEF PromiseKept
<1>4. QED BY <1>1, <1>2, <1>3, StepKeepsPromise

\* A request of a call: what it does to the bucket and where it leaves the call.
LEMMA HandleKeepsPromise ==
  ASSUME BucketTypeOK, PromiseKept, BucketHistory, NEW c \in Calls, Knows(c), BucketHandle(c)
  PROVE  PromiseKept'
<1>1. /\ task[c].size \in Nat /\ quota \in Nat /\ task[c].capacity \in Nat /\ promised \in Nat
      /\ bucket \in {"none", "fs", "other"}
  BY DEF BucketTypeOK, CallsTypeOK, ContentsTypeOK, Tasks, PromiseKept
<1>2. \A d \in Calls \ {c} : UNCHANGED <<pc[d], task[d]>>
  BY OthersUnmoved
<1>3. ASSUME pc[c] # "Reply", UNCHANGED <<bucket, quota>>, pc'[c] \notin {"SetQuota", "Reply"}
      PROVE  PromiseKept'
  <2>1. Consistent(c)'
    BY <1>3 DEF Consistent
  <2>2. QED BY <1>2, <1>3, <2>1, SameQuotaKeepsPromise
<1>4. ASSUME Fail(c) PROVE pc'[c] = "idle"
  BY <1>4 DEF Fail, Return, BucketTypeOK, CallsTypeOK
<1>5. ASSUME NEW l, Goto(c, l) \/ On(c, l) PROVE pc'[c] = l
  BY <1>5, GoneTo DEF On
<1>6. CASE Metadata(c) \/ Quota(c)
  <2>1. ASSUME NotFound(c), pc[c] # "Reply" PROVE PromiseKept'
    <3>1. UNCHANGED <<bucket, quota>>
      BY <2>1 DEF NotFound, contents
    <3>2. \/ pc'[c] \in {"CreateBucket", "idle"}
          \/ pc'[c] = "Reply" /\ task'[c].kind = "delete"
      BY <2>1, <1>4, <1>5 DEF NotFound, On
    <3>3. Consistent(c)'
      BY <3>2 DEF Consistent
    <3>4. QED BY <1>2, <2>1, <3>1, <3>3, SameQuotaKeepsPromise
  <2>2. ASSUME Found(c, quota), pc[c] # "Reply" PROVE PromiseKept'
    <3>1. UNCHANGED <<bucket, quota>>
      BY <2>2 DEF Found, contents
    <3>2. task'[c].size = task[c].size /\ task'[c].capacity = quota
      BY <2>2 DEF Found, BucketTypeOK, CallsTypeOK, Tasks
    <3>3. pc'[c] = CASE task[c].kind = "delete" -> "ListUploads"
                     [] task[c].kind = "expand" /\ ~(quota >= task[c].size) -> "SetQuota"
                     [] OTHER -> "Reply"
      BY <2>2, <1>5 DEF Found
    <3>4. Consistent(c)'
      BY <1>1, <3>1, <3>2, <3>3 DEF Consistent
    <3>5. QED BY <1>2, <2>2, <3>1, <3>4, SameQuotaKeepsPromise
  <2>3. ASSUME On(c, "Quota") \/ Fail(c), UNCHANGED contents, pc[c] # "Reply" PROVE PromiseKept'
    BY <1>3, <1>4, <1>5, <2>3 DEF contents
  <2>4. QED BY <1>6, <2>1, <2>2, <2>3 DEF Metadata, Quota, ApiError
<1>7. CASE CreateBucket(c)
  <2>1. ASSUME bucket = "none", bucket' = "fs", UNCHANGED quota PROVE PromiseKept'
    <3>1. quota = 0 /\ pc[c] = "CreateBucket"
      BY <1>7, <2>1 DEF PromiseKept, CreateBucket
    <3>2. pc'[c] \in {"Metadata", "SetQuota", "idle"}
      BY <1>4, <1>5, <1>7, <2>1 DEF CreateBucket, ApiError, contents
    <3>3. task'[c].size \in Nat
      BY <1>7, WriteTyping DEF BucketTypeOK, CallsTypeOK, Tasks
    <3>4. Consistent(c)'
      BY <2>1, <3>1, <3>2, <3>3 DEF Consistent
    <3>5. QED BY <1>2, <2>1, <3>1, <3>4, SameQuotaKeepsPromise
  <2>2. ASSUME Fail(c), UNCHANGED contents PROVE PromiseKept'
    BY <1>3, <1>4, <1>7, <2>2 DEF CreateBucket, contents
  <2>3. QED BY <1>7, <2>1, <2>2 DEF CreateBucket, ApiError
<1>8. CASE SetQuota(c)
  <2>1. pc[c] = "SetQuota"
    BY <1>8 DEF SetQuota
  <2>2. ASSUME bucket # "none", quota' = task[c].size, UNCHANGED bucket,
               \/ pc'[c] \in {"Metadata", "idle"}
               \/ pc'[c] = "Reply" /\ task'[c].capacity = task[c].size
        PROVE  PromiseKept'
    <3>1. Consistent(c)'
      BY <1>1, <2>2 DEF Consistent
    <3>2. ASSUME ~outrun' PROVE quota' >= promised
      <4>1. ~outrun /\ (quota' = quota \/ c \notin behind)
        BY <2>1, <2>2, <3>2 DEF BucketHistory
      <4>2. quota >= promised /\ (c \notin behind => task[c].size >= quota)
        BY <2>1, <4>1 DEF PromiseKept, Consistent
      <4>3. QED BY <1>1, <2>2, <4>1, <4>2
    <3>3. QED BY <1>1, <1>2, <2>1, <2>2, <3>1, <3>2, StepKeepsPromise
  <2>3. ASSUME Goto(c, "Reply"), task' = [task EXCEPT ![c].capacity = task[c].size]
        PROVE  pc'[c] = "Reply" /\ task'[c].capacity = task[c].size
    <3>1. task'[c].capacity = task[c].size
      BY <2>3 DEF BucketTypeOK, CallsTypeOK, Tasks
    <3>2. QED BY <1>5, <2>3, <3>1
  <2>4. ASSUME Done(c, "Metadata") PROVE pc'[c] \in {"Metadata", "idle"}
    BY <1>4, <1>5, <2>4 DEF Done
  <2>5. ASSUME Fail(c), UNCHANGED contents PROVE PromiseKept'
    BY <1>3, <1>4, <2>1, <2>5 DEF contents
  <2>6. QED BY <1>4, <1>8, <2>2, <2>3, <2>4, <2>5 DEF SetQuota, ApiError
<1>9. CASE ListUploads(c) \/ Abort(c) \/ ListObjects(c) \/ DeleteObjects(c)
  <2>1. UNCHANGED <<bucket, quota>>
    BY <1>9 DEF ListUploads, Abort, ListObjects, DeleteObjects, ApiError, contents
  <2>2. pc'[c] \in {"idle", "Abort", "ListObjects", "DeleteObjects", "DeleteBucket"}
    BY <1>4, <1>5, <1>9 DEF ListUploads, Abort, ListObjects, DeleteObjects, ApiError
  <2>3. pc[c] # "Reply"
    BY <1>9 DEF ListUploads, Abort, ListObjects, DeleteObjects
  <2>4. QED BY <1>3, <2>1, <2>2, <2>3
<1>10. CASE DeleteBucket(c)
  <2>1. pc[c] = "DeleteBucket" /\ task[c].kind = "delete"
    BY <1>10 DEF DeleteBucket, Knows, Kind
  <2>2. ASSUME On(c, "Reply") \/ Fail(c) PROVE Consistent(c)'
    <3>1. pc'[c] = "idle" \/ (pc'[c] = "Reply" /\ task'[c].kind = "delete")
      BY <1>4, <1>5, <2>1, <2>2 DEF On
    <3>2. QED BY <3>1 DEF Consistent
  <2>3. ASSUME On(c, "Reply") \/ Fail(c), bucket' = "none", quota' = 0 PROVE PromiseKept'
    BY <1>2, <2>1, <2>2, <2>3, StepKeepsPromise
  <2>4. ASSUME On(c, "Reply") \/ Fail(c), UNCHANGED <<bucket, quota>> PROVE PromiseKept'
    BY <1>2, <2>1, <2>2, <2>4, SameQuotaKeepsPromise
  <2>5. QED BY <1>10, <2>3, <2>4 DEF DeleteBucket, Done
<1>11. CASE ReplyBucket(c)
  <2>1. pc'[c] = "idle" /\ UNCHANGED <<bucket, quota>> /\ pc[c] = "Reply"
    BY <1>11 DEF ReplyBucket, Return, contents, BucketTypeOK, CallsTypeOK
  <2>2. \A d \in Calls : d \in Promising => d = c
    BY <1>2, <2>1 DEF Promising
  <2>3. c \in Promising => task[c].capacity <= quota
    BY <2>1 DEF Promising, PromiseKept, Consistent
  <2>4. promised' \in Nat /\ (bucket' = "none" => promised' = 0)
        /\ (promised' <= promised \/ promised' <= quota)
    <3>1. CASE c \in Promising
      <4>1. Promising = {c}
        BY <2>2, <3>1 DEF Promising
      <4>2. QED BY <1>1, <2>3, <3>1, <4>1, OnePromised
    <3>2. CASE c \notin Promising
      <4>1. Promising = {}
        BY <2>2, <3>2 DEF Promising
      <4>2. QED BY <1>1, <4>1, NothingPromised
    <3>3. QED BY <3>1, <3>2
  <2>5. \A d \in Calls \ behind' : Consistent(d)'
    <3>1. Consistent(c)'
      BY <2>1 DEF Consistent
    <3>2. \A d \in Calls \ {c} : d \notin behind' => Consistent(d)'
      BY <1>1, <1>2, <2>1, StaysConsistent
    <3>3. QED BY <3>1, <3>2
  <2>6. ASSUME ~outrun' PROVE quota' >= promised'
    <3>1. CASE bucket' = "none"
      BY <1>1, <2>1, <2>4, <3>1
    <3>2. CASE bucket' # "none"
      <4>1. quota >= promised
        BY <2>6, <3>2 DEF BucketHistory, PromiseKept
      <4>2. QED BY <1>1, <2>1, <2>4, <4>1
    <3>3. QED BY <3>1, <3>2
  <2>7. bucket' = "none" => quota' = 0
    BY <2>1 DEF PromiseKept
  <2>8. QED BY <2>4, <2>5, <2>6, <2>7 DEF PromiseKept
<1>12. QED BY <1>6, <1>7, <1>8, <1>9, <1>10, <1>11
         DEF BucketHandle, CreateVolume, DeleteVolume, ControllerGetVolume,
             ControllerExpandVolume, GetVolume

\* A new call promises nothing.
LEMMA StartKeepsPromise ==
  ASSUME BucketTypeOK, PromiseKept, BucketHistory, NEW c \in Calls, BucketStart(c)
  PROVE  PromiseKept'
<1>1. PICK k, n : BeginBucketCall(c, k, n)
  BY DEF BucketStart
<1>2. /\ pc[c] = "idle" /\ pc'[c] = "Metadata" /\ UNCHANGED <<bucket, quota>>
      /\ \A d \in Calls \ {c} : UNCHANGED <<pc[d], task[d]>>
  BY <1>1 DEF BeginBucketCall, Enter, contents, BucketTypeOK, CallsTypeOK
<1>3. Consistent(c)'
  BY <1>2 DEF Consistent
<1>4. QED BY <1>2, <1>3, SameQuotaKeepsPromise

\* The pods do not touch the quota, and a crash answers nothing.
LEMMA OthersKeepPromise ==
  ASSUME BucketTypeOK, PromiseKept, BucketHistory, Pods \/ CrashBuckets
  PROVE  PromiseKept'
<1>1. UNCHANGED <<bucket, quota>> /\ quota \in Nat /\ promised \in Nat
  BY DEF Pods, CrashBuckets, contents, BucketTypeOK, ContentsTypeOK, PromiseKept
<1>2. \A d \in Calls : pc'[d] = "idle" \/ UNCHANGED <<pc[d], task[d]>>
  BY DEF Pods, CrashBuckets, CrashCalls
<1>3. Promising = {}
  <2>1. \A d \in Calls : pc[d] = "Reply" => pc'[d] # "idle" \/ reply'[d] # "OK"
    BY DEF Pods, CrashBuckets, CrashCalls
  <2>2. QED BY <2>1 DEF Promising
<1>4. promised' = IF bucket' = "none" THEN 0 ELSE promised
  BY <1>1, <1>3, NothingPromised
<1>5. \A d \in Calls \ behind' : Consistent(d)'
  <2>1. ASSUME NEW d \in Calls, pc'[d] = "idle" PROVE Consistent(d)'
    BY <2>1 DEF Consistent
  <2>2. QED BY <1>1, <1>2, <2>1, StaysConsistent
<1>6. ~outrun' /\ bucket' # "none" => quota' >= promised'
  BY <1>1, <1>4 DEF BucketHistory, PromiseKept
<1>7. QED BY <1>1, <1>4, <1>5, <1>6 DEF PromiseKept

\* The quota falls below a capacity that was answered only if a call has set it
\* after another one changed what it had read.
THEOREM QuotaIsKept == BucketSpec => []QuotaKept
<1>1. BucketInit => PromiseKept
  BY DEF BucketInit, NoCalls, PromiseKept, Consistent
<1>2. (BucketTypeOK /\ \A c \in Calls : Knows(c)) /\ PromiseKept /\ [BucketNext]_bucketVars
        => PromiseKept'
  <2> SUFFICES ASSUME BucketTypeOK, \A c \in Calls : Knows(c), PromiseKept, [BucketNext]_bucketVars
               PROVE  PromiseKept'
    OBVIOUS
  <2>1. CASE BucketNext
    BY <2>1, HandleKeepsPromise, StartKeepsPromise, OthersKeepPromise DEF BucketNext
  <2>2. CASE UNCHANGED bucketVars
    BY <2>2 DEF bucketVars, PromiseKept, Consistent
  <2>3. QED BY <2>1, <2>2
<1>3. PromiseKept => QuotaKept
  BY DEF PromiseKept, QuotaKept
<1>4. QED BY <1>1, <1>2, <1>3, CallsKnow, PTL DEF BucketSpec
=============================================================================
