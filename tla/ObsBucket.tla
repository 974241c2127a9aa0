------------------------------- MODULE ObsBucket -------------------------------
(***************************************************************************)
(* The controller of OBS (pkg/obs/controllerserver.go, services/buckets.go *)
(* and objects.go): a volume is a bucket, its name is its ID.  Making a    *)
(* bucket and setting its quota are two requests, and a bucket has to be   *)
(* emptied before it can be deleted, while pods may still write to it.     *)
(***************************************************************************)
EXTENDS CsiCall, FiniteSets, FiniteSetsExt

CONSTANTS
  AskedBytes, \* the sizes the CO asks for; 0 if it names none
  ObjectIds,  \* the objects pods write
  UploadIds,  \* the uploads in parts that pods start
  PageSize    \* the entries of a page of a list (1000)

ASSUME AskedBytesAssumption == AskedBytes \subseteq Nat
ASSUME PageSizeAssumption == PageSize \in Nat \ {0}
ASSUME ContentsAssumption == IsFiniteSet(ObjectIds) /\ IsFiniteSet(UploadIds)

VARIABLES
  bucket,    \* "none", "fs" or "other": not a parallel file system
  quota,     \* its quota, 0 for none
  objects,   \* the objects in it
  uploads,   \* the uploads in parts that are under way
  task,      \* task[c]: what call c works on: see NoTask
  saw,       \* history: what was true of the bucket during call c
  promised,  \* history: the largest capacity answered for this bucket
  behind,    \* history: the calls whose reading of the quota is out of date
  outrun     \* history: such a call has changed the quota of this bucket

contents == <<bucket, quota, objects, uploads>>
bucketVars == <<bucket, quota, objects, uploads, task, saw, promised, behind, outrun, pc, polls, reply>>

\* The kind of call, its size, whether it made the bucket itself, the page of the
\* list it works on and the capacity it has read.
NoTask == [kind |-> "none", size |-> 0, made |-> FALSE, page |-> {}, capacity |-> 0]

BucketInit ==
  /\ bucket \in {"none", "other"}
  /\ quota = 0 /\ objects = {} /\ uploads = {}
  /\ task = [c \in Calls |-> NoTask]
  /\ saw = [c \in Calls |-> {}]
  /\ promised = 0 /\ behind = {} /\ outrun = FALSE
  /\ NoCalls

\* Every handler starts with GetParallelFSBucket.
BeginBucketCall(c, k, n) ==
  /\ Enter(c, "Metadata")
  /\ task' = [task EXCEPT ![c] = [NoTask EXCEPT !.kind = k, !.size = n]]
  /\ UNCHANGED contents

Fail(c) ==
  /\ Return(c, "ERR")
  /\ task' = [task EXCEPT ![c] = NoTask]

On(c, l) == Goto(c, l) /\ UNCHANGED task

ApiError(c) == "api" \in Faults /\ Fail(c) /\ UNCHANGED contents

\* A request that changed something: its answer may be lost.
Done(c, l) == On(c, l) \/ ("lost" \in Faults /\ Fail(c))

\* No bucket is found: a create call that made none goes on to make it, a delete
\* call has nothing to do.
NotFound(c) ==
  /\ CASE task[c].kind = "create" /\ ~task[c].made -> On(c, "CreateBucket")
       [] task[c].kind = "delete" -> On(c, "Reply")
       [] OTHER -> Fail(c)
  /\ UNCHANGED contents

\* The operators named Faulty... are what plausible mistakes would make of the
\* definition that follows them; the properties must catch them.
FaultyAlwaysSets(c, n) == FALSE
LargeEnough(c, n) == n >= task[c].size

\* The bucket is found, with the quota n.
Found(c, n) ==
  /\ task' = [task EXCEPT ![c].capacity = n]
  /\ Goto(c, CASE task[c].kind = "delete" -> "ListUploads"
               [] task[c].kind = "expand" /\ ~LargeEnough(c, n) -> "SetQuota"
               [] OTHER -> "Reply")
  /\ UNCHANGED contents

Metadata(c) ==
  /\ pc[c] = "Metadata"
  /\ \/ bucket = "none" /\ NotFound(c)
     \/ bucket = "other" /\ Fail(c) /\ UNCHANGED contents
     \/ bucket = "fs" /\ On(c, "Quota") /\ UNCHANGED contents
     \/ ApiError(c)

Quota(c) ==
  /\ pc[c] = "Quota"
  /\ \/ bucket = "none" /\ NotFound(c)
     \/ bucket = "fs" /\ Found(c, quota)
     \/ ApiError(c)

\* A bucket that exists is a conflict, also for the account that owns it.
CreateBucket(c) ==
  /\ pc[c] = "CreateBucket"
  /\ \/ /\ bucket = "none"
        /\ bucket' = "fs"
        /\ \/ /\ task' = [task EXCEPT ![c].made = TRUE]
              /\ Goto(c, IF task[c].size = 0 THEN "Metadata" ELSE "SetQuota")
           \/ "lost" \in Faults /\ Fail(c)
        /\ UNCHANGED <<quota, objects, uploads>>
     \/ bucket # "none" /\ Fail(c) /\ UNCHANGED contents
     \/ ApiError(c)

\* The quota is set to what the call asks for, whatever it is by now.
SetQuota(c) ==
  /\ pc[c] = "SetQuota"
  /\ \/ /\ bucket # "none"
        /\ quota' = task[c].size
        /\ \/ task[c].kind = "create" /\ Done(c, "Metadata")
           \/ /\ task[c].kind = "expand"
              /\ \/ Goto(c, "Reply") /\ task' = [task EXCEPT ![c].capacity = task[c].size]
                 \/ "lost" \in Faults /\ Fail(c)
        /\ UNCHANGED <<bucket, objects, uploads>>
     \/ bucket = "none" /\ Fail(c) /\ UNCHANGED contents
     \/ ApiError(c)

\* The first page of a list, in no particular order.
Page(S) == kSubset(IF Cardinality(S) < PageSize THEN Cardinality(S) ELSE PageSize, S)

\* Only one page of uploads is asked for.
ListUploads(c) ==
  /\ pc[c] = "ListUploads"
  /\ \/ /\ bucket # "none"
        /\ \E p \in Page(uploads) : task' = [task EXCEPT ![c].page = p]
        /\ Goto(c, "Abort")
     \/ bucket = "none" /\ Fail(c)
     \/ "api" \in Faults /\ Fail(c)
  /\ UNCHANGED contents

\* The uploads of the page are aborted one by one; one that has ended meanwhile is
\* an error.
Abort(c) ==
  /\ pc[c] = "Abort"
  /\ \/ task[c].page = {} /\ On(c, "ListObjects") /\ UNCHANGED contents
     \/ \E u \in task[c].page :
          /\ u \in uploads /\ uploads' = uploads \ {u}
          /\ \/ task' = [task EXCEPT ![c].page = @ \ {u}] /\ UNCHANGED <<pc, reply>>
             \/ "lost" \in Faults /\ Fail(c)
          /\ UNCHANGED <<bucket, quota, objects>>
     \/ (\E u \in task[c].page : u \notin uploads) /\ Fail(c) /\ UNCHANGED contents
     \/ task[c].page # {} /\ ApiError(c)

\* Page after page of objects is deleted until the list is empty.
ListObjects(c) ==
  /\ pc[c] = "ListObjects"
  /\ \/ /\ bucket # "none" /\ objects # {}
        /\ \E p \in Page(objects) : task' = [task EXCEPT ![c].page = p]
        /\ Goto(c, "DeleteObjects")
     \/ bucket # "none" /\ objects = {} /\ On(c, "DeleteBucket")
     \/ (bucket = "none" \/ "api" \in Faults) /\ Fail(c)
  /\ UNCHANGED contents

\* An answer that names fewer objects deleted than were asked for is an error.
DeleteObjects(c) ==
  /\ pc[c] = "DeleteObjects"
  /\ \/ /\ bucket # "none"
        /\ objects' = objects \ task[c].page
        /\ \/ task' = [task EXCEPT ![c].page = {}] /\ Goto(c, "ListObjects")
           \/ "lost" \in Faults /\ Fail(c)
     \/ "jobfail" \in Faults /\ Fail(c) /\ \E p \in SUBSET task[c].page : objects' = objects \ p
     \/ (bucket = "none" \/ "api" \in Faults) /\ Fail(c) /\ UNCHANGED objects
  /\ UNCHANGED <<bucket, quota, uploads>>

\* The cloud deletes an empty bucket only.
Empty == objects = {} /\ uploads = {}

\* A bucket that is not found is deleted, one that is not empty an error.
FaultyTakesAnyRefusal == TRUE
GoneAlready == bucket = "none"

DeleteBucket(c) ==
  /\ pc[c] = "DeleteBucket"
  /\ \/ bucket # "none" /\ Empty /\ bucket' = "none" /\ quota' = 0 /\ Done(c, "Reply")
     \/ GoneAlready /\ On(c, "Reply") /\ UNCHANGED <<bucket, quota>>
     \/ /\ (bucket # "none" /\ ~Empty) \/ "api" \in Faults
        /\ Fail(c) /\ UNCHANGED <<bucket, quota>>
  /\ UNCHANGED <<objects, uploads>>

ReplyBucket(c) ==
  /\ pc[c] = "Reply" /\ Return(c, "OK")
  /\ task' = [task EXCEPT ![c] = NoTask]
  /\ UNCHANGED contents

----------------------------------------------------------------------------
\* The pods: they write objects, and start and end uploads in parts.
Write(o) == objects' = objects \cup {o} /\ UNCHANGED uploads
StartUpload(u) == uploads' = uploads \cup {u} /\ UNCHANGED objects
EndUpload(u) == uploads' = uploads \ {u} /\ \E o \in ObjectIds : objects' = objects \cup {o}

Pods ==
  /\ bucket = "fs"
  /\ \/ \E o \in ObjectIds \ objects : Write(o)
     \/ \E u \in UploadIds \ uploads : StartUpload(u)
     \/ \E u \in uploads : EndUpload(u)
  /\ UNCHANGED <<bucket, quota, task, pc, reply>>

CrashBuckets == CrashCalls /\ task' = [c \in Calls |-> NoTask] /\ UNCHANGED contents

\* What is true now of the bucket, for call c.
BucketFacts(c) ==
  {f \in {"there", "gone", "large"} :
     CASE f = "there" -> bucket = "fs"
       [] f = "gone" -> bucket = "none"
       [] f = "large" -> bucket = "fs" /\ quota >= task[c].size}

\* The quota has been changed since a call that is about to set it read it, or has
\* fallen since a call that is about to answer it did.
FallsBehind(c) ==
  \/ pc[c] = "SetQuota" /\ quota' # quota
  \/ pc[c] = "Reply" /\ quota' < quota

\* The calls that answer a capacity they read of the bucket as it is.
Promising ==
  {c \in Calls \ behind : /\ pc[c] = "Reply" /\ pc'[c] = "idle" /\ reply'[c] = "OK"
                         /\ task[c].kind # "delete"}

BucketHistory ==
  /\ saw' = [c \in Calls |-> IF InProgress(c)' THEN saw[c] \cup BucketFacts(c)' ELSE {}]
  /\ behind' = {c \in Calls : pc'[c] = pc[c] /\ (c \in behind \/ FallsBehind(c))}
  /\ outrun' = /\ bucket' # "none"
               /\ outrun \/ (quota' # quota /\ \E c \in behind : pc'[c] # pc[c])
  /\ promised' =
       IF bucket' = "none" THEN 0
       ELSE Max({promised} \cup {task[c].capacity : c \in Promising})

BucketStart(c) ==
  \/ \E n \in AskedBytes : BeginBucketCall(c, "create", n) \/ BeginBucketCall(c, "expand", n)
  \/ \E k \in {"delete", "get"} : BeginBucketCall(c, k, 0)

GetVolume(c) == Metadata(c) \/ Quota(c) \/ ReplyBucket(c)

CreateVolume(c) ==
  task[c].kind = "create" /\ (GetVolume(c) \/ CreateBucket(c) \/ SetQuota(c))

DeleteVolume(c) ==
  /\ task[c].kind = "delete"
  /\ \/ GetVolume(c) \/ ListUploads(c) \/ Abort(c) \/ ListObjects(c) \/ DeleteObjects(c)
     \/ DeleteBucket(c)

ControllerGetVolume(c) == task[c].kind = "get" /\ GetVolume(c)

ControllerExpandVolume(c) == task[c].kind = "expand" /\ (GetVolume(c) \/ SetQuota(c))

BucketHandle(c) ==
  /\ CreateVolume(c) \/ DeleteVolume(c) \/ ControllerGetVolume(c) \/ ControllerExpandVolume(c)
  /\ UNCHANGED polls

BucketNext ==
  /\ \/ \E c \in Calls : BucketStart(c) \/ BucketHandle(c)
     \/ Pods /\ UNCHANGED polls
     \/ CrashBuckets
  /\ BucketHistory

BucketSpec == BucketInit /\ [][BucketNext]_bucketVars

----------------------------------------------------------------------------
(* Properties.                                                             *)

\* A call that answers OK saw what it answers: a create call the bucket, with the
\* quota asked for if it made the bucket itself, a get call the bucket, an expand
\* call a quota as large as asked for, and a delete call no bucket, however many
\* calls and pods meddle with it.
BucketAnswersAreHonest ==
  \A c \in Calls :
    pc[c] = "Reply" =>
      CASE task[c].kind = "delete" -> "gone" \in saw[c]
        [] task[c].kind = "expand" -> "large" \in saw[c]
        [] OTHER -> "there" \in saw[c] /\ (task[c].made => "large" \in saw[c])

\* The quota falls below a capacity that was answered only if two calls raced: as long
\* as no call has set the quota after another one changed what it had read, whatever
\* else overlaps, fails or is lost, what was promised of the bucket is kept.
QuotaKept == ~outrun /\ bucket = "fs" => quota >= promised
=============================================================================
