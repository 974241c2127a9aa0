------------------------------ MODULE SfsTurbo ------------------------------
(***************************************************************************)
(* The controller of SFS Turbo (pkg/sfsturbo/controllerserver.go and       *)
(* services/volumes.go): every operation waits for the cloud to be done.   *)
(***************************************************************************)
EXTENDS FileShare

CONSTANTS
  MinGiB,  \* the smallest share (minSizeInGiB, 500)
  MaxGiB,  \* the largest share (maxSizeInGiB, 32768)
  StepGiB  \* the smallest extension (expandStepInGiB, 100)

ASSUME GiBAssumption == MinGiB \in Nat \ {0} /\ MaxGiB \in Nat /\ StepGiB \in Nat

\* A share smaller than the smallest is made as large as that; a request beyond
\* the largest is refused before anything is asked of the cloud.
BeginTurboCreate(c, n) ==
  /\ n <= MaxGiB
  /\ BeginShareCall(c, [NoRequest EXCEPT !.rpc = "create", !.asked = n,
                          !.want = IF n < MinGiB THEN MinGiB ELSE n], "ListShares")

BeginTurboDelete(c, s) ==
  /\ shares[s] # "unborn"
  /\ BeginShareCall(c, [NoRequest EXCEPT !.rpc = "delete", !.share = s], "FindShare")

BeginTurboExpand(c, s, n) ==
  /\ shares[s] # "unborn" /\ n <= MaxGiB
  /\ BeginShareCall(c, [NoRequest EXCEPT !.rpc = "expand", !.share = s, !.asked = n], "GetShare")

\* A share found by name is answered whatever its status.
ListShares(c) == pc[c] = "ListShares" /\ LookUpName(c, "Answer")

\* Only the status creating lets the wait go on.
Available(s) == shares[s] = "available"

WaitAvailable(c) ==
  /\ pc[c] = "WaitAvailable"
  /\ LET s == req[c].share
     IN  \/ Available(s) /\ AnswerBytes(c, req[c].want * GbByteSize)
         \/ shares[s] = "creating" /\ PollAgain(c)
         \/ (shares[s] \notin {"creating", "available"} \/ "api" \in Faults) /\ GiveUpOn(c)

FindShare(c) ==
  /\ pc[c] = "FindShare"
  /\ \/ /\ Goto(c, IF req[c].share \in Existing THEN "Delete" ELSE "Answer")
        /\ UNCHANGED <<store, req, polls>>
     \/ "api" \in Faults /\ GiveUpOn(c)

\* Any refusal is an error, also that of a share deleted since it was found.
TurboDelete(c) ==
  /\ pc[c] = "Delete"
  /\ \/ AcceptDelete(req[c].share) /\ CarriedOut(c, "WaitDeleted") /\ UNCHANGED polls
     \/ (~Idle(req[c].share) \/ "api" \in Faults) /\ GiveUpOn(c)

\* The wait ends when the share is not found; a deletion that failed is waited
\* for until the polls are used up.
FaultyTakesTheRequest(s) == shares[s] \in {"deleting", "gone"}
Deleted(s) == s \notin Existing

WaitDeleted(c) ==
  /\ pc[c] = "WaitDeleted"
  /\ \/ Deleted(req[c].share) /\ Goto(c, "Answer") /\ UNCHANGED <<store, req, polls>>
     \/ ~Deleted(req[c].share) /\ PollAgain(c)
     \/ "api" \in Faults /\ GiveUpOn(c)

\* An extension is of StepGiB at least.
Target(current, n) == IF n - current < StepGiB THEN current + StepGiB ELSE n

\* A share that is large enough needs nothing.
GetShare(c) ==
  /\ pc[c] = "GetShare"
  /\ LET s == req[c].share
         n == req[c].asked
         target == Target(sizes[s], n)
     IN  \/ s \in Existing /\ sizes[s] >= n /\ AnswerBytes(c, sizes[s] * GbByteSize)
         \/ /\ s \in Existing /\ sizes[s] < n /\ target <= MaxGiB
            /\ req' = [req EXCEPT ![c].want = target]
            /\ Goto(c, "Expand") /\ UNCHANGED <<store, polls>>
         \/ /\ s \notin Existing \/ (sizes[s] < n /\ target > MaxGiB) \/ "api" \in Faults
            /\ GiveUpOn(c)

\* The cloud extends a share when nothing else is done to it, and only upwards.
CanExtend(s, n) == shares[s] = "available" /\ goals[s] = 0 /\ n > sizes[s]

Expand(c) ==
  /\ pc[c] = "Expand"
  /\ LET s == req[c].share  n == req[c].want
     IN  \/ /\ CanExtend(s, n)
            /\ goals' = [goals EXCEPT ![s] = n]
            /\ CarriedOut(c, "WaitExpanded")
            /\ UNCHANGED <<driver, shares, sizes, subStatus, access, polls>>
         \/ (~CanExtend(s, n) \/ "api" \in Faults) /\ GiveUpOn(c)

WaitExpanded(c) ==
  /\ pc[c] = "WaitExpanded"
  /\ LET s == req[c].share
         sub == IF s \in Existing THEN subStatus[s] ELSE "none"
     IN  \/ sub = "expanded" /\ Goto(c, "CheckSize") /\ UNCHANGED <<store, req, polls>>
         \/ sub = "expanding" /\ PollAgain(c)
         \/ (sub \notin {"expanded", "expanding"} \/ "api" \in Faults) /\ GiveUpOn(c)

\* The share is read again: it must have the very size this call asked for.  The
\* answer gives the size in GiB where the interface has bytes.
FaultyTrustsTheWait(s, n) == TRUE
HasSize(s, n) == s \in Existing /\ sizes[s] = n

CheckSize(c) ==
  /\ pc[c] = "CheckSize"
  /\ \/ HasSize(req[c].share, req[c].want) /\ AnswerBytes(c, req[c].want)
     \/ (~HasSize(req[c].share, req[c].want) \/ "api" \in Faults) /\ GiveUpOn(c)

TurboStart(c) ==
  \/ \E n \in AskedGiB : BeginTurboCreate(c, n)
  \/ \E s \in ShareIds : BeginTurboDelete(c, s) \/ \E n \in AskedGiB : BeginTurboExpand(c, s, n)

CreateTurbo(c) == ListShares(c) \/ CreateShare(c, "WaitAvailable") \/ WaitAvailable(c)

DeleteTurbo(c) == FindShare(c) \/ TurboDelete(c) \/ WaitDeleted(c)

ExpandTurbo(c) == GetShare(c) \/ Expand(c) \/ WaitExpanded(c) \/ CheckSize(c)

TurboHandle(c) == CreateTurbo(c) \/ DeleteTurbo(c) \/ ExpandTurbo(c) \/ Answer(c)

TurboNext ==
  /\ driver = "turbo"
  /\ \/ \E c \in Calls : TurboStart(c) \/ TurboHandle(c)
     \/ \E s \in ShareIds : StoreStep(s)
     \/ CrashShares
  /\ ShareHistory

\* An expand call that answers OK reports a capacity of at least the bytes asked
\* for, the interface having "the capacity of the volume in bytes" there.
ExpandAnswersBytes ==
  \A c \in Calls : Answers(c, "expand") => req[c].bytes >= req[c].asked * GbByteSize
=============================================================================
