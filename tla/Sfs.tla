--------------------------------- MODULE Sfs ---------------------------------
(***************************************************************************)
(* The controller of SFS (pkg/sfs/controllerserver.go, share.go): the      *)
(* share is made, looked at once, and access is granted to the VPC.  A     *)
(* call for a share that exists grants access again.                       *)
(***************************************************************************)
EXTENDS FileShare

VARIABLE regrant \* whether the cloud accepts a rule that exists already

\* The size 0 stands for 10 GiB.
BeginSfsCreate(c, n) ==
  BeginShareCall(c, [NoRequest EXCEPT !.rpc = "create", !.asked = n,
                       !.want = IF n = 0 THEN 10 ELSE n], "CheckExist")

BeginSfsDelete(c, s) ==
  /\ shares[s] # "unborn"
  /\ BeginShareCall(c, [NoRequest EXCEPT !.rpc = "delete", !.share = s], "DeleteSfs")

\* Also a share found by name has access granted.
AfterFound == "Grant"

CheckExist(c) == pc[c] = "CheckExist" /\ LookUpName(c, AfterFound)

\* The wait sleeps longer than its time-out: it polls once.
WaitOnce(c) ==
  /\ pc[c] = "WaitOnce"
  /\ LET ready == shares[req[c].share] = "available"
     IN  \/ ready /\ Goto(c, "Grant") /\ UNCHANGED <<store, req, polls>>
         \/ (~ready \/ "api" \in Faults) /\ GiveUpOn(c)

CanGrant(s) == shares[s] = "available" /\ (access[s] => regrant)

\* The answer gives the size the call was asked for, found or made.
Grant(c) ==
  /\ pc[c] = "Grant"
  /\ LET s == req[c].share
     IN  \/ /\ CanGrant(s)
            /\ access' = [access EXCEPT ![s] = TRUE]
            /\ \/ /\ Goto(c, "Answer")
                  /\ req' = [req EXCEPT ![c].bytes = req[c].want * GbByteSize]
               \/ "lost" \in Faults /\ Return(c, "ERR") /\ Forget(c)
            /\ UNCHANGED <<driver, shares, sizes, goals, subStatus, polls>>
         \/ (~CanGrant(s) \/ "api" \in Faults) /\ GiveUpOn(c)

\* A share that is not found is deleted; nothing waits for the deletion.
DeleteSfs(c) ==
  /\ pc[c] = "DeleteSfs"
  /\ LET s == req[c].share
     IN  \/ AcceptDelete(s) /\ CarriedOut(c, "Answer") /\ UNCHANGED polls
         \/ s \notin Existing /\ Goto(c, "Answer") /\ UNCHANGED <<store, req, polls>>
         \/ ((s \in Existing /\ ~Idle(s)) \/ "api" \in Faults) /\ GiveUpOn(c)

SfsStart(c) ==
  \/ \E n \in AskedGiB : BeginSfsCreate(c, n)
  \/ \E s \in ShareIds : BeginSfsDelete(c, s)

CreateSfs(c) == CheckExist(c) \/ CreateShare(c, "WaitOnce") \/ WaitOnce(c) \/ Grant(c)

SfsHandle(c) == CreateSfs(c) \/ DeleteSfs(c) \/ Answer(c)

SfsNext ==
  /\ driver = "sfs" /\ UNCHANGED regrant
  /\ \/ \E c \in Calls : SfsStart(c) \/ SfsHandle(c)
     \/ \E s \in ShareIds : StoreStep(s)
     \/ CrashShares
  /\ ShareHistory
=============================================================================
