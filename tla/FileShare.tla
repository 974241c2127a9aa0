------------------------------ MODULE FileShare ------------------------------
(***************************************************************************)
(* The shares of one name in the cloud, as SFS Turbo and SFS keep them,    *)
(* and what the handlers of both drivers have in common.  As for volumes,  *)
(* the cloud does not make names unique.                                   *)
(***************************************************************************)
EXTENDS CsiCall, FiniteSets

CONSTANTS
  ShareIds, \* the IDs the cloud can give out: its quota, for this name
  NoShare,  \* the ID of no share
  AskedGiB, \* the sizes the CO asks for, in GiB after rounding up
  GbByteSize \* bytes in a GiB

ASSUME ShareIdsAssumption == NoShare \notin ShareIds /\ IsFiniteSet(ShareIds)
ASSUME AskedGiBAssumption == AskedGiB \subseteq Nat /\ GbByteSize \in Nat \ {0}

VARIABLES
  driver,    \* "turbo" or "sfs"
  shares,    \* shares[s]: the status of the share with ID s
  sizes,     \* sizes[s]: its size in GiB
  goals,     \* goals[s]: the size an extension is to bring it to, 0 if there is none
  subStatus, \* subStatus[s]: what the last extension came to (SFS Turbo)
  access,    \* access[s]: the VPC has been granted access (SFS)
  req,       \* req[c]: what call c works on: see NoRequest
  witness    \* history: what was true of c's share during the call

store == <<driver, shares, sizes, goals, subStatus, access>>
shareVars == <<driver, shares, sizes, goals, subStatus, access, req, witness, pc, polls, reply>>

\* The kind of call, the share (of the request, found or made), the size the CO
\* asked for, the size the call asks the cloud for and the capacity it answers.
NoRequest == [rpc |-> "none", share |-> NoShare, asked |-> 0, want |-> 0, bytes |-> 0]

ShareStatus == {"unborn", "creating", "available", "error", "deleting", "gone"}
SubStatus == {"none", "expanding", "expanded", "failed"}

Existing == {s \in ShareIds : shares[s] \notin {"unborn", "gone"}}

ShareInit ==
  /\ driver \in {"turbo", "sfs"}
  /\ shares = [s \in ShareIds |-> "unborn"]
  /\ sizes = [s \in ShareIds |-> 0]
  /\ goals = [s \in ShareIds |-> 0]
  /\ subStatus = [s \in ShareIds |-> "none"]
  /\ access = [s \in ShareIds |-> FALSE]
  /\ req = [c \in Calls |-> NoRequest]
  /\ witness = [c \in Calls |-> {}]
  /\ NoCalls

\* A call enters at step l with the request r.
BeginShareCall(c, r, l) ==
  /\ Enter(c, l)
  /\ req' = [req EXCEPT ![c] = r]
  /\ UNCHANGED store

Forget(c) == req' = [req EXCEPT ![c] = NoRequest]

GiveUpOn(c) == Return(c, "ERR") /\ Forget(c) /\ UNCHANGED <<store, polls>>

\* A request is carried out: on to step l, or its answer is lost.
CarriedOut(c, l) ==
  \/ Goto(c, l) /\ UNCHANGED req
  \/ "lost" \in Faults /\ Return(c, "ERR") /\ Forget(c)

\* One more poll, or the wait times out.
PollAgain(c) ==
  /\ NotYet(c)
  /\ IF InProgress(c)' THEN UNCHANGED req ELSE Forget(c)
  /\ UNCHANGED store

\* The answer is given, with b as the capacity.
AnswerBytes(c, b) ==
  /\ Goto(c, "Answer")
  /\ req' = [req EXCEPT ![c].bytes = b]
  /\ UNCHANGED <<store, polls>>

Answer(c) == pc[c] = "Answer" /\ Return(c, "OK") /\ Forget(c) /\ UNCHANGED <<store, polls>>

CrashShares ==
  /\ CrashCalls
  /\ req' = [c \in Calls |-> NoRequest]
  /\ UNCHANGED store

\* The operators named Faulty... are what plausible mistakes would make of the
\* definition that follows them; the properties must catch them.
FaultyOfAnySize(s, n) == TRUE
SameAttributes(s, n) == sizes[s] = n

FaultyAvailableOnly == {s \in ShareIds : shares[s] = "available"}
Listed == Existing

\* The first share of the name in the list decides, the list being in no
\* particular order: l is the step that follows if it is the one asked for.
LookUpName(c, l) ==
  \/ \E s \in Listed :
       /\ SameAttributes(s, req[c].want)
       /\ req' = [req EXCEPT ![c].share = s, ![c].bytes = sizes[s] * GbByteSize]
       /\ Goto(c, l) /\ UNCHANGED <<store, polls>>
  \/ Listed = {} /\ Goto(c, "Create") /\ UNCHANGED <<store, req, polls>>
  \/ /\ (\E s \in Listed : ~SameAttributes(s, req[c].want)) \/ "api" \in Faults
     /\ GiveUpOn(c)

CreateShare(c, l) ==
  /\ pc[c] = "Create"
  /\ \/ \E s \in ShareIds :
          /\ shares[s] = "unborn"
          /\ shares' = [shares EXCEPT ![s] = "creating"]
          /\ sizes' = [sizes EXCEPT ![s] = req[c].want]
          /\ \/ Goto(c, l) /\ req' = [req EXCEPT ![c].share = s]
             \/ "lost" \in Faults /\ Return(c, "ERR") /\ Forget(c)
          /\ UNCHANGED <<driver, goals, subStatus, access, polls>>
     \/ ((\A s \in ShareIds : shares[s] # "unborn") \/ "api" \in Faults) /\ GiveUpOn(c)

\* The cloud deletes a share only when nothing else is done to it.
Idle(s) == shares[s] \in {"available", "error"} /\ goals[s] = 0

AcceptDelete(s) ==
  /\ Idle(s)
  /\ shares' = [shares EXCEPT ![s] = "deleting"]
  /\ UNCHANGED <<driver, sizes, goals, subStatus, access>>

----------------------------------------------------------------------------
(* Steps of the cloud.                                                     *)

CreationEnds(s) ==
  /\ shares[s] = "creating"
  /\ \E st \in {"available"} \cup IF "jobfail" \in Faults THEN {"error"} ELSE {} :
       shares' = [shares EXCEPT ![s] = st]
  /\ UNCHANGED <<driver, sizes, goals, subStatus, access>>

DeletionEnds(s) ==
  /\ shares[s] = "deleting"
  /\ \/ /\ shares' = [shares EXCEPT ![s] = "gone"]
        /\ sizes' = [sizes EXCEPT ![s] = 0]
        /\ subStatus' = [subStatus EXCEPT ![s] = "none"]
        /\ access' = [access EXCEPT ![s] = FALSE]
     \/ /\ "jobfail" \in Faults
        /\ shares' = [shares EXCEPT ![s] = "error"]
        /\ UNCHANGED <<sizes, subStatus, access>>
  /\ UNCHANGED <<driver, goals>>

\* Until an extension starts its sub-status is that of the one before.
ExtensionStarts(s) ==
  /\ goals[s] # 0 /\ subStatus[s] # "expanding"
  /\ subStatus' = [subStatus EXCEPT ![s] = "expanding"]
  /\ UNCHANGED <<driver, shares, sizes, goals, access>>

ExtensionEnds(s) ==
  /\ goals[s] # 0 /\ subStatus[s] = "expanding"
  /\ goals' = [goals EXCEPT ![s] = 0]
  /\ \/ /\ sizes' = [sizes EXCEPT ![s] = goals[s]]
        /\ subStatus' = [subStatus EXCEPT ![s] = "expanded"]
     \/ /\ "jobfail" \in Faults
        /\ subStatus' = [subStatus EXCEPT ![s] = "failed"] /\ UNCHANGED sizes
  /\ UNCHANGED <<driver, shares, access>>

StoreStep(s) ==
  /\ CreationEnds(s) \/ DeletionEnds(s) \/ ExtensionStarts(s) \/ ExtensionEnds(s)
  /\ UNCHANGED <<req, pc, polls, reply>>

----------------------------------------------------------------------------
(* History.                                                                *)

ShareFact == {"made", "ready", "right", "granted", "doomed", "gone", "large"}

\* What is true now of the share of call c.
ShareFacts(c) ==
  LET s == req[c].share  k == req[c].rpc
  IN  {f \in ShareFact :
         /\ s # NoShare
         /\ CASE f = "made" -> pc[c] = "WaitAvailable"
              [] f = "ready" -> k = "create" /\ shares[s] = "available"
              [] f = "right" -> k = "create" /\ s \in Existing /\ sizes[s] = req[c].want
              [] f = "granted" -> k = "create" /\ access[s]
              [] f = "doomed" -> k = "delete" /\ shares[s] \in {"deleting", "gone"}
              [] f = "gone" -> k = "delete" /\ shares[s] = "gone"
              [] f = "large" -> k = "expand" /\ sizes[s] >= req[c].asked}

ShareHistory ==
  witness' = [c \in Calls |->
    IF InProgress(c)' THEN witness[c] \cup ShareFacts(c)' ELSE {}]

----------------------------------------------------------------------------
(* Properties of both drivers.                                             *)

\* Every variable stays in its range.
ShareTypeOK ==
  /\ driver \in {"turbo", "sfs"}
  /\ shares \in [ShareIds -> ShareStatus] /\ subStatus \in [ShareIds -> SubStatus]
  /\ sizes \in [ShareIds -> Nat] /\ goals \in [ShareIds -> Nat]
  /\ access \in [ShareIds -> BOOLEAN]
  /\ req \in [Calls -> [rpc : {"none", "create", "delete", "expand"},
                        share : ShareIds \cup {NoShare}, asked : AskedGiB \cup {0},
                        want : Nat, bytes : Nat]]
  /\ polls \in [Calls -> 0 .. MaxPolls - 1]
  /\ reply \in [Calls -> {"none", "OK", "ERR"}]
  /\ witness \in [Calls -> SUBSET ShareFact]

\* Call c of kind k is about to answer OK.
Answers(c, k) == pc[c] = "Answer" /\ req[c].rpc = k

\* A create call that answers OK names a share that was there during the call with
\* the size asked for; one it made itself was available, and an SFS share had
\* access granted, although other calls may be deleting it meanwhile.
CreateNamesAShare ==
  \A c \in Calls :
    Answers(c, "create") =>
      /\ "right" \in witness[c]
      /\ driver = "turbo" /\ "made" \in witness[c] => "ready" \in witness[c]
      /\ driver = "sfs" => "granted" \in witness[c]

\* A delete call that answers OK saw the share gone (SFS Turbo, which waits for
\* it), or had its deletion set off (SFS).
DeleteFinishes ==
  \A c \in Calls :
    Answers(c, "delete") =>
      IF driver = "turbo" THEN "gone" \in witness[c] ELSE "doomed" \in witness[c]

\* An expand call that answers OK saw the share at least as large as asked for,
\* although the sub-status it waits for may be that of an earlier extension and
\* other expand calls may be at work.
ExpandReachesSize ==
  \A c \in Calls : Answers(c, "expand") => "large" \in witness[c]

\* The calls that have found no share of the name and are about to make one.
AboutToCreate == {c \in Calls : pc[c] = "Create"}

\* However long the CO goes on retrying, the shares of one name and the calls about
\* to make another are never more than the calls that run side by side.
SharesBounded ==
  Cardinality(Existing) + Cardinality(AboutToCreate) <= Cardinality(Calls)
=============================================================================
