------------------------------ MODULE ShareProofs ------------------------------
(* Theorems about the shares of SFS Turbo and SFS: they hold for any number of *)
(* shares and calls, all sizes, every poll limit and every set of faults.      *)
EXTENDS Shares, FiniteSetTheorems, TLAPS

USE DEF InProgress, SameAttributes, Listed, Available, Deleted, HasSize, AfterFound

Point == {"idle", "Answer", "Create", "ListShares", "WaitAvailable", "FindShare", "Delete",
          "WaitDeleted", "GetShare", "Expand", "WaitExpanded", "CheckSize", "CheckExist",
          "WaitOnce", "Grant", "DeleteSfs"}

Requests == [rpc : {"none", "create", "delete", "expand"}, share : ShareIds \cup {NoShare},
             asked : AskedGiB \cup {0}, want : Nat, bytes : Nat]

\* The types of what the cloud keeps, and of what the driver does.
CloudTypeOK ==
  /\ driver \in {"turbo", "sfs"}
  /\ shares \in [ShareIds -> ShareStatus] /\ subStatus \in [ShareIds -> SubStatus]
  /\ sizes \in [ShareIds -> Nat] /\ goals \in [ShareIds -> Nat]
  /\ access \in [ShareIds -> BOOLEAN]

DriverTypeOK ==
  /\ req \in [Calls -> Requests]
  /\ polls \in [Calls -> 0 .. MaxPolls - 1]
  /\ pc \in [Calls -> Point]
  /\ reply \in [Calls -> {"none", "OK", "ERR"}]

StateTypeOK == CloudTypeOK /\ DriverTypeOK

LEMMA NoRequestTyped == NoRequest \in Requests
BY DEF NoRequest, Requests

\* A call that returns keeps the types.
LEMMA ReturnTyping ==
  ASSUME DriverTypeOK, NEW c \in Calls, NEW r \in {"OK", "ERR"},
         Return(c, r), Forget(c), UNCHANGED polls
  PROVE  DriverTypeOK'
BY NoRequestTyped DEF DriverTypeOK, Return, Forget, Point

\* A call that goes on to its next request keeps the types.
LEMMA GotoTyping ==
  ASSUME DriverTypeOK, NEW c \in Calls, NEW l \in Point, Goto(c, l),
         req' \in [Calls -> Requests], UNCHANGED polls
  PROVE  DriverTypeOK'
BY DEF DriverTypeOK, Goto

\* A request that is carried out keeps the types, also when its answer is lost.
LEMMA CarriedOutTyping ==
  ASSUME DriverTypeOK, NEW c \in Calls, NEW l \in Point, CarriedOut(c, l), UNCHANGED polls
  PROVE  DriverTypeOK'
BY ReturnTyping, GotoTyping DEF CarriedOut, DriverTypeOK

\* Another poll, or the time-out of the wait, keeps the types.
LEMMA PollTyping ==
  ASSUME DriverTypeOK, NEW c \in Calls, PollAgain(c)
  PROVE  DriverTypeOK'
<1>1. req' \in [Calls -> Requests]
  <2>1. req' = req \/ Forget(c)
    BY DEF PollAgain
  <2>2. QED BY <2>1, NoRequestTyped DEF Forget, DriverTypeOK
<1>2. CASE Return(c, "ERR") /\ UNCHANGED polls
  BY <1>1, <1>2 DEF DriverTypeOK, Return, Point
<1>3. CASE polls[c] + 1 < MaxPolls /\ polls' = [polls EXCEPT ![c] = @ + 1] /\ UNCHANGED <<pc, reply>>
  <2>1. polls[c] + 1 \in 0 .. MaxPolls - 1
    BY <1>3, MaxPollsAssumption DEF DriverTypeOK
  <2>2. polls' \in [Calls -> 0 .. MaxPolls - 1]
    BY <1>3, <2>1 DEF DriverTypeOK
  <2>3. QED BY <1>1, <1>3, <2>2 DEF DriverTypeOK
<1>4. QED BY <1>2, <1>3 DEF PollAgain, NotYet

\* An answer with a capacity keeps the types.
LEMMA AnswerTyping ==
  ASSUME DriverTypeOK, NEW c \in Calls, NEW b \in Nat, AnswerBytes(c, b)
  PROVE  DriverTypeOK'
<1>1. req' \in [Calls -> Requests]
  BY DEF AnswerBytes, DriverTypeOK, Requests
<1>2. QED BY <1>1, GotoTyping DEF AnswerBytes, Point

\* The cloud's own steps keep the types.
LEMMA StoreTyping ==
  ASSUME StateTypeOK, NEW s \in ShareIds, StoreStep(s)
  PROVE  StateTypeOK'
<1> USE DEF CloudTypeOK, ShareStatus, SubStatus
<1>1. DriverTypeOK'
  BY DEF StoreStep, StateTypeOK, DriverTypeOK
<1>2. CASE CreationEnds(s)
  <2>1. \E st \in ShareStatus : shares' = [shares EXCEPT ![s] = st]
    BY <1>2 DEF CreationEnds
  <2>2. QED BY <1>1, <1>2, <2>1 DEF CreationEnds, StateTypeOK
<1>3. CASE DeletionEnds(s)
  <2>1. \E st \in ShareStatus : shares' = [shares EXCEPT ![s] = st]
    BY <1>3 DEF DeletionEnds
  <2>2. \/ UNCHANGED <<sizes, subStatus, access>>
        \/ /\ sizes' = [sizes EXCEPT ![s] = 0]
           /\ subStatus' = [subStatus EXCEPT ![s] = "none"]
           /\ access' = [access EXCEPT ![s] = FALSE]
    BY <1>3 DEF DeletionEnds
  <2>3. UNCHANGED <<driver, goals>>
    BY <1>3 DEF DeletionEnds
  <2>4. /\ sizes' \in [ShareIds -> Nat]
        /\ access' \in [ShareIds -> BOOLEAN]
        /\ subStatus' \in [ShareIds -> SubStatus]
    <3>1. CASE UNCHANGED <<sizes, subStatus, access>>
      BY <3>1 DEF StateTypeOK
    <3>2. CASE ~UNCHANGED <<sizes, subStatus, access>>
      <4>1. /\ sizes' = [sizes EXCEPT ![s] = 0]
            /\ subStatus' = [subStatus EXCEPT ![s] = "none"]
            /\ access' = [access EXCEPT ![s] = FALSE]
        BY <2>2, <3>2
      <4>2. sizes' \in [ShareIds -> Nat] /\ subStatus' \in [ShareIds -> SubStatus]
        BY <4>1 DEF StateTypeOK
      <4>3. access' \in [ShareIds -> BOOLEAN]
        BY <4>1 DEF StateTypeOK
      <4>4. QED BY <4>2, <4>3
    <3>3. QED BY <3>1, <3>2
  <2>5. shares' \in [ShareIds -> ShareStatus]
    BY <2>1 DEF StateTypeOK
  <2>6. driver' \in {"turbo", "sfs"} /\ goals' \in [ShareIds -> Nat]
    BY <2>3 DEF StateTypeOK
  <2> QED BY <1>1, <2>4, <2>5, <2>6 DEF StateTypeOK
<1>4. CASE ExtensionStarts(s)
  BY <1>1, <1>4 DEF ExtensionStarts, StateTypeOK
<1>5. CASE ExtensionEnds(s)
  BY <1>1, <1>5 DEF ExtensionEnds, StateTypeOK
<1>6. QED BY <1>2, <1>3, <1>4, <1>5 DEF StoreStep

\* The store is left alone: the types of what it keeps stay.
LEMMA SameStore ==
  ASSUME CloudTypeOK, UNCHANGED store
  PROVE  CloudTypeOK'
BY DEF CloudTypeOK, store

\* A call that gives up keeps the types.
LEMMA GiveUpTyping ==
  ASSUME StateTypeOK, NEW c \in Calls, GiveUpOn(c)
  PROVE  StateTypeOK'
BY SameStore, ReturnTyping DEF GiveUpOn, StateTypeOK

\* Every step of the handlers that only reads the cloud keeps the types.
LEMMA ReadTyping ==
  ASSUME StateTypeOK, NEW c \in Calls,
         \/ ListShares(c) \/ CheckExist(c) \/ WaitAvailable(c) \/ FindShare(c) \/ WaitDeleted(c)
         \/ GetShare(c) \/ WaitExpanded(c) \/ CheckSize(c) \/ WaitOnce(c) \/ Answer(c)
  PROVE  StateTypeOK'
<1> USE DEF StateTypeOK
<1>1. ASSUME NEW l \in Point, Goto(c, l), UNCHANGED <<store, req, polls>> PROVE StateTypeOK'
  BY <1>1, SameStore, GotoTyping DEF DriverTypeOK
<1>2. ASSUME NEW b \in Nat, AnswerBytes(c, b) PROVE StateTypeOK'
  BY <1>2, SameStore, AnswerTyping DEF AnswerBytes
<1>3. CASE PollAgain(c)
  BY <1>3, SameStore, PollTyping DEF PollAgain
<1>4. CASE GiveUpOn(c)
  BY <1>4, GiveUpTyping
<1>5. ASSUME NEW l \in Point, LookUpName(c, l) PROVE StateTypeOK'
  <2>1. ASSUME NEW s \in Existing, Goto(c, l), UNCHANGED <<store, polls>>,
               req' = [req EXCEPT ![c].share = s, ![c].bytes = sizes[s] * GbByteSize]
        PROVE  StateTypeOK'
    <3>1. s \in ShareIds /\ sizes[s] * GbByteSize \in Nat
      BY AskedGiBAssumption DEF Existing, CloudTypeOK
    <3>2. req' \in [Calls -> Requests]
      <4>1. req[c] \in Requests
        BY DEF DriverTypeOK
      <4>2. [req[c] EXCEPT !.share = s, !.bytes = sizes[s] * GbByteSize] \in Requests
        BY <3>1, <4>1 DEF Requests
      <4>3. req' = [req EXCEPT ![c] = [req[c] EXCEPT !.share = s, !.bytes = sizes[s] * GbByteSize]]
        BY <2>1, <4>1 DEF DriverTypeOK, Requests
      <4>4. QED BY <4>2, <4>3 DEF DriverTypeOK
    <3>3. QED BY <2>1, <3>2, SameStore, GotoTyping
  <2>2. QED BY <1>1, <1>4, <1>5, <2>1 DEF LookUpName, Point
<1>6. CASE ListShares(c) \/ CheckExist(c)
  BY <1>5, <1>6 DEF ListShares, CheckExist, Point
<1>7. CASE WaitAvailable(c)
  <2>1. req[c].want * GbByteSize \in Nat
    BY AskedGiBAssumption DEF DriverTypeOK, Requests
  <2>2. QED BY <1>2, <1>3, <1>4, <1>7, <2>1 DEF WaitAvailable
<1>8. CASE FindShare(c) \/ WaitDeleted(c)
  BY <1>1, <1>3, <1>4, <1>8 DEF FindShare, WaitDeleted, Point
<1>9. CASE GetShare(c)
  <2>1. ASSUME req[c].share \in Existing,
               AnswerBytes(c, sizes[req[c].share] * GbByteSize)
        PROVE  StateTypeOK'
    <3>1. sizes[req[c].share] * GbByteSize \in Nat
      BY <2>1, AskedGiBAssumption DEF Existing, CloudTypeOK
    <3>2. QED BY <1>2, <2>1, <3>1
  <2>2. ASSUME req[c].share \in Existing, Goto(c, "Expand"), UNCHANGED <<store, polls>>,
               req' = [req EXCEPT ![c].want = Target(sizes[req[c].share], req[c].asked)]
        PROVE  StateTypeOK'
    <3>1. req[c].asked \in Nat /\ sizes[req[c].share] \in Nat
      <4>1. req[c] \in Requests /\ req[c].share \in ShareIds
        BY <2>2 DEF DriverTypeOK, Existing
      <4>2. req[c].asked \in AskedGiB \cup {0}
        BY <4>1 DEF Requests
      <4>3. sizes[req[c].share] \in Nat
        BY <4>1 DEF CloudTypeOK
      <4>4. \A n \in AskedGiB \cup {0} : n \in Nat
        BY AskedGiBAssumption
      <4>5. QED BY <4>2, <4>3, <4>4
    <3>2. Target(sizes[req[c].share], req[c].asked) \in Nat
      BY <3>1, GiBAssumption DEF Target
    <3>3. req' \in [Calls -> Requests]
      BY <2>2, <3>2 DEF DriverTypeOK, Requests
    <3>4. QED BY <2>2, <3>3, SameStore, GotoTyping DEF Point
  <2>3. QED BY <1>4, <1>9, <2>1, <2>2 DEF GetShare
<1>10. CASE WaitExpanded(c)
  BY <1>1, <1>3, <1>4, <1>10 DEF WaitExpanded, Point
<1>11. CASE CheckSize(c)
  <2>1. req[c].want \in Nat
    BY DEF DriverTypeOK, Requests
  <2>2. QED BY <1>2, <1>4, <1>11, <2>1 DEF CheckSize
<1>12. CASE WaitOnce(c)
  BY <1>1, <1>4, <1>12 DEF WaitOnce, Point
<1>13. CASE Answer(c)
  BY <1>13, SameStore, ReturnTyping DEF Answer
<1>14. QED BY <1>6, <1>7, <1>8, <1>9, <1>10, <1>11, <1>12, <1>13

\* Every request that the cloud carries out keeps the types.
LEMMA WriteTyping ==
  ASSUME StateTypeOK, NEW c \in Calls,
         \/ CreateShare(c, "WaitAvailable") \/ CreateShare(c, "WaitOnce")
         \/ TurboDelete(c) \/ Expand(c) \/ Grant(c) \/ DeleteSfs(c)
  PROVE  StateTypeOK'
<1> USE DEF StateTypeOK
<1>1. ASSUME NEW s, AcceptDelete(s) PROVE CloudTypeOK'
  BY <1>1 DEF AcceptDelete, CloudTypeOK, ShareStatus
<1>2. ASSUME NEW l \in {"WaitAvailable", "WaitOnce"}, CreateShare(c, l) PROVE StateTypeOK'
  <2>1. ASSUME NEW s \in ShareIds,
               shares' = [shares EXCEPT ![s] = "creating"],
               sizes' = [sizes EXCEPT ![s] = req[c].want],
               UNCHANGED <<driver, goals, subStatus, access, polls>>,
               \/ Goto(c, l) /\ req' = [req EXCEPT ![c].share = s]
               \/ Return(c, "ERR") /\ Forget(c)
        PROVE  StateTypeOK'
    <3>1. req[c].want \in Nat
      BY DEF DriverTypeOK, Requests
    <3>2. shares' \in [ShareIds -> ShareStatus] /\ sizes' \in [ShareIds -> Nat]
      BY <2>1, <3>1 DEF CloudTypeOK, ShareStatus
    <3>3. CloudTypeOK'
      BY <2>1, <3>2 DEF CloudTypeOK
    <3>4. req' = [req EXCEPT ![c].share = s] => req' \in [Calls -> Requests]
      BY DEF DriverTypeOK, Requests
    <3>5. QED BY <2>1, <3>3, <3>4, GotoTyping, ReturnTyping DEF Point
  <2>2. QED BY <1>2, <2>1, GiveUpTyping DEF CreateShare
<1>3. CASE TurboDelete(c)
  BY <1>1, <1>3, CarriedOutTyping, GiveUpTyping DEF TurboDelete, Point
<1>4. CASE Expand(c)
  <2>1. ASSUME goals' = [goals EXCEPT ![req[c].share] = req[c].want],
               UNCHANGED <<driver, shares, sizes, subStatus, access>>
        PROVE  CloudTypeOK'
    <3>1. req[c].want \in Nat
      BY DEF DriverTypeOK, Requests
    <3>2. QED BY <2>1, <3>1 DEF CloudTypeOK
  <2>2. QED BY <1>4, <2>1, CarriedOutTyping, GiveUpTyping DEF Expand, Point
<1>5. CASE Grant(c)
  <2>1. ASSUME access' = [access EXCEPT ![req[c].share] = TRUE],
               UNCHANGED <<driver, shares, sizes, goals, subStatus>>
        PROVE  CloudTypeOK'
    BY <2>1 DEF CloudTypeOK
  <2>2. ASSUME req' = [req EXCEPT ![c].bytes = req[c].want * GbByteSize]
        PROVE  req' \in [Calls -> Requests]
    <3>1. req[c] \in Requests /\ req[c].want * GbByteSize \in Nat
      BY AskedGiBAssumption DEF DriverTypeOK, Requests
    <3>2. [req[c] EXCEPT !.bytes = req[c].want * GbByteSize] \in Requests
      BY <3>1 DEF Requests
    <3>3. req' = [req EXCEPT ![c] = [req[c] EXCEPT !.bytes = req[c].want * GbByteSize]]
      BY <2>2, <3>1 DEF DriverTypeOK, Requests
    <3>4. QED BY <3>2, <3>3 DEF DriverTypeOK
  <2>3. QED BY <1>5, <2>1, <2>2, GotoTyping, ReturnTyping, GiveUpTyping DEF Grant, Point
<1>6. CASE DeleteSfs(c)
  <2>1. ASSUME Goto(c, "Answer"), UNCHANGED <<store, req, polls>> PROVE StateTypeOK'
    BY <2>1, SameStore, GotoTyping DEF DriverTypeOK, Point
  <2>2. QED BY <1>1, <1>6, <2>1, CarriedOutTyping, GiveUpTyping DEF DeleteSfs, Point
<1>7. QED BY <1>2, <1>3, <1>4, <1>5, <1>6

\* A new call of the CO keeps the types.
LEMMA BeginTyping ==
  ASSUME StateTypeOK, NEW c \in Calls, TurboStart(c) \/ SfsStart(c)
  PROVE  StateTypeOK'
<1>1. ASSUME NEW r \in Requests, NEW l \in Point, BeginShareCall(c, r, l) PROVE StateTypeOK'
  BY <1>1, SameStore, MaxPollsAssumption DEF BeginShareCall, Enter, StateTypeOK, DriverTypeOK
<1>2. ASSUME NEW n \in AskedGiB, BeginTurboCreate(c, n) \/ BeginSfsCreate(c, n) PROVE StateTypeOK'
  <2>1. n \in Nat /\ (IF n < MinGiB THEN MinGiB ELSE n) \in Nat /\ (IF n = 0 THEN 10 ELSE n) \in Nat
    BY AskedGiBAssumption, GiBAssumption
  <2>2. \A w \in Nat : [NoRequest EXCEPT !.rpc = "create", !.asked = n, !.want = w] \in Requests
    BY DEF NoRequest, Requests
  <2>3. QED BY <1>1, <1>2, <2>1, <2>2 DEF BeginTurboCreate, BeginSfsCreate, Point
<1>3. ASSUME NEW s \in ShareIds, BeginTurboDelete(c, s) \/ BeginSfsDelete(c, s) PROVE StateTypeOK'
  <2>1. [NoRequest EXCEPT !.rpc = "delete", !.share = s] \in Requests
    BY DEF NoRequest, Requests
  <2>2. QED BY <1>1, <1>3, <2>1 DEF BeginTurboDelete, BeginSfsDelete, Point
<1>4. ASSUME NEW s \in ShareIds, NEW n \in AskedGiB, BeginTurboExpand(c, s, n) PROVE StateTypeOK'
  <2>1. [NoRequest EXCEPT !.rpc = "expand", !.share = s, !.asked = n] \in Requests
    BY DEF NoRequest, Requests
  <2>2. QED BY <1>1, <1>4, <2>1 DEF BeginTurboExpand, Point
<1>5. QED BY <1>2, <1>3, <1>4 DEF TurboStart, SfsStart

\* A crash of the driver keeps the types.
LEMMA CrashTyping ==
  ASSUME StateTypeOK, CrashShares
  PROVE  StateTypeOK'
BY SameStore, NoRequestTyped DEF CrashShares, CrashCalls, StateTypeOK, DriverTypeOK, Point

\* The steps of both drivers and of the cloud, by what they are.
ShareStart(c) == TurboStart(c) \/ SfsStart(c)
ShareHandle(c) == TurboHandle(c) \/ SfsHandle(c)

\* A step is one of a call, of the cloud or of a crash, and is remembered.
LEMMA ShareSteps ==
  ASSUME ShareNext
  PROVE  /\ UNCHANGED regrant /\ ShareHistory
         /\ \/ \E c \in Calls : ShareStart(c) \/ ShareHandle(c)
            \/ \E s \in ShareIds : StoreStep(s)
            \/ CrashShares
BY DEF ShareNext, TurboNext, SfsNext, ShareStart, ShareHandle

\* Every variable stays in its range.
AllTypeOK == StateTypeOK /\ witness \in [Calls -> SUBSET ShareFact]

\* Every variable stays in its range, pc included.
LEMMA TypesHold == ShareSpec => []AllTypeOK
<1>1. ShareInit => AllTypeOK
  BY NoRequestTyped, MaxPollsAssumption
     DEF ShareInit, NoCalls, AllTypeOK, StateTypeOK, CloudTypeOK, DriverTypeOK, Point,
         ShareStatus, SubStatus
<1>2. AllTypeOK /\ [ShareNext]_<<shareVars, regrant>> => AllTypeOK'
  <2> SUFFICES ASSUME AllTypeOK, [ShareNext]_<<shareVars, regrant>> PROVE AllTypeOK'
    OBVIOUS
  <2> USE DEF AllTypeOK
  <2>1. CASE ShareNext
    <3>1. witness' \in [Calls -> SUBSET ShareFact]
      BY <2>1, ShareSteps DEF ShareHistory, ShareFacts
    <3>2. ASSUME NEW c \in Calls, ShareHandle(c) PROVE StateTypeOK'
      BY <3>2, ReadTyping, WriteTyping
         DEF ShareHandle, TurboHandle, CreateTurbo, DeleteTurbo, ExpandTurbo, SfsHandle, CreateSfs
    <3>3. QED BY <2>1, <3>1, <3>2, ShareSteps, BeginTyping, StoreTyping, CrashTyping DEF ShareStart
  <2>2. CASE UNCHANGED <<shareVars, regrant>>
    BY <2>2 DEF shareVars, store, StateTypeOK, CloudTypeOK, DriverTypeOK
  <2>3. QED BY <2>1, <2>2
<1>3. QED BY <1>1, <1>2, PTL DEF ShareSpec

\* Every variable of the two drivers and of their cloud stays in its range.
THEOREM TypeCorrect == ShareSpec => []ShareTypeOK
<1>1. AllTypeOK => ShareTypeOK
  BY DEF AllTypeOK, StateTypeOK, CloudTypeOK, DriverTypeOK, Requests, ShareTypeOK
<1>2. QED BY <1>1, TypesHold, PTL

----------------------------------------------------------------------------
(* What a successful answer says.                                          *)

Named(c) == req[c].share \in ShareIds /\ shares[req[c].share] # "unborn"
Rpc(c, k) == req[c].rpc = k

\* What the next request of a call, or its answer, tells of its share: the three
\* properties about answers, carried back to the requests before them.
Knows(c) ==
  /\ pc[c] = "idle" => witness[c] = {}
  /\ pc[c] \in {"ListShares", "CheckExist", "Create"} =>
       Rpc(c, "create") /\ "made" \notin witness[c]
  /\ pc[c] \in {"WaitAvailable", "WaitOnce", "Grant"} =>
       Rpc(c, "create") /\ Named(c) /\ "right" \in witness[c]
  /\ pc[c] \in {"FindShare", "Delete", "WaitDeleted", "DeleteSfs"} =>
       Rpc(c, "delete") /\ Named(c)
  /\ pc[c] \in {"GetShare", "Expand", "WaitExpanded", "CheckSize"} =>
       Rpc(c, "expand") /\ Named(c)
  /\ pc[c] \in {"Expand", "WaitExpanded", "CheckSize"} => req[c].want >= req[c].asked
  /\ Answers(c, "create") =>
       /\ "right" \in witness[c]
       /\ driver = "turbo" /\ "made" \in witness[c] => "ready" \in witness[c]
       /\ driver = "sfs" => "granted" \in witness[c]
  /\ Answers(c, "delete") =>
       IF driver = "turbo" THEN "gone" \in witness[c] ELSE "doomed" \in witness[c]
  /\ Answers(c, "expand") => "large" \in witness[c]

\* Shares that were born stay born, and call d and the driver are not touched.
StaysBorn == \A s \in ShareIds : shares[s] # "unborn" => shares'[s] # "unborn"
Unmoved(d) == UNCHANGED <<pc[d], req[d], driver>>

\* What is true of the share of a call in progress is remembered.
LEMMA Remembered ==
  ASSUME ShareHistory, NEW c \in Calls, pc'[c] # "idle"
  PROVE  LET s == req'[c].share
         IN  /\ witness[c] \subseteq witness'[c]
             /\ pc'[c] # "WaitAvailable" /\ "made" \notin witness[c] => "made" \notin witness'[c]
             /\ s \in ShareIds =>
                  /\ req'[c].rpc = "create" /\ shares'[s] = "available" => "ready" \in witness'[c]
                  /\ req'[c].rpc = "create" /\ s \in Existing' /\ sizes'[s] = req'[c].want =>
                       "right" \in witness'[c]
                  /\ req'[c].rpc = "create" /\ access'[s] => "granted" \in witness'[c]
                  /\ req'[c].rpc = "delete" /\ shares'[s] \in {"deleting", "gone"} =>
                       "doomed" \in witness'[c]
                  /\ req'[c].rpc = "delete" /\ shares'[s] = "gone" => "gone" \in witness'[c]
                  /\ req'[c].rpc = "expand" /\ sizes'[s] >= req'[c].asked =>
                       "large" \in witness'[c]
<1> DEFINE s == req'[c].share
<1>1. witness'[c] = witness[c] \cup ShareFacts(c)'
  BY DEF ShareHistory
<1>2. pc'[c] # "WaitAvailable" => "made" \notin ShareFacts(c)'
  BY DEF ShareFacts
<1>3. ASSUME s \in ShareIds
      PROVE  /\ req'[c].rpc = "create" /\ shares'[s] = "available" => "ready" \in ShareFacts(c)'
             /\ req'[c].rpc = "create" /\ s \in Existing' /\ sizes'[s] = req'[c].want =>
                  "right" \in ShareFacts(c)'
             /\ req'[c].rpc = "create" /\ access'[s] => "granted" \in ShareFacts(c)'
             /\ req'[c].rpc = "delete" /\ shares'[s] \in {"deleting", "gone"} =>
                  "doomed" \in ShareFacts(c)'
             /\ req'[c].rpc = "delete" /\ shares'[s] = "gone" => "gone" \in ShareFacts(c)'
             /\ req'[c].rpc = "expand" /\ sizes'[s] >= req'[c].asked => "large" \in ShareFacts(c)'
  BY <1>3, ShareIdsAssumption DEF ShareFacts, ShareFact
<1>4. QED BY <1>1, <1>2, <1>3

\* A call that takes no step keeps what it knows.
LEMMA UnmovedKnows ==
  ASSUME NEW d \in Calls, Knows(d), ShareHistory, StaysBorn, Unmoved(d)
  PROVE  Knows(d)'
<1>1. CASE pc[d] = "idle"
  <2>1. witness'[d] = {}
    BY <1>1 DEF ShareHistory, Unmoved
  <2>2. QED BY <1>1, <2>1 DEF Knows, Unmoved, Answers
<1>2. CASE pc[d] # "idle"
  <2>1. Named(d) => Named(d)'
    BY DEF Named, Unmoved, StaysBorn
  <2>2. /\ witness[d] \subseteq witness'[d]
        /\ pc[d] # "WaitAvailable" /\ "made" \notin witness[d] => "made" \notin witness'[d]
    BY <1>2, Remembered DEF Unmoved
  <2>3. QED BY <1>2, <2>1, <2>2 DEF Knows, Unmoved, Answers, Rpc
<1>3. QED BY <1>1, <1>2

\* A call that ends claims nothing and forgets what it saw.
LEMMA IdleKnows ==
  ASSUME NEW c \in Calls, pc'[c] = "idle", ShareHistory
  PROVE  Knows(c)'
<1>1. witness'[c] = {}
  BY DEF ShareHistory
<1>2. QED BY <1>1 DEF Knows, Answers

\* A call that gives up or answers has ended.
LEMMA EndKnows ==
  ASSUME AllTypeOK, NEW c \in Calls, ShareHistory,
         GiveUpOn(c) \/ Answer(c) \/ (\E r : Return(c, r))
  PROVE  Knows(c)'
BY IdleKnows DEF GiveUpOn, Answer, Return, AllTypeOK, StateTypeOK, DriverTypeOK

\* Another poll tells nothing.
LEMMA PollKnows ==
  ASSUME AllTypeOK, NEW c \in Calls, Knows(c), PollAgain(c), ShareHistory
  PROVE  Knows(c)'
<1>1. CASE pc'[c] = "idle"
  BY <1>1, IdleKnows
<1>2. CASE pc'[c] # "idle"
  <2>1. UNCHANGED pc /\ UNCHANGED req /\ UNCHANGED store
    BY <1>2 DEF PollAgain, NotYet, Return, AllTypeOK, StateTypeOK, DriverTypeOK
  <2>2. Unmoved(c) /\ StaysBorn
    BY <2>1 DEF Unmoved, StaysBorn, store
  <2>3. QED BY <2>2, UnmovedKnows
<1>3. QED BY <1>1, <1>2

\* The next request of a call is the one it went on to.
LEMMA GoneTo ==
  ASSUME AllTypeOK, NEW c \in Calls, NEW l, Goto(c, l)
  PROVE  pc'[c] = l
BY DEF Goto, AllTypeOK, StateTypeOK, DriverTypeOK

\* Looking for the name: a share found is one of the size asked for.
LEMMA LookUpKnows ==
  ASSUME AllTypeOK, NEW c \in Calls, Knows(c), pc[c] \in {"ListShares", "CheckExist"},
         NEW l, \/ l = "Answer" /\ driver = "turbo"
                \/ l = "Grant" /\ driver = "sfs",
         LookUpName(c, l), ShareHistory
  PROVE  Knows(c)'
<1>1. Rpc(c, "create") /\ "made" \notin witness[c]
  BY DEF Knows
<1>2. ASSUME NEW s \in Existing, sizes[s] = req[c].want, Goto(c, l), UNCHANGED <<store, polls>>,
             req' = [req EXCEPT ![c].share = s, ![c].bytes = sizes[s] * GbByteSize]
      PROVE  Knows(c)'
  <2>1. /\ req'[c].share = s /\ req'[c].rpc = "create" /\ req'[c].want = req[c].want
    BY <1>1, <1>2 DEF Rpc, AllTypeOK, StateTypeOK, DriverTypeOK, Requests
  <2>2. pc'[c] = l
    BY <1>2, GoneTo
  <2>3. s \in ShareIds /\ s \in Existing' /\ shares'[s] # "unborn" /\ sizes'[s] = req'[c].want
    BY <1>2, <2>1 DEF Existing, store
  <2>4. "right" \in witness'[c] /\ "made" \notin witness'[c]
    BY <1>1, <2>1, <2>2, <2>3, Remembered
  <2>5. driver' = driver
    BY <1>2 DEF store
  <2>6. QED BY <2>1, <2>2, <2>3, <2>4, <2>5 DEF Knows, Answers, Named, Rpc
<1>3. CASE Goto(c, "Create") /\ UNCHANGED <<store, req, polls>>
  <2>1. pc'[c] = "Create"
    BY <1>3, GoneTo
  <2>2. "made" \notin witness'[c]
    BY <1>1, <2>1, Remembered
  <2>3. QED BY <1>1, <1>3, <2>1, <2>2 DEF Knows, Answers, Rpc
<1>4. QED BY <1>2, <1>3, EndKnows DEF LookUpName

\* A share just made has the size asked for.
LEMMA CreateKnows ==
  ASSUME AllTypeOK, NEW c \in Calls, Knows(c), NEW l \in {"WaitAvailable", "WaitOnce"},
         CreateShare(c, l), ShareHistory
  PROVE  Knows(c)'
<1>1. Rpc(c, "create")
  BY DEF CreateShare, Knows
<1>2. ASSUME NEW s \in ShareIds, shares' = [shares EXCEPT ![s] = "creating"],
             sizes' = [sizes EXCEPT ![s] = req[c].want],
             Goto(c, l), req' = [req EXCEPT ![c].share = s]
      PROVE  Knows(c)'
  <2>1. req'[c].share = s /\ req'[c].rpc = "create" /\ req'[c].want = req[c].want
    BY <1>1, <1>2 DEF Rpc, AllTypeOK, StateTypeOK, DriverTypeOK, Requests
  <2>2. pc'[c] = l
    BY <1>2, GoneTo
  <2>3. shares'[s] = "creating" /\ sizes'[s] = req'[c].want
    BY <1>2, <2>1 DEF AllTypeOK, StateTypeOK, CloudTypeOK
  <2>4. s \in Existing'
    BY <2>3 DEF Existing
  <2>5. "right" \in witness'[c]
    BY <2>1, <2>2, <2>3, <2>4, Remembered
  <2>6. QED BY <2>1, <2>2, <2>3, <2>5 DEF Knows, Answers, Named, Rpc
<1>3. QED BY <1>2, EndKnows DEF CreateShare

\* The waits for a new share go on only to one that is available.
LEMMA WaitKnows ==
  ASSUME AllTypeOK, NEW c \in Calls, Knows(c), ShareHistory,
         \/ driver = "turbo" /\ WaitAvailable(c)
         \/ driver = "sfs" /\ WaitOnce(c)
  PROVE  Knows(c)'
<1> DEFINE s == req[c].share
<1>1. Rpc(c, "create") /\ Named(c) /\ "right" \in witness[c]
  BY DEF WaitAvailable, WaitOnce, Knows
<1>2. ASSUME driver = "turbo", shares[s] = "available", AnswerBytes(c, req[c].want * GbByteSize)
      PROVE  Knows(c)'
  <2>1. req'[c].share = s /\ req'[c].rpc = "create"
    BY <1>1, <1>2 DEF AnswerBytes, Rpc, AllTypeOK, StateTypeOK, DriverTypeOK, Requests
  <2>2. pc'[c] = "Answer"
    BY <1>2, GoneTo DEF AnswerBytes
  <2>3. shares'[s] = "available" /\ driver' = "turbo"
    BY <1>2 DEF AnswerBytes, store
  <2>4. "ready" \in witness'[c] /\ "right" \in witness'[c]
    BY <1>1, <2>1, <2>2, <2>3, Remembered DEF Named
  <2>5. QED BY <2>1, <2>2, <2>3, <2>4 DEF Knows, Answers, Rpc
<1>3. ASSUME Goto(c, "Grant"), UNCHANGED <<store, req>>
      PROVE  Knows(c)'
  <2>1. pc'[c] = "Grant"
    BY <1>3, GoneTo
  <2>2. "right" \in witness'[c]
    BY <1>1, <2>1, Remembered
  <2>3. QED BY <1>1, <1>3, <2>1, <2>2 DEF Knows, Answers, Named, Rpc, store
<1>4. QED BY <1>2, <1>3, PollKnows, EndKnows DEF WaitAvailable, WaitOnce

\* Access is granted to the share of the call.
LEMMA GrantKnows ==
  ASSUME AllTypeOK, NEW c \in Calls, Knows(c), driver = "sfs", Grant(c), ShareHistory
  PROVE  Knows(c)'
<1> DEFINE s == req[c].share
<1>1. Rpc(c, "create") /\ Named(c) /\ "right" \in witness[c]
  BY DEF Grant, Knows
<1>2. ASSUME access' = [access EXCEPT ![s] = TRUE], Goto(c, "Answer"), UNCHANGED driver,
             req' = [req EXCEPT ![c].bytes = req[c].want * GbByteSize]
      PROVE  Knows(c)'
  <2>1. pc'[c] = "Answer"
    BY <1>2, GoneTo
  <2>2. access'[s]
    BY <1>1, <1>2 DEF Named, AllTypeOK, StateTypeOK, CloudTypeOK
  <2>3. req'[c].rpc = "create" /\ req'[c].share = s
    BY <1>1, <1>2 DEF Rpc, AllTypeOK, StateTypeOK, DriverTypeOK, Requests
  <2>4. "right" \in witness'[c] /\ "granted" \in witness'[c]
    BY <1>1, <2>1, <2>2, <2>3, Remembered DEF Named
  <2>5. QED BY <1>1, <1>2, <2>1, <2>3, <2>4 DEF Knows, Answers, Rpc
<1>3. QED BY <1>2, EndKnows DEF Grant

\* A delete call answers OK when the share is gone, or, for SFS, when its deletion
\* was set off.
LEMMA DeleteKnows ==
  ASSUME AllTypeOK, NEW c \in Calls, Knows(c), ShareHistory,
         \/ driver = "turbo" /\ (FindShare(c) \/ TurboDelete(c) \/ WaitDeleted(c))
         \/ driver = "sfs" /\ DeleteSfs(c)
  PROVE  Knows(c)'
<1> DEFINE s == req[c].share
<1>1. Rpc(c, "delete") /\ Named(c)
  BY DEF FindShare, TurboDelete, WaitDeleted, DeleteSfs, Knows
<1>2. ASSUME s \notin Existing, Goto(c, "Answer"), UNCHANGED <<store, req>>
      PROVE  Knows(c)'
  <2>1. pc'[c] = "Answer"
    BY <1>2, GoneTo
  <2>2. shares'[s] = "gone"
    BY <1>1, <1>2 DEF Existing, Named, store
  <2>3. "gone" \in witness'[c] /\ "doomed" \in witness'[c]
    BY <1>1, <1>2, <2>1, <2>2, Remembered DEF Rpc, Named
  <2>4. QED BY <1>1, <1>2, <2>1, <2>3 DEF Knows, Answers, Rpc
<1>3. ASSUME NEW l \in {"Delete", "WaitDeleted"}, Goto(c, l), UNCHANGED req,
             UNCHANGED store \/ AcceptDelete(s)
      PROVE  Knows(c)'
  <2>1. pc'[c] = l
    BY <1>3, GoneTo
  <2>2. Named(c)'
    BY <1>1, <1>3 DEF AcceptDelete, Named, store, AllTypeOK, StateTypeOK, CloudTypeOK
  <2>3. QED BY <1>1, <1>3, <2>1, <2>2 DEF Knows, Answers, Rpc
<1>4. ASSUME AcceptDelete(s), Goto(c, "Answer"), UNCHANGED req, driver = "sfs"
      PROVE  Knows(c)'
  <2>1. pc'[c] = "Answer"
    BY <1>4, GoneTo
  <2>2. shares'[s] = "deleting" /\ driver' = "sfs"
    BY <1>1, <1>4 DEF AcceptDelete, Named, AllTypeOK, StateTypeOK, CloudTypeOK
  <2>3. "doomed" \in witness'[c]
    BY <1>1, <1>4, <2>1, <2>2, Remembered DEF Rpc, Named
  <2>4. QED BY <1>1, <1>4, <2>1, <2>2, <2>3 DEF Knows, Answers, Rpc
<1>5. CASE FindShare(c)
  BY <1>2, <1>3, <1>5, EndKnows DEF FindShare
<1>6. CASE TurboDelete(c)
  BY <1>3, <1>6, EndKnows DEF TurboDelete, CarriedOut
<1>7. CASE WaitDeleted(c)
  BY <1>2, <1>7, PollKnows, EndKnows DEF WaitDeleted
<1>8. CASE driver = "sfs" /\ DeleteSfs(c)
  BY <1>2, <1>4, <1>8, EndKnows DEF DeleteSfs, CarriedOut
<1>9. QED BY <1>5, <1>6, <1>7, <1>8

\* An expand call asks for as much as the CO did at least, and answers OK only
\* when the share is as large as it asked for.
LEMMA ExpandKnows ==
  ASSUME AllTypeOK, NEW c \in Calls, Knows(c), ShareHistory,
         GetShare(c) \/ Expand(c) \/ WaitExpanded(c) \/ CheckSize(c)
  PROVE  Knows(c)'
<1> DEFINE s == req[c].share
<1>1. Rpc(c, "expand") /\ Named(c)
  BY DEF GetShare, Expand, WaitExpanded, CheckSize, Knows
<1>2. /\ req[c].asked \in Nat /\ req[c].want \in Nat /\ sizes[s] \in Nat
  <2>1. req[c] \in Requests
    BY DEF AllTypeOK, StateTypeOK, DriverTypeOK
  <2>2. req[c].asked \in AskedGiB \cup {0} /\ req[c].want \in Nat
    BY <2>1 DEF Requests
  <2>3. \A n \in AskedGiB \cup {0} : n \in Nat
    BY AskedGiBAssumption
  <2>4. sizes[s] \in Nat
    BY <1>1 DEF Named, AllTypeOK, StateTypeOK, CloudTypeOK
  <2>5. QED BY <2>2, <2>3, <2>4
<1>3. ASSUME NEW b, AnswerBytes(c, b), sizes[s] >= req[c].asked
      PROVE  Knows(c)'
  <2>1. req'[c].share = s /\ req'[c].rpc = "expand" /\ req'[c].asked = req[c].asked
    BY <1>1, <1>3 DEF AnswerBytes, Rpc, AllTypeOK, StateTypeOK, DriverTypeOK, Requests
  <2>2. pc'[c] = "Answer"
    BY <1>3, GoneTo DEF AnswerBytes
  <2>3. sizes'[s] >= req'[c].asked
    BY <1>3, <2>1 DEF AnswerBytes, store
  <2>4. "large" \in witness'[c]
    BY <1>1, <2>1, <2>2, <2>3, Remembered DEF Named
  <2>5. QED BY <2>1, <2>2, <2>4 DEF Knows, Answers, Rpc
<1>4. ASSUME NEW l \in {"Expand", "WaitExpanded", "CheckSize"}, Goto(c, l),
             req'[c].share = s, req'[c].rpc = "expand", req'[c].want >= req'[c].asked,
             shares' = shares
      PROVE  Knows(c)'
  <2>1. pc'[c] = l
    BY <1>4, GoneTo
  <2>2. QED BY <1>1, <1>4, <2>1 DEF Knows, Answers, Named, Rpc
<1>5. CASE GetShare(c)
  <2>1. ASSUME sizes[s] < req[c].asked, Goto(c, "Expand"), UNCHANGED <<store, polls>>,
               req' = [req EXCEPT ![c].want = Target(sizes[s], req[c].asked)]
        PROVE  Knows(c)'
    <3>1. Target(sizes[s], req[c].asked) >= req[c].asked
      BY <1>2, <2>1, GiBAssumption DEF Target
    <3>2. /\ req'[c].share = s /\ req'[c].rpc = "expand" /\ req'[c].asked = req[c].asked
          /\ req'[c].want = Target(sizes[s], req[c].asked)
      BY <1>1, <2>1 DEF Rpc, AllTypeOK, StateTypeOK, DriverTypeOK, Requests
    <3>3. QED BY <1>4, <2>1, <3>1, <3>2 DEF store
  <2>2. QED BY <1>3, <1>5, <2>1, EndKnows DEF GetShare
<1>6. CASE Expand(c)
  <2>1. req[c].want >= req[c].asked
    BY <1>6 DEF Expand, Knows
  <2>2. QED BY <1>1, <1>4, <1>6, <2>1, EndKnows DEF Expand, CarriedOut, Rpc
<1>7. CASE WaitExpanded(c)
  <2>1. req[c].want >= req[c].asked
    BY <1>7 DEF WaitExpanded, Knows
  <2>2. QED BY <1>1, <1>4, <1>7, <2>1, PollKnows, EndKnows DEF WaitExpanded, Rpc, store
<1>8. CASE CheckSize(c)
  <2>1. req[c].want >= req[c].asked
    BY <1>8 DEF CheckSize, Knows
  <2>2. HasSize(s, req[c].want) => sizes[s] >= req[c].asked
    BY <1>2, <2>1
  <2>3. QED BY <1>3, <1>8, <2>2, EndKnows DEF CheckSize
<1>9. QED BY <1>5, <1>6, <1>7, <1>8

\* A new call has seen nothing yet.
LEMMA StartKnows ==
  ASSUME AllTypeOK, NEW c \in Calls, Knows(c), ShareStart(c), ShareHistory
  PROVE  Knows(c)'
<1>1. ASSUME NEW r \in Requests, NEW l, BeginShareCall(c, r, l)
      PROVE  ~InProgress(c) /\ pc'[c] = l /\ req'[c] = r /\ UNCHANGED store
  BY <1>1 DEF BeginShareCall, Enter, AllTypeOK, StateTypeOK, DriverTypeOK
<1>2. ASSUME NEW n \in AskedGiB, BeginTurboCreate(c, n) \/ BeginSfsCreate(c, n) PROVE Knows(c)'
  <2>1. \E w \in Nat : \E l \in {"ListShares", "CheckExist"} :
          BeginShareCall(c, [NoRequest EXCEPT !.rpc = "create", !.asked = n, !.want = w], l)
    <3>1. (IF n < MinGiB THEN MinGiB ELSE n) \in Nat /\ (IF n = 0 THEN 10 ELSE n) \in Nat
      BY AskedGiBAssumption, GiBAssumption
    <3>2. QED BY <1>2, <3>1 DEF BeginTurboCreate, BeginSfsCreate
  <2>2. PICK w \in Nat, l \in {"ListShares", "CheckExist"} :
          BeginShareCall(c, [NoRequest EXCEPT !.rpc = "create", !.asked = n, !.want = w], l)
    BY <2>1
  <2> DEFINE r == [NoRequest EXCEPT !.rpc = "create", !.asked = n, !.want = w]
  <2>3. r \in Requests /\ r.rpc = "create"
    BY DEF NoRequest, Requests
  <2>4. ~InProgress(c) /\ pc'[c] = l /\ req'[c].rpc = "create"
    BY <1>1, <2>2, <2>3
  <2>5. "made" \notin witness'[c]
    BY <2>4, Remembered DEF Knows
  <2>6. QED BY <2>4, <2>5 DEF Knows, Answers, Rpc
<1>3. ASSUME NEW s \in ShareIds, BeginTurboDelete(c, s) \/ BeginSfsDelete(c, s) PROVE Knows(c)'
  <2> DEFINE r == [NoRequest EXCEPT !.rpc = "delete", !.share = s]
  <2>1. r \in Requests /\ r.rpc = "delete" /\ r.share = s
    BY DEF NoRequest, Requests
  <2>2. PICK l \in {"FindShare", "DeleteSfs"} : BeginShareCall(c, r, l)
    BY <1>3 DEF BeginTurboDelete, BeginSfsDelete
  <2>3. pc'[c] = l /\ req'[c] = r /\ shares' = shares
    BY <1>1, <2>1, <2>2 DEF store
  <2>4. shares[s] # "unborn"
    BY <1>3 DEF BeginTurboDelete, BeginSfsDelete
  <2>5. QED BY <2>1, <2>3, <2>4 DEF Knows, Named, Answers, Rpc
<1>4. ASSUME NEW s \in ShareIds, NEW n \in AskedGiB, BeginTurboExpand(c, s, n) PROVE Knows(c)'
  <2> DEFINE r == [NoRequest EXCEPT !.rpc = "expand", !.share = s, !.asked = n]
  <2>1. r \in Requests /\ r.rpc = "expand" /\ r.share = s
    BY DEF NoRequest, Requests
  <2>2. BeginShareCall(c, r, "GetShare")
    BY <1>4 DEF BeginTurboExpand
  <2>3. pc'[c] = "GetShare" /\ req'[c] = r /\ shares' = shares
    BY <1>1, <2>1, <2>2 DEF store
  <2>4. shares[s] # "unborn"
    BY <1>4 DEF BeginTurboExpand
  <2>5. QED BY <2>1, <2>3, <2>4 DEF Knows, Named, Answers, Rpc
<1>5. QED BY <1>2, <1>3, <1>4 DEF ShareStart, TurboStart, SfsStart

\* What a step of one call leaves alone.
LEMMA OthersUnmoved ==
  ASSUME AllTypeOK, NEW c \in Calls, ShareStart(c) \/ ShareHandle(c)
  PROVE  StaysBorn /\ \A d \in Calls \ {c} : Unmoved(d)
<1> USE DEF AllTypeOK, StateTypeOK, CloudTypeOK, DriverTypeOK, StaysBorn, Unmoved
<1>1. ASSUME Return(c, "ERR") \/ Return(c, "OK") \/ (\E l : Goto(c, l))
      PROVE  \A d \in Calls \ {c} : pc'[d] = pc[d]
  BY <1>1 DEF Return, Goto
<1>2. ASSUME Forget(c) \/ UNCHANGED req \/ (\E r : req' = [req EXCEPT ![c] = r])
      PROVE  \A d \in Calls \ {c} : req'[d] = req[d]
  BY <1>2 DEF Forget
<1>3. ASSUME GiveUpOn(c) \/ PollAgain(c) \/ Answer(c) \/ (\E b : AnswerBytes(c, b))
      PROVE  UNCHANGED store /\ \A d \in Calls \ {c} : Unmoved(d)
  BY <1>3 DEF GiveUpOn, PollAgain, NotYet, Answer, AnswerBytes, Return, Goto, Forget, store
<1>4. ASSUME NEW l, CarriedOut(c, l) PROVE \A d \in Calls \ {c} : UNCHANGED <<pc[d], req[d]>>
  BY <1>4 DEF CarriedOut, Return, Goto, Forget
<1>5. ASSUME NEW s, AcceptDelete(s) PROVE StaysBorn /\ UNCHANGED driver
  BY <1>5 DEF AcceptDelete
<1>6. CASE ShareStart(c)
  <2>1. ASSUME NEW r, NEW l, BeginShareCall(c, r, l)
        PROVE  StaysBorn /\ \A d \in Calls \ {c} : Unmoved(d)
    BY <2>1 DEF BeginShareCall, Enter, store
  <2>2. QED BY <1>6, <2>1 DEF ShareStart, TurboStart, SfsStart, BeginTurboCreate,
                 BeginTurboDelete, BeginTurboExpand, BeginSfsCreate, BeginSfsDelete
<1>7. CASE ListShares(c) \/ CheckExist(c)
  <2>1. \A d \in Calls \ {c} : UNCHANGED <<pc[d], req[d]>>
    BY <1>3, <1>7 DEF ListShares, CheckExist, LookUpName, Goto
  <2>2. UNCHANGED store
    BY <1>3, <1>7 DEF ListShares, CheckExist, LookUpName
  <2>3. QED BY <2>1, <2>2 DEF store
<1>8. CASE WaitAvailable(c) \/ FindShare(c) \/ WaitDeleted(c) \/ WaitExpanded(c)
             \/ CheckSize(c) \/ WaitOnce(c) \/ Answer(c)
  BY <1>3, <1>8 DEF WaitAvailable, FindShare, WaitDeleted, WaitExpanded, CheckSize, WaitOnce,
       Goto, store
<1>9. CASE GetShare(c)
  BY <1>3, <1>9 DEF GetShare, Goto, store
<1>10. CASE CreateShare(c, "WaitAvailable") \/ CreateShare(c, "WaitOnce")
  BY <1>3, <1>10 DEF CreateShare, Goto, Return, Forget, store
<1>11. CASE TurboDelete(c) \/ DeleteSfs(c)
  BY <1>3, <1>4, <1>5, <1>11 DEF TurboDelete, DeleteSfs, Goto, store
<1>12. CASE Expand(c) \/ Grant(c)
  BY <1>3, <1>4, <1>12 DEF Expand, Grant, Goto, Return, Forget, store
<1>13. QED BY <1>6, <1>7, <1>8, <1>9, <1>10, <1>11, <1>12
         DEF ShareHandle, TurboHandle, CreateTurbo, DeleteTurbo, ExpandTurbo, SfsHandle, CreateSfs

\* No step of the cloud takes a conclusion away from a call, and a crash ends all.
LEMMA CloudKnows ==
  ASSUME AllTypeOK, \A d \in Calls : Knows(d), ShareHistory,
         (\E s \in ShareIds : StoreStep(s)) \/ CrashShares
  PROVE  \A d \in Calls : Knows(d)'
<1> SUFFICES ASSUME NEW d \in Calls PROVE Knows(d)'
  OBVIOUS
<1>1. CASE CrashShares
  BY <1>1, IdleKnows DEF CrashShares, CrashCalls
<1>2. ASSUME NEW s \in ShareIds, StoreStep(s) PROVE Knows(d)'
  <2>1. Unmoved(d) /\ StaysBorn
    BY <1>2 DEF StoreStep, CreationEnds, DeletionEnds, ExtensionStarts,
         ExtensionEnds, Unmoved, StaysBorn, AllTypeOK, StateTypeOK, CloudTypeOK
  <2>2. QED BY <2>1, UnmovedKnows
<1>3. QED BY <1>1, <1>2

\* The call that takes the step knows what it should.
LEMMA MovedKnows ==
  ASSUME AllTypeOK, NEW c \in Calls, Knows(c), ShareHistory,
         \/ driver = "turbo" /\ TurboHandle(c)
         \/ driver = "sfs" /\ SfsHandle(c)
  PROVE  Knows(c)'
<1>1. CASE driver = "turbo" /\ TurboHandle(c)
  <2>1. CASE ListShares(c)
    BY <1>1, <2>1, LookUpKnows DEF ListShares
  <2>2. QED BY <1>1, <2>1, CreateKnows, WaitKnows, DeleteKnows, ExpandKnows, EndKnows
             DEF TurboHandle, CreateTurbo, DeleteTurbo, ExpandTurbo
<1>2. CASE driver = "sfs" /\ SfsHandle(c)
  <2>1. CASE CheckExist(c)
    BY <1>2, <2>1, LookUpKnows DEF CheckExist
  <2>2. QED BY <1>2, <2>1, CreateKnows, WaitKnows, GrantKnows, DeleteKnows, EndKnows
             DEF SfsHandle, CreateSfs
<1>3. QED BY <1>1, <1>2

\* Knows is an invariant, for every call.
LEMMA CallsKnow == ShareSpec => [](\A c \in Calls : Knows(c))
<1> DEFINE Inv == \A c \in Calls : Knows(c)
<1>1. ShareInit => Inv
  BY DEF ShareInit, NoCalls, Knows, Answers
<1>2. AllTypeOK /\ Inv /\ [ShareNext]_<<shareVars, regrant>> => Inv'
  <2> SUFFICES ASSUME AllTypeOK, Inv, [ShareNext]_<<shareVars, regrant>> PROVE Inv'
    OBVIOUS
  <2>1. ASSUME ShareHistory, NEW c \in Calls,
               \/ ShareStart(c)
               \/ driver = "turbo" /\ TurboHandle(c)
               \/ driver = "sfs" /\ SfsHandle(c)
        PROVE  Inv'
    <3>1. ASSUME NEW d \in Calls \ {c} PROVE Knows(d)'
      BY <2>1, OthersUnmoved, UnmovedKnows DEF ShareHandle
    <3>2. Knows(c)'
      BY <2>1, StartKnows, MovedKnows
    <3>3. QED BY <3>1, <3>2
  <2>2. CASE ShareNext /\ ~CrashShares /\ ~\E s \in ShareIds : StoreStep(s)
    <3>1. PICK c \in Calls : \/ ShareStart(c)
                             \/ driver = "turbo" /\ TurboHandle(c)
                             \/ driver = "sfs" /\ SfsHandle(c)
      BY <2>2 DEF ShareNext, TurboNext, SfsNext, ShareStart
    <3>2. QED BY <2>1, <2>2, <3>1, ShareSteps
  <2>3. CASE ShareNext /\ (CrashShares \/ \E s \in ShareIds : StoreStep(s))
    BY <2>3, CloudKnows, ShareSteps
  <2>4. CASE UNCHANGED <<shareVars, regrant>>
    BY <2>4 DEF shareVars, store, Knows, Answers, Named, Rpc
  <2>5. QED BY <2>2, <2>3, <2>4
<1>3. QED BY <1>1, <1>2, TypesHold, PTL DEF ShareSpec

\* A create call that answers OK names a share that was there with the size asked
\* for; one it made was available, and an SFS share had access granted.
THEOREM CreationIsHonest == ShareSpec => []CreateNamesAShare
<1>1. (\A c \in Calls : Knows(c)) => CreateNamesAShare
  BY DEF Knows, CreateNamesAShare
<1>2. QED BY <1>1, CallsKnow, PTL

\* A delete call of SFS Turbo that answers OK saw the share gone, one of SFS had
\* its deletion set off.
THEOREM DeletionIsHonest == ShareSpec => []DeleteFinishes
<1>1. (\A c \in Calls : Knows(c)) => DeleteFinishes
  BY DEF Knows, DeleteFinishes
<1>2. QED BY <1>1, CallsKnow, PTL

\* An expand call that answers OK saw the share as large as asked for, whatever
\* other expand calls do and whatever sub-status an earlier extension left.
THEOREM ExpansionIsHonest == ShareSpec => []ExpandReachesSize
<1>1. (\A c \in Calls : Knows(c)) => ExpandReachesSize
  BY DEF Knows, ExpandReachesSize
<1>2. QED BY <1>1, CallsKnow, PTL

----------------------------------------------------------------------------
(* The number of shares of one name.                                       *)

\* Sets of shares and of calls can be counted, and a part has no more elements
\* than the whole.
LEMMA Counting ==
  /\ Cardinality(Calls) \in Nat
  /\ \A S \in SUBSET ShareIds : IsFiniteSet(S) /\ Cardinality(S) \in Nat
  /\ \A S \in SUBSET Calls :
       IsFiniteSet(S) /\ Cardinality(S) \in Nat /\ Cardinality(S) <= Cardinality(Calls)
<1>1. \A S \in SUBSET ShareIds : IsFiniteSet(S)
  BY FS_Subset, ShareIdsAssumption
<1>2. \A S \in SUBSET Calls : IsFiniteSet(S) /\ Cardinality(S) <= Cardinality(Calls)
  BY FS_Subset, CallsAssumption
<1>3. QED BY <1>1, <1>2, FS_CardinalityType, CallsAssumption

\* A step that adds neither a share nor a call about to make one keeps the bound.
LEMMA NothingAdded ==
  ASSUME SharesBounded, Existing' \subseteq Existing, AboutToCreate' \subseteq AboutToCreate
  PROVE  SharesBounded'
<1>1. Existing \in SUBSET ShareIds /\ AboutToCreate \in SUBSET Calls
  BY DEF Existing, AboutToCreate
<1>2. Cardinality(Existing') <= Cardinality(Existing)
  BY <1>1, Counting, FS_Subset
<1>3. Cardinality(AboutToCreate') <= Cardinality(AboutToCreate)
  BY <1>1, Counting, FS_Subset
<1>4. Existing' \in SUBSET ShareIds /\ AboutToCreate' \in SUBSET Calls
  BY <1>1
<1>5. QED BY <1>1, <1>2, <1>3, <1>4, Counting DEF SharesBounded

\* A call sets out to make a share only when it saw none: there is room for all.
LEMMA LookUpKeepsBound ==
  ASSUME AllTypeOK, SharesBounded, NEW c \in Calls, NEW l \in {"Answer", "Grant"},
         LookUpName(c, l)
  PROVE  SharesBounded'
<1>1. Existing' = Existing
  BY DEF LookUpName, GiveUpOn, store, Existing
<1>2. CASE Existing = {}
  <2>1. Cardinality(Existing') = 0
    BY <1>1, <1>2, FS_EmptySet
  <2>2. AboutToCreate' \in SUBSET Calls
    BY DEF AboutToCreate
  <2>3. QED BY <2>1, <2>2, Counting DEF SharesBounded
<1>3. CASE Existing # {}
  <2>1. Goto(c, l) \/ Return(c, "ERR")
    BY <1>3 DEF LookUpName, GiveUpOn
  <2>2. AboutToCreate' \subseteq AboutToCreate
    BY <2>1 DEF Goto, Return, AboutToCreate, AllTypeOK, StateTypeOK, DriverTypeOK
  <2>3. QED BY <1>1, <2>2, NothingAdded
<1>4. QED BY <1>2, <1>3

\* Making a share takes one call off those about to make one.
LEMMA CreateKeepsBound ==
  ASSUME AllTypeOK, SharesBounded, NEW c \in Calls,
         CreateShare(c, "WaitAvailable") \/ CreateShare(c, "WaitOnce")
  PROVE  SharesBounded'
<1>1. c \in AboutToCreate /\ AboutToCreate' = AboutToCreate \ {c}
  BY DEF CreateShare, GiveUpOn, Goto, Return, AboutToCreate, AllTypeOK, StateTypeOK, DriverTypeOK
<1>2. /\ Existing \in SUBSET ShareIds
      /\ AboutToCreate \in SUBSET Calls /\ AboutToCreate' \in SUBSET Calls
  BY <1>1 DEF Existing, AboutToCreate
<1>3. Cardinality(AboutToCreate') = Cardinality(AboutToCreate) - 1
  BY <1>1, <1>2, Counting, FS_RemoveElement
<1>4. ASSUME NEW s \in ShareIds, shares[s] = "unborn",
             shares' = [shares EXCEPT ![s] = "creating"]
      PROVE  SharesBounded'
  <2>1. Existing' = Existing \cup {s} /\ s \notin Existing
    BY <1>4 DEF Existing, AllTypeOK, StateTypeOK, CloudTypeOK
  <2>2. Cardinality(Existing') = Cardinality(Existing) + 1
    BY <1>2, <2>1, Counting, FS_AddElement
  <2>3. QED BY <1>2, <1>3, <2>2, Counting DEF SharesBounded
<1>5. CASE GiveUpOn(c)
  <2>1. Existing' = Existing
    BY <1>5 DEF GiveUpOn, store, Existing
  <2>2. QED BY <1>1, <2>1, NothingAdded
<1>6. QED BY <1>4, <1>5 DEF CreateShare

\* No other step makes a share, or a call that is about to.
LEMMA OthersAddNothing ==
  ASSUME AllTypeOK, NEW c \in Calls,
         \/ ShareStart(c) \/ WaitAvailable(c) \/ FindShare(c) \/ TurboDelete(c)
         \/ WaitDeleted(c) \/ GetShare(c) \/ Expand(c) \/ WaitExpanded(c) \/ CheckSize(c)
         \/ WaitOnce(c) \/ Grant(c) \/ DeleteSfs(c) \/ Answer(c)
  PROVE  Existing' \subseteq Existing /\ AboutToCreate' \subseteq AboutToCreate
<1> USE DEF AllTypeOK, StateTypeOK, CloudTypeOK, DriverTypeOK, Existing, AboutToCreate
<1>1. ASSUME NEW l, l # "Create", Goto(c, l) \/ Return(c, "ERR") \/ Return(c, "OK") \/ UNCHANGED pc
      PROVE  AboutToCreate' \subseteq AboutToCreate
  BY <1>1 DEF Goto, Return
<1>2. UNCHANGED store => Existing' \subseteq Existing
  BY DEF store
<1>3. ASSUME NEW s, AcceptDelete(s) PROVE Existing' \subseteq Existing
  BY <1>3 DEF AcceptDelete, Idle
<1>4. CASE ShareStart(c)
  <2>1. ASSUME NEW r, NEW l, l # "Create", BeginShareCall(c, r, l)
        PROVE  Existing' \subseteq Existing /\ AboutToCreate' \subseteq AboutToCreate
    BY <2>1, <1>2 DEF BeginShareCall, Enter
  <2>2. QED BY <1>4, <2>1 DEF ShareStart, TurboStart, SfsStart, BeginTurboCreate,
                 BeginTurboDelete, BeginTurboExpand, BeginSfsCreate, BeginSfsDelete
<1>5. ASSUME GiveUpOn(c) \/ PollAgain(c) \/ Answer(c) \/ (\E b : AnswerBytes(c, b))
      PROVE  Existing' \subseteq Existing /\ AboutToCreate' \subseteq AboutToCreate
  BY <1>1, <1>2, <1>5 DEF GiveUpOn, PollAgain, NotYet, Answer, AnswerBytes
<1>6. ASSUME NEW l, l # "Create", CarriedOut(c, l) PROVE AboutToCreate' \subseteq AboutToCreate
  BY <1>1, <1>6 DEF CarriedOut
<1>7. CASE \/ WaitAvailable(c) \/ FindShare(c) \/ WaitDeleted(c) \/ GetShare(c)
           \/ WaitExpanded(c) \/ CheckSize(c) \/ WaitOnce(c) \/ Answer(c)
  BY <1>1, <1>2, <1>5, <1>7 DEF WaitAvailable, FindShare, WaitDeleted, GetShare, WaitExpanded,
       CheckSize, WaitOnce
<1>8. CASE TurboDelete(c) \/ DeleteSfs(c)
  BY <1>1, <1>2, <1>3, <1>5, <1>6, <1>8 DEF TurboDelete, DeleteSfs
<1>9. CASE Expand(c) \/ Grant(c)
  BY <1>1, <1>2, <1>5, <1>6, <1>9 DEF Expand, Grant
<1>10. QED BY <1>4, <1>7, <1>8, <1>9

\* However long the CO goes on retrying and whatever fails, the race between
\* looking for the name and creating never makes more shares than there are calls
\* that can run side by side.
THEOREM RaceIsBounded == ShareSpec => []SharesBounded
<1>1. ShareInit => SharesBounded
  <2> SUFFICES ASSUME ShareInit PROVE SharesBounded
    OBVIOUS
  <2>1. Existing = {} /\ AboutToCreate = {}
    BY DEF ShareInit, NoCalls, Existing, AboutToCreate
  <2>2. QED BY <2>1, FS_EmptySet, Counting DEF SharesBounded
<1>2. AllTypeOK /\ SharesBounded /\ [ShareNext]_<<shareVars, regrant>> => SharesBounded'
  <2> SUFFICES ASSUME AllTypeOK, SharesBounded, [ShareNext]_<<shareVars, regrant>>
               PROVE  SharesBounded'
    OBVIOUS
  <2>1. ASSUME NEW c \in Calls, ListShares(c) \/ CheckExist(c) PROVE SharesBounded'
    BY <2>1, LookUpKeepsBound DEF ListShares, CheckExist
  <2>2. ASSUME NEW c \in Calls, ShareStart(c) \/ ShareHandle(c) PROVE SharesBounded'
    BY <2>1, <2>2, CreateKeepsBound, OthersAddNothing, NothingAdded
       DEF ShareHandle, TurboHandle, CreateTurbo, DeleteTurbo, ExpandTurbo, SfsHandle, CreateSfs
  <2>3. CASE (\E s \in ShareIds : StoreStep(s)) \/ CrashShares
    <3>1. Existing' \subseteq Existing /\ AboutToCreate' \subseteq AboutToCreate
      BY <2>3 DEF StoreStep, CreationEnds, DeletionEnds, ExtensionStarts, ExtensionEnds,
           CrashShares, CrashCalls, store, Existing, AboutToCreate, AllTypeOK, StateTypeOK, CloudTypeOK
    <3>2. QED BY <3>1, NothingAdded
  <2>4. CASE UNCHANGED <<shareVars, regrant>>
    BY <2>4, NothingAdded DEF shareVars, store, Existing, AboutToCreate
  <2>5. QED BY <2>2, <2>3, <2>4, ShareSteps
<1>3. QED BY <1>1, <1>2, TypesHold, PTL DEF ShareSpec
=============================================================================
