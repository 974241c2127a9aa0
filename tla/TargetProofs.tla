----------------------------- MODULE TargetProofs -----------------------------
(* Theorems about what is mounted at a target when nothing is staged first: a   *)
(* share, a bucket (ObsMount, with RemoteMount) or an ephemeral volume          *)
(* (EvsEphemeral).  They hold for any number of calls, of credential files, of  *)
(* volumes and of polls, and for every set of faults.                           *)
EXTENDS ObsMount, EvsEphemeral, FiniteSetTheorems, SequenceTheorems, TLAPS

USE DEF InProgress

----------------------------------------------------------------------------
(* Mounts upon each other, of any kind of content.                         *)

\* The mounts are of the kinds in S, none of which is a directory of the node.
MountsAre(S) == mounts \in [Path -> Seq(S)] /\ "dir" \notin S

\* What is seen at a path is what is mounted there, or a directory.
LEMMA WhatIsSeen ==
  ASSUME NEW S, MountsAre(S), NEW p \in Path
  PROVE  /\ mounts[p] \in Seq(S) /\ Len(mounts[p]) \in Nat
         /\ IsMounted(p) => Shows(p) \in S /\ Len(mounts[p]) > 0
         /\ ~IsMounted(p) => Shows(p) = "dir" /\ Len(mounts[p]) = 0
         /\ Shows(p) # "dir" <=> IsMounted(p)
<1>1. mounts[p] \in Seq(S)
  BY DEF MountsAre
<1>2. Len(mounts[p]) \in Nat
  BY <1>1
<1>3. mounts[p] # <<>> => Len(mounts[p]) \in Nat \ {0}
  BY <1>1, EmptySeq
<1>4. mounts[p] # <<>> => mounts[p][Len(mounts[p])] \in S
  BY <1>1, <1>3, ElementOfSeq
<1>5. mounts[p] = <<>> => Len(mounts[p]) = 0
  OBVIOUS
<1>6. QED BY <1>1, <1>2, <1>3, <1>4, <1>5 DEF Shows, IsMounted, MountsAre

\* One more mount at p.
LEMMA Pushed ==
  ASSUME NEW S, MountsAre(S), NEW p \in Path, NEW s \in S, Stack(p, s)
  PROVE  /\ MountsAre(S)' /\ UNCHANGED <<paths, umountKind>> /\ p \in paths
         /\ IsMounted(p)' /\ Shows(p)' = s /\ Len(mounts'[p]) = Len(mounts[p]) + 1
         /\ \A q \in Path : q # p => mounts'[q] = mounts[q]
<1>1. mounts[p] \in Seq(S) /\ mounts \in [Path -> Seq(S)]
  BY DEF MountsAre
<1>2. mounts'[p] = Append(mounts[p], s) /\ \A q \in Path : q # p => mounts'[q] = mounts[q]
  BY <1>1 DEF Stack
<1>3. /\ mounts'[p] \in Seq(S) /\ mounts'[p] # <<>>
      /\ Len(mounts'[p]) = Len(mounts[p]) + 1
      /\ mounts'[p][Len(mounts[p]) + 1] = s
  BY <1>1, <1>2, AppendProperties
<1>4. mounts' \in [Path -> Seq(S)]
  BY <1>1, <1>3 DEF Stack
<1>5. QED BY <1>2, <1>3, <1>4 DEF Stack, Shows, IsMounted, MountsAre

\* A umount takes the topmost mount of p away.
Pops(p) == IsMounted(p) /\ mounts' = [mounts EXCEPT ![p] = SubSeq(@, 1, Len(@) - 1)]

\* What is left is a list of the same kinds, shorter by one; other paths keep theirs.
LEMMA Popped ==
  ASSUME NEW S, MountsAre(S), NEW p \in Path, Pops(p)
  PROVE  /\ MountsAre(S)' /\ Len(mounts'[p]) = Len(mounts[p]) - 1
         /\ \A q \in Path : q # p => mounts'[q] = mounts[q]
<1>1. mounts[p] \in Seq(S) /\ mounts \in [Path -> Seq(S)]
  BY DEF MountsAre
<1> DEFINE n == Len(mounts[p])
<1>2. n \in Nat \ {0}
  BY <1>1, EmptySeq DEF Pops, IsMounted
<1>3. mounts'[p] = SubSeq(mounts[p], 1, n - 1) /\ \A q \in Path : q # p => mounts'[q] = mounts[q]
  BY <1>1 DEF Pops
<1>4. \A i \in 1 .. n - 1 : mounts[p][i] \in S
  BY <1>1, <1>2, ElementOfSeq
<1>5. mounts'[p] \in Seq(S) /\ Len(mounts'[p]) = n - 1
  <2>1. 1 \in Int /\ n - 1 \in Int
    BY <1>2
  <2>2. /\ SubSeq(mounts[p], 1, n - 1) \in Seq(S)
        /\ Len(SubSeq(mounts[p], 1, n - 1)) = IF 1 <= n - 1 THEN n - 1 - 1 + 1 ELSE 0
    BY <1>4, <2>1, SubSeqProperties
  <2>3. QED BY <1>2, <1>3, <2>2
<1>6. mounts' \in [Path -> Seq(S)]
  BY <1>1, <1>5 DEF Pops
<1>7. QED BY <1>3, <1>5, <1>6 DEF MountsAre

\* The target exists when something is mounted there.
TargetExists == IsMounted("target") => "target" \in paths

\* The steps of UnmountPath, at which a call may be.
UnmountSteps == {"Cleanup", "Umount", "RemovePath"}

\* UnmountPath goes on to its next step, fails, or comes to its end with nothing
\* mounted at the target.
LEMMA UnmountPathEffect ==
  ASSUME NEW S, MountsAre(S), TargetExists, NEW c \in Calls, NEW l,
         UnmountPath(c, "target", l)
  PROVE  /\ UNCHANGED <<polls, umountKind>> /\ pc[c] \in UnmountSteps
         /\ UNCHANGED mounts \/ Pops("target")
         /\ TargetExists' /\ paths' \subseteq paths
         /\ \/ \E m \in UnmountSteps : Goto(c, m)
            \/ Return(c, "ERR")
            \/ Proceed(c, l) /\ ~IsMounted("target")'
<1>1. "target" \in Path
  BY DEF Path
<1>2. CASE Cleanup(c, "target", l)
  BY <1>2 DEF Cleanup, Remove, kernel, TargetExists, IsMounted, UnmountSteps
<1>3. CASE Umount(c, "target")
  <2>1. UNCHANGED <<polls, umountKind, paths>> /\ pc[c] \in UnmountSteps
        /\ (UNCHANGED mounts \/ Pops("target"))
        /\ ((\E m \in UnmountSteps : Goto(c, m)) \/ Return(c, "ERR"))
    BY <1>3 DEF Umount, kernel, UnmountSteps, Pops
  <2>2. TargetExists'
    BY <2>1 DEF TargetExists, Pops, IsMounted
  <2>3. QED BY <2>1, <2>2
<1>4. CASE RemovePath(c, "target", l)
  BY <1>4 DEF RemovePath, Unmounted, kernel, TargetExists, IsMounted, UnmountSteps
<1>5. QED BY <1>2, <1>3, <1>4 DEF UnmountPath

----------------------------------------------------------------------------
(* Shares and buckets: types and the order of a call.                      *)

\* What can be mounted at a target, and the steps at which a call may be.
Content == {"share", "bucket", "dead"}
PublishSteps == {"GetExport", "CheckTarget", "MakeTarget", "MountShare", "Credential", "Post", "Await"}
UnpublishSteps == {"CheckBusy", "UmountShare"} \cup UnmountSteps
RemoteStep == PublishSteps \cup UnpublishSteps

\* Every variable of the targets stays in its range, polls apart.
RemoteTypeOK ==
  /\ MountsAre(Content) /\ paths \subseteq Path /\ umountKind \in {"safe", "plain"}
  /\ server \in {"turbo", "sfs", "obs"} /\ up \in BOOLEAN
  /\ errand \in [Calls -> {"none", "publish", "unpublish"}]
  /\ found \in [Calls -> SUBSET {"mounted", "free"}]
  /\ files \subseteq FileIds /\ file \in [Calls -> FileIds \cup {NoFile}]
  /\ command \in [FileIds -> CommandState] /\ spoiled \in BOOLEAN
  /\ pc \in [Calls -> {"idle"} \cup RemoteStep]
  /\ reply \in [Calls -> {"none", "OK", "ERR"}]

\* A call in progress is one of a driver that runs, takes the steps of its errand,
\* and has a credential file exactly while its command is under way.
RemoteOrder ==
  \A c \in Calls :
    /\ InProgress(c) => up /\ reply[c] = "none"
    /\ pc[c] \in PublishSteps => errand[c] = "publish"
    /\ pc[c] \in UnpublishSteps => errand[c] = "unpublish"
    /\ file[c] # NoFile <=> pc[c] \in {"Post", "Await"}

\* A share is never mounted twice, nor is anything else where shares are.
SharesAlone ==
  server # "obs" => Len(mounts["target"]) <= 1 /\ (IsMounted("target") => Shows("target") = "share")

\* The part of the invariant that all the theorems on targets rest on.
RemoteBase == RemoteTypeOK /\ RemoteOrder /\ TargetExists /\ SharesAlone

\* A call goes on with its errand, or returns.
Continues(c) ==
  \E l \in RemoteStep : Goto(c, l) /\ (l \in PublishSteps <=> errand[c] = "publish")

\* What a step of a call may do, the command and its file apart.
RemoteEffect(c) ==
  /\ InProgress(c) /\ UNCHANGED <<server, up, errand, umountKind>>
  /\ Continues(c) \/ \E r \in {"OK", "ERR"} : Return(c, r)
  /\ paths' \subseteq Path /\ TargetExists'
  /\ \/ UNCHANGED mounts
     \/ Pops("target")
     \/ server # "obs" /\ ~IsMounted("target") /\ Stack("target", "share")

\* What an answer says is so.
AnswerHolds(c) ==
  /\ errand[c] = "publish" => Shows("target")' \in {"share", "bucket"}
  /\ errand[c] = "unpublish" => ~IsMounted("target")'

\* The steps that look at the target, or make it.
LEMMA LookEffect ==
  ASSUME RemoteBase, NEW c \in Calls, UNCHANGED <<remote, connector>>,
         GetExport(c) \/ CheckTarget(c) \/ MakeTarget(c) \/ CheckBusy(c)
  PROVE  /\ RemoteEffect(c) /\ UNCHANGED mounts
         /\ pc[c] \in {"GetExport", "CheckTarget", "MakeTarget", "CheckBusy"} /\ pc'[c] \notin {"Post", "Await"}
         /\ reply'[c] = "OK" => AnswerHolds(c)
<1> USE DEF RemoteBase
<1>1. /\ pc \in [Calls -> {"idle"} \cup RemoteStep] /\ reply \in [Calls -> {"none", "OK", "ERR"}]
      /\ MountsAre(Content) /\ "target" \in Path /\ paths \subseteq Path
  BY DEF RemoteTypeOK, Path
<1>2. /\ InProgress(c) /\ reply[c] = "none"
      /\ pc[c] \in {"GetExport", "CheckTarget", "MakeTarget", "CheckBusy"}
      /\ pc[c] # "CheckBusy" => errand[c] = "publish"
      /\ pc[c] = "CheckBusy" => errand[c] = "unpublish"
  BY DEF GetExport, CheckTarget, MakeTarget, CheckBusy, RemoteOrder, PublishSteps, UnpublishSteps
<1>3. /\ UNCHANGED <<mounts, umountKind, server, up, errand>>
      /\ paths' \subseteq Path /\ paths \subseteq paths'
  BY <1>1 DEF GetExport, CheckTarget, MakeTarget, CheckBusy, MakePath, kernel, remote
<1>4. TargetExists'
  BY <1>3 DEF RemoteBase, TargetExists, IsMounted
<1>5. CASE pc[c] # "CheckBusy"
  <2>1. \/ \E l \in {"CheckTarget", "MakeTarget", "Credential", "MountShare"} : Goto(c, l)
        \/ \E r \in {"OK", "ERR"} : Return(c, r)
    BY <1>5 DEF GetExport, CheckTarget, MakeTarget, CheckBusy
  <2>2. Continues(c) \/ \E r \in {"OK", "ERR"} : Return(c, r)
    BY <1>2, <1>5, <2>1 DEF Continues, RemoteStep, PublishSteps
  <2>3. pc'[c] \notin {"Post", "Await"}
    BY <1>1, <2>1 DEF Goto, Return
  <2>4. reply'[c] = "OK" => FoundAtTarget /\ ~(server = "obs" /\ Dead)
    BY <1>1, <1>2, <1>5 DEF GetExport, CheckTarget, MakeTarget, CheckBusy, Goto, Return
  <2>5. FoundAtTarget /\ ~(server = "obs" /\ Dead) => Shows("target") \in {"share", "bucket"}
    BY <1>1, WhatIsSeen DEF FoundAtTarget, Dead, SharesAlone, LikelyMounted, Content
  <2>6. Shows("target")' = Shows("target")
    BY <1>3 DEF Shows, IsMounted
  <2>7. QED BY <1>2, <1>3, <1>4, <1>5, <2>2, <2>3, <2>4, <2>5, <2>6 DEF RemoteEffect, AnswerHolds
<1>6. CASE pc[c] = "CheckBusy"
  <2>1. \/ \E l \in {"UmountShare", "Cleanup"} : Goto(c, l)
        \/ \E r \in {"OK", "ERR"} : Return(c, r)
    BY <1>6 DEF GetExport, CheckTarget, MakeTarget, CheckBusy
  <2>2. Continues(c) \/ \E r \in {"OK", "ERR"} : Return(c, r)
    BY <1>2, <1>6, <2>1 DEF Continues, RemoteStep, PublishSteps, UnpublishSteps, UnmountSteps
  <2>3. pc'[c] \notin {"Post", "Await"}
    BY <1>1, <2>1 DEF Goto, Return
  <2>4. reply'[c] = "OK" => ~IsMounted("target") \/ ~LikelyMounted("target")
    BY <1>1, <1>2, <1>6 DEF GetExport, CheckTarget, MakeTarget, CheckBusy, Goto, Return
  <2>5. ~LikelyMounted("target") => ~IsMounted("target")
    BY <1>1, WhatIsSeen DEF LikelyMounted, TargetExists
  <2>6. IsMounted("target")' <=> IsMounted("target")
    BY <1>3 DEF IsMounted
  <2>7. QED BY <1>2, <1>3, <1>4, <1>6, <2>2, <2>3, <2>4, <2>5, <2>6 DEF RemoteEffect, AnswerHolds
<1>7. QED BY <1>5, <1>6

\* Mounting a share.
LEMMA MountShareEffect ==
  ASSUME RemoteBase, NEW c \in Calls, UNCHANGED <<remote, connector>>, server # "obs", MountShare(c)
  PROVE  /\ RemoteEffect(c) /\ pc[c] = "MountShare" /\ pc'[c] = "idle"
         /\ reply'[c] = "OK" => AnswerHolds(c)
<1> USE DEF RemoteBase
<1>1. /\ pc \in [Calls -> {"idle"} \cup RemoteStep] /\ reply \in [Calls -> {"none", "OK", "ERR"}]
      /\ MountsAre(Content) /\ "target" \in Path /\ paths \subseteq Path /\ "share" \in Content
  BY DEF RemoteTypeOK, Path, Content
<1>2. InProgress(c) /\ pc[c] = "MountShare" /\ errand[c] = "publish"
  BY DEF MountShare, RemoteOrder, PublishSteps
<1>3. pc'[c] = "idle" /\ \E r \in {"OK", "ERR"} : Return(c, r)
  BY <1>1 DEF MountShare, Return
<1>4. CASE ~IsMounted("target") /\ Stack("target", "share") /\ Return(c, "OK")
  <2>1. Shows("target")' = "share" /\ UNCHANGED <<paths, umountKind>> /\ "target" \in paths
    BY <1>1, <1>4, Pushed
  <2>2. TargetExists'
    BY <2>1 DEF TargetExists
  <2>3. QED BY <1>1, <1>2, <1>3, <1>4, <2>1, <2>2 DEF RemoteEffect, AnswerHolds, remote
<1>5. CASE Return(c, "ERR") /\ (Remove("target") \/ UNCHANGED kernel)
  <2>1. reply'[c] # "OK"
    BY <1>1, <1>5 DEF Return
  <2>2. UNCHANGED <<mounts, umountKind>> /\ paths' \subseteq Path /\ TargetExists'
    BY <1>1, <1>5 DEF Remove, kernel, TargetExists, IsMounted
  <2>3. QED BY <1>2, <1>3, <2>1, <2>2 DEF RemoteEffect, remote
<1>6. QED BY <1>4, <1>5 DEF MountShare

\* Unmounting, by SFS and by the others.
LEMMA UnmountingEffect ==
  ASSUME RemoteBase, NEW c \in Calls, UNCHANGED <<remote, connector>>,
         \/ server = "sfs" /\ UmountShare(c)
         \/ UnmountPath(c, "target", "return")
  PROVE  /\ RemoteEffect(c) /\ pc[c] \in UnpublishSteps /\ pc'[c] \notin {"Post", "Await"}
         /\ reply'[c] = "OK" => AnswerHolds(c)
<1> USE DEF RemoteBase
<1>1. /\ pc \in [Calls -> {"idle"} \cup RemoteStep] /\ reply \in [Calls -> {"none", "OK", "ERR"}]
      /\ MountsAre(Content) /\ "target" \in Path /\ paths \subseteq Path
  BY DEF RemoteTypeOK, Path
<1>2. CASE server = "sfs" /\ UmountShare(c)
  <2>1. InProgress(c) /\ pc[c] = "UmountShare" /\ errand[c] = "unpublish"
    BY <1>2 DEF UmountShare, RemoteOrder, UnpublishSteps
  <2>2. pc'[c] = "idle" /\ (\E r \in {"OK", "ERR"} : Return(c, r)) /\ UNCHANGED <<paths, umountKind>>
    BY <1>1, <1>2 DEF UmountShare, Return, kernel
  <2>3. UNCHANGED mounts \/ Pops("target")
    BY <1>2 DEF UmountShare, Pops, kernel
  <2>4. reply'[c] = "OK" => Pops("target")
    BY <1>1, <1>2 DEF UmountShare, Pops, Return
  <2>5. TargetExists'
    BY <2>2, <2>3 DEF TargetExists, IsMounted, Pops
  <2>6. Pops("target") => ~IsMounted("target")'
    <3> SUFFICES ASSUME Pops("target") PROVE ~IsMounted("target")'
      OBVIOUS
    <3>1. MountsAre(Content)' /\ Len(mounts'["target"]) = Len(mounts["target"]) - 1
      BY <1>1, Popped
    <3>2. Len(mounts["target"]) \in Nat /\ Len(mounts["target"]) <= 1
      BY <1>1, <1>2, WhatIsSeen DEF SharesAlone
    <3>3. mounts'["target"] \in Seq(Content)
      BY <1>1, <3>1 DEF MountsAre
    <3>4. mounts'["target"] # <<>> => Len(mounts'["target"]) \in Nat \ {0}
      BY <3>3, EmptySeq
    <3>5. QED BY <3>1, <3>2, <3>4 DEF IsMounted
  <2>7. QED BY <1>1, <2>1, <2>2, <2>3, <2>4, <2>5, <2>6
          DEF RemoteEffect, AnswerHolds, remote, UnpublishSteps
<1>3. CASE UnmountPath(c, "target", "return")
  <2>1. /\ UNCHANGED umountKind /\ pc[c] \in UnmountSteps
        /\ UNCHANGED mounts \/ Pops("target")
        /\ TargetExists' /\ paths' \subseteq paths
        /\ \/ \E m \in UnmountSteps : Goto(c, m)
           \/ Return(c, "ERR")
           \/ Return(c, "OK") /\ ~IsMounted("target")'
    BY <1>1, <1>3, UnmountPathEffect DEF Proceed
  <2>2. InProgress(c) /\ pc[c] \in UnpublishSteps /\ errand[c] = "unpublish" /\ reply[c] = "none"
    BY <2>1 DEF RemoteOrder, UnpublishSteps, UnmountSteps
  <2>3. Continues(c) \/ \E r \in {"OK", "ERR"} : Return(c, r)
    BY <2>1, <2>2 DEF Continues, RemoteStep, PublishSteps, UnpublishSteps, UnmountSteps
  <2>4. reply'[c] = "OK" => ~IsMounted("target")'
    BY <1>1, <2>1, <2>2 DEF Goto, Return
  <2>5. pc'[c] \notin {"Post", "Await"}
    BY <1>1, <2>1 DEF Goto, Return, UnmountSteps
  <2>6. QED BY <1>1, <2>1, <2>2, <2>3, <2>4, <2>5 DEF RemoteEffect, AnswerHolds, remote
<1>4. QED BY <1>2, <1>3

\* So every step of a node server has one of these effects, and its answer holds.
LEMMA ServerEffect ==
  ASSUME RemoteBase, NEW c \in Calls, RemoteHandle(c), UNCHANGED <<remote, connector>>
  PROVE  /\ RemoteEffect(c) /\ pc[c] \notin {"Credential", "Post", "Await"} /\ pc'[c] \notin {"Post", "Await"}
         /\ reply'[c] = "OK" => AnswerHolds(c)
<1>1. CASE GetExport(c) \/ CheckTarget(c) \/ MakeTarget(c) \/ CheckBusy(c)
  BY <1>1, LookEffect
<1>2. CASE server # "obs" /\ MountShare(c)
  BY <1>2, MountShareEffect
<1>3. CASE (server = "sfs" /\ UmountShare(c)) \/ UnmountPath(c, "target", "return")
  BY <1>3, UnmountingEffect DEF UnpublishSteps, UnmountSteps
<1>4. QED BY <1>1, <1>2, <1>3 DEF RemoteHandle, TurboNode, SfsNode, ObsNode

\* The connector's filesystems die where they are mounted.
LEMMA KilledInPlace ==
  ASSUME MountsAre(Content), mounts' = [p \in Path |-> Killed(mounts[p])]
  PROVE  /\ MountsAre(Content)'
         /\ \A p \in Path : Len(mounts'[p]) = Len(mounts[p]) /\ (IsMounted(p)' <=> IsMounted(p))
<1>1. ASSUME NEW p \in Path
      PROVE  mounts'[p] \in Seq(Content) /\ Len(mounts'[p]) = Len(mounts[p])
  <2> DEFINE m == mounts[p]
             n == Len(m)
             k == Killed(m)
  <2>1. m \in Seq(Content) /\ n \in Nat /\ m \in [1 .. n -> Content] /\ DOMAIN m = 1 .. n
    BY <1>1, LenProperties DEF MountsAre
  <2>2. k \in [1 .. n -> Content]
    BY <2>1 DEF Killed, Content
  <2>3. k \in Seq(Content)
    BY <2>1, <2>2, SeqDef
  <2>4. Len(k) \in Nat /\ 1 .. Len(k) = 1 .. n
    BY <2>2, <2>3, LenProperties
  <2>5. Len(k) = n
    <3>1. n > Len(k) => n \in 1 .. n /\ n \notin 1 .. Len(k)
      BY <2>1, <2>4
    <3>2. Len(k) > n => Len(k) \in 1 .. Len(k) /\ Len(k) \notin 1 .. n
      BY <2>1, <2>4
    <3>3. QED BY <2>1, <2>4, <3>1, <3>2
  <2>6. mounts'[p] = k
    BY <1>1
  <2>7. QED BY <2>3, <2>5, <2>6
<1>2. MountsAre(Content)'
  BY <1>1 DEF MountsAre
<1>3. \A p \in Path : IsMounted(p)' <=> IsMounted(p)
  <2> SUFFICES ASSUME NEW p \in Path PROVE IsMounted(p)' <=> IsMounted(p)
    OBVIOUS
  <2>1. mounts[p] \in Seq(Content) /\ mounts'[p] \in Seq(Content)
    BY <1>1 DEF MountsAre
  <2>2. (mounts[p] # <<>> => Len(mounts[p]) \in Nat \ {0}) /\ (mounts'[p] # <<>> => Len(mounts'[p]) \in Nat \ {0})
    BY <2>1, EmptySeq
  <2>3. Len(<<>>) = 0
    BY EmptySeq
  <2>4. QED BY <1>1, <2>2, <2>3 DEF IsMounted
<1>4. QED BY <1>1, <1>2, <1>3

\* The history keeps its type.
LEMMA FoundTyping ==
  ASSUME RemoteTypeOK, RemoteHistory
  PROVE  found' \in [Calls -> SUBSET {"mounted", "free"}]
<1>1. \A c \in Calls : TargetFacts(c)' \in SUBSET {"mounted", "free"}
  BY DEF TargetFacts
<1>2. \A c \in Calls : found[c] \in SUBSET {"mounted", "free"}
  BY DEF RemoteTypeOK
<1>3. QED BY <1>1, <1>2 DEF RemoteHistory

\* The connector's variables are of their types, and the files are those of calls
\* whose command is under way.
ConnectorOK ==
  /\ files \subseteq FileIds /\ file \in [Calls -> FileIds \cup {NoFile}]
  /\ command \in [FileIds -> CommandState] /\ spoiled \in BOOLEAN
  /\ \A c \in Calls : file[c] # NoFile <=> pc[c] \in {"Post", "Await"}

\* A step of a call keeps the types, the order and the shares, if it does so with
\* the files.
LEMMA CallKeepsBase ==
  ASSUME RemoteBase, NEW c \in Calls, RemoteEffect(c), RemoteHistory, ConnectorOK'
  PROVE  RemoteBase'
<1> USE DEF RemoteBase
<1>1. /\ pc \in [Calls -> {"idle"} \cup RemoteStep] /\ reply \in [Calls -> {"none", "OK", "ERR"}]
      /\ MountsAre(Content) /\ "target" \in Path /\ "share" \in Content
  BY DEF RemoteTypeOK, Path, Content
<1>2. MountsAre(Content)' /\ SharesAlone'
  <2>1. CASE UNCHANGED mounts
    BY <1>1, <2>1 DEF RemoteEffect, MountsAre, SharesAlone, IsMounted, Shows
  <2>2. CASE Pops("target")
    <3>1. MountsAre(Content)' /\ Len(mounts'["target"]) = Len(mounts["target"]) - 1
      BY <1>1, <2>2, Popped
    <3>2. Len(mounts["target"]) \in Nat
      BY <1>1, WhatIsSeen
    <3>3. mounts'["target"] \in Seq(Content)
      BY <1>1, <3>1 DEF MountsAre
    <3>4. mounts'["target"] # <<>> => Len(mounts'["target"]) \in Nat \ {0}
      BY <3>3, EmptySeq
    <3>5. QED BY <3>1, <3>2, <3>4 DEF SharesAlone, RemoteEffect, IsMounted
  <2>3. CASE ~IsMounted("target") /\ Stack("target", "share")
    <3>1. MountsAre(Content)' /\ Shows("target")' = "share" /\ Len(mounts'["target"]) = Len(mounts["target"]) + 1
      BY <1>1, <2>3, Pushed
    <3>2. Len(mounts["target"]) = 0
      BY <1>1, <2>3, WhatIsSeen
    <3>3. QED BY <3>1, <3>2 DEF SharesAlone
  <2>4. QED BY <2>1, <2>2, <2>3 DEF RemoteEffect
<1>3. pc' \in [Calls -> {"idle"} \cup RemoteStep] /\ reply' \in [Calls -> {"none", "OK", "ERR"}]
  BY <1>1 DEF RemoteEffect, Continues, Goto, Return
<1>4. RemoteOrder'
  <2>1. \A d \in Calls : d # c => pc'[d] = pc[d] /\ reply'[d] = reply[d]
    BY <1>1 DEF RemoteEffect, Continues, Goto, Return
  <2>2. \/ pc'[c] = "idle"
        \/ /\ pc'[c] \in RemoteStep /\ (pc'[c] \in PublishSteps <=> errand[c] = "publish")
           /\ reply'[c] = reply[c]
    BY <1>1 DEF RemoteEffect, Continues, Goto, Return
  <2>3. "idle" \notin RemoteStep /\ PublishSteps \cap UnpublishSteps = {}
    BY DEF RemoteStep, PublishSteps, UnpublishSteps, UnmountSteps
  <2>4. errand[c] \in {"publish", "unpublish"} /\ up /\ reply[c] = "none"
    BY <1>1 DEF RemoteEffect, RemoteOrder, RemoteStep
  <2>5. /\ InProgress(c)' => up' /\ reply'[c] = "none"
        /\ pc'[c] \in PublishSteps => errand'[c] = "publish"
        /\ pc'[c] \in UnpublishSteps => errand'[c] = "unpublish"
    BY <2>2, <2>3, <2>4 DEF RemoteEffect, RemoteStep
  <2>6. QED BY <2>1, <2>5 DEF RemoteOrder, RemoteEffect, ConnectorOK
<1>5. QED BY <1>2, <1>3, <1>4, FoundTyping DEF RemoteTypeOK, RemoteEffect, ConnectorOK

\* What a step of a publish call with the connector does to its file and command.
ObsEffect(c) ==
  \/ /\ pc[c] = "Credential" /\ pc'[c] = "Post" /\ reply'[c] # "OK" /\ UNCHANGED <<command, spoiled>>
     /\ \E f \in Fresh : files' = files \cup {f} /\ file' = [file EXCEPT ![c] = f]
  \/ /\ pc[c] = "Credential" /\ pc'[c] = "idle" /\ reply'[c] # "OK" /\ UNCHANGED <<command, file>>
     /\ files' \subseteq FileIds /\ (files' # files => spoiled') /\ spoiled' \in {TRUE, spoiled}
  \/ /\ pc[c] = "Post" /\ pc'[c] = "Await" /\ reply'[c] # "OK" /\ UNCHANGED <<files, file, spoiled>>
     /\ command' = [command EXCEPT ![file[c]] = "posted"]
  \/ /\ pc[c] \in {"Post", "Await"} /\ pc'[c] = "idle" /\ (\E r \in {"OK", "ERR"} : Leave(c, r))
     /\ reply'[c] = "OK" => command[file[c]] = "done"

\* Every step of the protocol between the node server and the connector is one of these.
LEMMA ObsStepEffect ==
  ASSUME RemoteBase, NEW c \in Calls, ObsHandle(c)
  PROVE  RemoteEffect(c) /\ UNCHANGED mounts /\ ObsEffect(c)
<1> USE DEF RemoteBase
<1>1. /\ pc \in [Calls -> {"idle"} \cup RemoteStep] /\ reply \in [Calls -> {"none", "OK", "ERR"}]
      /\ paths \subseteq Path /\ files \subseteq FileIds
  BY DEF RemoteTypeOK, Path, Content
<1>2. /\ InProgress(c) /\ reply[c] = "none" /\ errand[c] = "publish"
      /\ pc[c] \in {"Credential", "Post", "Await"}
  BY DEF ObsHandle, WriteCredential, PostCommand, AwaitAnswer, RemoteOrder, PublishSteps
<1>3. /\ UNCHANGED <<mounts, umountKind, paths, server, up, errand>> /\ TargetExists'
  BY DEF ObsHandle, kernel, remote, TargetExists, IsMounted
<1>4. (\E l \in {"Post", "Await"} : Goto(c, l)) \/ \E r \in {"OK", "ERR"} : Return(c, r)
  BY DEF ObsHandle, WriteCredential, PostCommand, AwaitAnswer, Leave
<1>5. Continues(c) \/ \E r \in {"OK", "ERR"} : Return(c, r)
  BY <1>2, <1>4 DEF Continues, RemoteStep, PublishSteps
<1>6. RemoteEffect(c)
  BY <1>1, <1>2, <1>3, <1>5 DEF RemoteEffect
<1>7. /\ \A l \in {"Post", "Await"} : Goto(c, l) => pc'[c] = l /\ reply'[c] # "OK"
      /\ \A r : Return(c, r) => pc'[c] = "idle" /\ reply'[c] = r
  BY <1>1, <1>2 DEF Goto, Return
<1>8. ASSUME WriteCredential(c) PROVE ObsEffect(c)
  <2>1. PICK f \in Fresh :
          \/ /\ files' = files \cup {f} /\ file' = [file EXCEPT ![c] = f]
             /\ Goto(c, "Post") /\ UNCHANGED spoiled
          \/ /\ Return(c, "ERR") /\ UNCHANGED file
             /\ \/ files' = files \cup {f} /\ spoiled' = TRUE
                \/ UNCHANGED <<files, spoiled>>
    BY <1>8 DEF WriteCredential
  <2>2. f \in FileIds /\ pc[c] = "Credential" /\ UNCHANGED command
    BY <1>8 DEF WriteCredential, Fresh
  <2>3. CASE Goto(c, "Post")
    BY <1>7, <2>1, <2>2, <2>3 DEF ObsEffect
  <2>4. CASE Return(c, "ERR")
    BY <1>1, <1>7, <2>1, <2>2, <2>4 DEF ObsEffect
  <2>5. QED BY <2>1, <2>3, <2>4
<1>9. ASSUME PostCommand(c) \/ AwaitAnswer(c) PROVE ObsEffect(c)
  <2>1. ASSUME NEW r \in {"OK", "ERR"}, Leave(c, r), pc[c] \in {"Post", "Await"},
               r = "OK" => command[file[c]] = "done"
        PROVE  ObsEffect(c)
    <3>1. pc'[c] = "idle" /\ reply'[c] = r
      BY <1>7, <2>1 DEF Leave
    <3>2. QED BY <2>1, <3>1 DEF ObsEffect
  <2>2. CASE PostCommand(c)
    BY <1>7, <2>1, <2>2 DEF PostCommand, ObsEffect
  <2>3. CASE AwaitAnswer(c)
    BY <2>1, <2>3 DEF AwaitAnswer
  <2>4. QED BY <1>9, <2>2, <2>3
<1>10. QED BY <1>3, <1>6, <1>8, <1>9 DEF ObsHandle

\* Calls keep what the first lemmas rest on.
LEMMA HandlersKeepBase ==
  ASSUME RemoteBase, NEW c \in Calls, RemoteHistory,
         (RemoteHandle(c) /\ UNCHANGED <<remote, connector>>) \/ ObsHandle(c)
  PROVE  RemoteBase'
<1> USE DEF RemoteBase
<1>1. pc \in [Calls -> {"idle"} \cup RemoteStep] /\ ConnectorOK
  BY DEF RemoteTypeOK, RemoteOrder, ConnectorOK
<1>2. RemoteEffect(c)
  BY ServerEffect, ObsStepEffect
<1>3. \A d \in Calls : d # c => pc'[d] = pc[d]
  BY <1>1, <1>2 DEF RemoteEffect, Continues, Goto, Return
<1>4. CASE RemoteHandle(c) /\ UNCHANGED <<remote, connector>>
  <2>1. pc[c] \notin {"Post", "Await"} /\ pc'[c] \notin {"Post", "Await"}
    BY <1>4, ServerEffect
  <2>2. ConnectorOK'
    BY <1>1, <1>3, <1>4, <2>1 DEF ConnectorOK, connector
  <2>3. QED BY <1>2, <2>2, CallKeepsBase
<1>5. CASE ObsHandle(c)
  <2>1. ObsEffect(c)
    BY <1>5, ObsStepEffect
  <2>2. CASE pc[c] = "Credential"
    <3>1. (pc'[c] = "Post" /\ \E f \in FileIds : files' = files \cup {f} /\ file' = [file EXCEPT ![c] = f])
          \/ (pc'[c] = "idle" /\ files' \subseteq FileIds /\ UNCHANGED file)
      BY <2>1, <2>2 DEF ObsEffect, Fresh
    <3>2. UNCHANGED command /\ spoiled' \in BOOLEAN
      BY <1>1, <2>1, <2>2 DEF ObsEffect, ConnectorOK
    <3>3. ConnectorOK'
      BY <1>1, <1>3, <2>2, <3>1, <3>2, FileIdsAssumption DEF ConnectorOK
    <3>4. QED BY <1>2, <3>3, CallKeepsBase
  <2>3. CASE pc[c] = "Post" /\ pc'[c] = "Await"
    <3>1. UNCHANGED <<files, file, spoiled>> /\ command' = [command EXCEPT ![file[c]] = "posted"]
      BY <2>1, <2>3 DEF ObsEffect
    <3>2. ConnectorOK'
      BY <1>1, <1>3, <2>3, <3>1 DEF ConnectorOK, CommandState
    <3>3. QED BY <1>2, <3>2, CallKeepsBase
  <2>4. CASE pc[c] \in {"Post", "Await"} /\ pc'[c] = "idle"
    <3>1. /\ files' \subseteq files /\ file' = [file EXCEPT ![c] = NoFile] /\ UNCHANGED spoiled
          /\ command' = [command EXCEPT ![file[c]] = "none"]
      BY <2>1, <2>4 DEF ObsEffect, Leave, WithoutFile
    <3>2. ConnectorOK'
      BY <1>1, <1>3, <2>4, <3>1 DEF ConnectorOK, CommandState
    <3>3. QED BY <1>2, <3>2, CallKeepsBase
  <2>5. QED BY <2>1, <2>2, <2>3, <2>4 DEF ObsEffect
<1>6. QED BY <1>4, <1>5

\* A new call.
LEMMA BeginKeepsBase ==
  ASSUME RemoteBase, NEW c \in Calls, NEW k \in {"publish", "unpublish"}, BeginRemote(c, k),
         UNCHANGED connector, RemoteHistory
  PROVE  RemoteBase'
<1> USE DEF RemoteBase
<1>1. /\ pc \in [Calls -> {"idle"} \cup RemoteStep] /\ reply \in [Calls -> {"none", "OK", "ERR"}]
      /\ errand \in [Calls -> {"none", "publish", "unpublish"}]
  BY DEF RemoteTypeOK
<1>2. PICK l \in RemoteStep : /\ pc' = [pc EXCEPT ![c] = l]
                              /\ l = IF k = "publish" THEN "GetExport" ELSE "CheckBusy"
  BY DEF BeginRemote, Enter, RemoteStep, PublishSteps, UnpublishSteps
<1>3. /\ reply' = [reply EXCEPT ![c] = "none"] /\ errand' = [errand EXCEPT ![c] = k] /\ up /\ pc[c] = "idle"
      /\ UNCHANGED <<paths, mounts, umountKind, server, up>>
  BY DEF BeginRemote, Enter, kernel
<1>4. TargetExists' /\ SharesAlone' /\ MountsAre(Content)'
  BY <1>3 DEF TargetExists, SharesAlone, IsMounted, Shows, MountsAre, RemoteTypeOK
<1>5. RemoteOrder'
  <2>1. l \in PublishSteps => k = "publish"
    BY <1>2 DEF PublishSteps
  <2>2. l \in UnpublishSteps => k = "unpublish"
    BY <1>2 DEF UnpublishSteps, UnmountSteps
  <2>3. l \notin {"Post", "Await"} /\ file[c] = NoFile
    BY <1>2, <1>3 DEF RemoteOrder
  <2>4. UNCHANGED file
    BY DEF connector
  <2>5. QED BY <1>1, <1>2, <1>3, <2>1, <2>2, <2>3, <2>4 DEF RemoteOrder
<1>6. RemoteTypeOK'
  BY <1>1, <1>2, <1>3, <1>4, FoundTyping DEF RemoteTypeOK, connector
<1>7. QED BY <1>4, <1>5, <1>6

\* What the connector does to the mounts, and to its commands.
LEMMA ConnectorEffect ==
  ASSUME RemoteBase, StopConnector \/ (\E f \in FileIds : CheckParameters(f) \/ RunObsfs(f))
  PROVE  /\ MountsAre(Content)' /\ TargetExists' /\ UNCHANGED <<paths, umountKind>>
         /\ command' \in [FileIds -> CommandState] /\ files' \subseteq files
<1> USE DEF RemoteBase
<1>1. /\ MountsAre(Content) /\ "target" \in Path /\ "bucket" \in Content
      /\ command \in [FileIds -> CommandState]
  BY DEF RemoteTypeOK, Path, Content
<1>2. ASSUME NEW f \in FileIds, NEW s \in CommandState, Answered(f, s)
      PROVE  command' \in [FileIds -> CommandState]
  BY <1>1, <1>2 DEF Answered, CommandState
<1>3. CASE StopConnector
  <2>1. MountsAre(Content)' /\ (IsMounted("target")' <=> IsMounted("target"))
    BY <1>1, <1>3, KilledInPlace DEF StopConnector
  <2>2. command' \in [FileIds -> CommandState]
    BY <1>1, <1>3 DEF StopConnector, CommandState
  <2>3. QED BY <1>3, <2>1, <2>2 DEF StopConnector, TargetExists
<1>4. ASSUME NEW f \in FileIds, CheckParameters(f)
      PROVE  /\ MountsAre(Content)' /\ TargetExists' /\ UNCHANGED <<paths, umountKind>>
             /\ command' \in [FileIds -> CommandState] /\ files' \subseteq files
  <2>1. UNCHANGED <<mounts, paths, umountKind, files>>
    BY <1>4 DEF CheckParameters, kernel
  <2>2. command' \in [FileIds -> CommandState]
    BY <1>1, <1>2, <1>4 DEF CheckParameters, CommandState
  <2>3. QED BY <1>1, <2>1, <2>2 DEF MountsAre, TargetExists, IsMounted
<1>5. ASSUME NEW f \in FileIds, RunObsfs(f)
      PROVE  /\ MountsAre(Content)' /\ TargetExists' /\ UNCHANGED <<paths, umountKind>>
             /\ command' \in [FileIds -> CommandState] /\ files' \subseteq files
  <2>1. command' \in [FileIds -> CommandState]
    BY <1>2, <1>5 DEF RunObsfs, CommandState
  <2>2. CASE Stack("target", "bucket")
    BY <1>1, <1>5, <2>1, <2>2, Pushed DEF RunObsfs, TargetExists
  <2>3. CASE UNCHANGED kernel
    BY <1>1, <1>5, <2>1, <2>3 DEF RunObsfs, MountsAre, TargetExists, IsMounted, kernel
  <2>4. QED BY <1>5, <2>2, <2>3 DEF RunObsfs
<1>6. QED BY <1>3, <1>4, <1>5

\* The two processes die, and start.
LEMMA ProcessesKeepBase ==
  ASSUME RemoteBase, ConnectorNext \/ DriverDies \/ DriverStarts, RemoteHistory
  PROVE  RemoteBase'
<1> USE DEF RemoteBase
<1>1. UNCHANGED <<server, errand, umountKind, paths>>
  BY ConnectorEffect DEF ConnectorNext, ConnectorDies, DriverDies, DriverStarts, kernel, remote
<1>2. CASE ConnectorNext
  <2>1. UNCHANGED <<up, file, spoiled, pc, reply>> /\ server = "obs"
    BY <1>2 DEF ConnectorNext, remote
  <2>2. /\ MountsAre(Content)' /\ TargetExists'
        /\ command' \in [FileIds -> CommandState] /\ files' \subseteq files
    BY <1>2, ConnectorEffect DEF ConnectorNext, ConnectorDies
  <2>3. RemoteTypeOK'
    BY <1>1, <2>1, <2>2, FoundTyping DEF RemoteTypeOK
  <2>4. RemoteOrder' /\ SharesAlone'
    BY <1>1, <2>1 DEF RemoteOrder, SharesAlone
  <2>5. QED BY <2>2, <2>3, <2>4
<1>3. CASE DriverDies
  <2>1. /\ UNCHANGED <<mounts, paths, files>> /\ \A c \in Calls : pc'[c] = "idle" /\ file'[c] = NoFile
        /\ up' \in BOOLEAN /\ spoiled' \in BOOLEAN
    BY <1>3 DEF DriverDies, CrashCalls, kernel, RemoteTypeOK
  <2>2. pc' \in [Calls -> {"idle"} \cup RemoteStep] /\ reply' \in [Calls -> {"none", "OK", "ERR"}]
        /\ file' \in [Calls -> FileIds \cup {NoFile}] /\ command' \in [FileIds -> CommandState]
    BY <1>3 DEF DriverDies, CrashCalls, RemoteTypeOK, CommandState
  <2>3. TargetExists' /\ SharesAlone' /\ MountsAre(Content)'
    BY <1>1, <2>1 DEF TargetExists, SharesAlone, IsMounted, Shows, MountsAre, RemoteTypeOK
  <2>4. RemoteOrder'
    BY <2>1 DEF RemoteOrder, PublishSteps, UnpublishSteps, UnmountSteps
  <2>5. RemoteTypeOK'
    BY <1>1, <2>1, <2>2, <2>3, FoundTyping DEF RemoteTypeOK
  <2>6. QED BY <2>3, <2>4, <2>5
<1>4. CASE DriverStarts
  <2>1. UNCHANGED <<file, spoiled, pc, reply>> /\ ~up /\ up'
    BY <1>4 DEF DriverStarts
  <2>2. /\ MountsAre(Content)' /\ TargetExists' /\ SharesAlone'
        /\ command' \in [FileIds -> CommandState] /\ files' \subseteq files
    <3>1. CASE server = "obs"
      BY <1>1, <1>4, <3>1, ConnectorEffect DEF DriverStarts, SharesAlone
    <3>2. CASE server # "obs"
      BY <1>4, <3>2 DEF DriverStarts, kernel, TargetExists, SharesAlone, IsMounted, Shows, MountsAre, RemoteTypeOK
    <3>3. QED BY <3>1, <3>2
  <2>3. RemoteTypeOK'
    BY <1>1, <2>1, <2>2, FoundTyping DEF RemoteTypeOK
  <2>4. RemoteOrder'
    BY <1>1, <2>1 DEF RemoteOrder
  <2>5. QED BY <2>2, <2>3, <2>4
<1>5. QED BY <1>2, <1>3, <1>4

\* The steps of the system, sorted by who takes them.
LEMMA WhoSteps ==
  ASSUME [RemoteNext]_remoteVars
  PROVE  \/ \E c \in Calls : /\ RemoteHistory
                             /\ (RemoteHandle(c) /\ UNCHANGED <<remote, connector>>) \/ ObsHandle(c)
         \/ \E c \in Calls, k \in {"publish", "unpublish"} :
              BeginRemote(c, k) /\ UNCHANGED connector /\ RemoteHistory
         \/ (ConnectorNext \/ DriverDies \/ DriverStarts) /\ RemoteHistory
         \/ UNCHANGED remoteVars
BY DEF RemoteNext

\* The initial states, as one condition.
RemoteBegins == RemoteInit /\ ObsInit /\ NoMounts /\ NoCalls

\* The types, the order of the calls and the mounts of shares are as they should be, in
\* every state.
LEMMA RemoteGrounding == RemoteSpec => []RemoteBase
<1>1. RemoteBegins => RemoteBase
  <2> SUFFICES ASSUME RemoteBegins PROVE RemoteBase
    OBVIOUS
  <2>1. mounts = [p \in Path |-> <<>>] /\ MountsAre(Content) /\ Len(mounts["target"]) = 0
    BY DEF RemoteBegins, NoMounts, MountsAre, Content, Path
  <2>2. TargetExists /\ SharesAlone
    BY <2>1 DEF TargetExists, SharesAlone, IsMounted, Path
  <2>3. QED BY <2>1, <2>2 DEF RemoteBegins, RemoteInit, ObsInit, NoMounts, NoCalls, RemoteBase, RemoteTypeOK,
                 RemoteOrder, PublishSteps, UnpublishSteps, UnmountSteps, CommandState
<1>2. RemoteBase /\ [RemoteNext]_remoteVars => RemoteBase'
  <2> SUFFICES ASSUME RemoteBase, [RemoteNext]_remoteVars PROVE RemoteBase'
    OBVIOUS
  <2>1. CASE UNCHANGED remoteVars
    BY <2>1 DEF remoteVars, RemoteBase, RemoteTypeOK, RemoteOrder, TargetExists, SharesAlone, IsMounted, Shows, MountsAre
  <2>2. QED BY <2>1, WhoSteps, HandlersKeepBase, BeginKeepsBase, ProcessesKeepBase
<1>3. QED BY <1>1, <1>2, PTL DEF RemoteSpec, RemoteBegins

\* Every variable of the node servers for shares and buckets stays in its range.
THEOREM RemoteTypeCorrect == RemoteSpec => []RemoteTypeOK
BY RemoteGrounding, PTL DEF RemoteBase

----------------------------------------------------------------------------
(* Shares and buckets: what an answer says was seen.                       *)

\* What a call has seen of the target when its command is done, or it answered.
Frank(c) ==
  /\ file[c] # NoFile /\ command[file[c]] = "done" => "mounted" \in found[c]
  /\ ~InProgress(c) /\ reply[c] = "OK" =>
       /\ errand[c] = "publish" => "mounted" \in found[c]
       /\ errand[c] = "unpublish" => "free" \in found[c]

\* A call keeps what it has seen, unless it fails.
LEMMA FoundGrows ==
  ASSUME RemoteBase, RemoteHistory, NEW c \in Calls, reply'[c] # "ERR"
  PROVE  /\ InProgress(c) => found'[c] = found[c] \cup TargetFacts(c)'
         /\ ~InProgress(c) /\ ~InProgress(c)' => found'[c] = found[c]
BY DEF RemoteHistory

\* A call that does nothing, or ends without an answer, is as frank as before, if no
\* command is done meanwhile.
LEMMA StaysFrank ==
  ASSUME RemoteBase, RemoteHistory, NEW c \in Calls, Frank(c),
         \/ pc'[c] = pc[c] /\ reply'[c] = reply[c] /\ file'[c] = file[c]
         \/ pc'[c] = "idle" /\ reply'[c] = "ERR" /\ file'[c] = NoFile,
         errand'[c] = errand[c],
         \A f \in FileIds : command'[f] = "done" => command[f] = "done"
  PROVE  Frank(c)'
<1> USE DEF RemoteBase
<1>1. file[c] \in FileIds \cup {NoFile}
  BY DEF RemoteTypeOK
<1>2. CASE pc'[c] = "idle" /\ reply'[c] = "ERR" /\ file'[c] = NoFile
  BY <1>2 DEF Frank
<1>3. CASE pc'[c] = pc[c] /\ reply'[c] = reply[c] /\ file'[c] = file[c] /\ InProgress(c)
  <2>1. found[c] \subseteq found'[c]
    BY <1>3, FoundGrows DEF RemoteOrder
  <2>2. QED BY <1>1, <1>3, <2>1 DEF Frank
<1>4. CASE pc'[c] = pc[c] /\ reply'[c] = reply[c] /\ file'[c] = file[c] /\ ~InProgress(c)
  <2>1. file[c] = NoFile
    BY <1>4 DEF RemoteOrder
  <2>2. reply[c] = "OK" => found'[c] = found[c]
    BY <1>4, FoundGrows
  <2>3. QED BY <1>4, <2>1, <2>2 DEF Frank
<1>5. QED BY <1>2, <1>3, <1>4

\* A call that takes a step stays frank.
LEMMA StepIsFrank ==
  ASSUME RemoteBase, NEW c \in Calls, Frank(c), RemoteHistory,
         (RemoteHandle(c) /\ UNCHANGED <<remote, connector>>) \/ ObsHandle(c)
  PROVE  Frank(c)'
<1> USE DEF RemoteBase
<1>1. RemoteEffect(c) /\ reply'[c] \in {"none", "OK", "ERR"}
  <2>1. RemoteEffect(c) /\ reply \in [Calls -> {"none", "OK", "ERR"}]
    BY ServerEffect, ObsStepEffect DEF RemoteTypeOK
  <2>2. QED BY <2>1 DEF RemoteEffect, Continues, Goto, Return
<1>2. reply'[c] = "ERR" => pc'[c] = "idle"
  BY <1>1 DEF RemoteEffect, Continues, Goto, Return, RemoteOrder, RemoteTypeOK
<1>3. InProgress(c) /\ errand'[c] = errand[c]
  BY <1>1 DEF RemoteEffect
<1>4. reply'[c] # "ERR" => found'[c] = found[c] \cup TargetFacts(c)'
  BY <1>3, FoundGrows
<1>5. CASE RemoteHandle(c) /\ UNCHANGED <<remote, connector>>
  <2>1. file'[c] = NoFile
    BY <1>5, ServerEffect DEF RemoteOrder, connector
  <2>2. reply'[c] = "OK" => AnswerHolds(c)
    BY <1>5, ServerEffect
  <2>3. reply'[c] = "OK" =>
          /\ errand[c] = "publish" => "mounted" \in found'[c]
          /\ errand[c] = "unpublish" => "free" \in found'[c]
    BY <1>4, <2>2 DEF AnswerHolds, TargetFacts
  <2>4. QED BY <1>3, <2>1, <2>3 DEF Frank
<1>6. CASE ObsHandle(c)
  <2>1. ObsEffect(c) /\ errand[c] = "publish"
    <3>1. ObsEffect(c)
      BY <1>6, ObsStepEffect
    <3>2. QED BY <3>1 DEF ObsEffect, RemoteOrder, PublishSteps
  <2>2. /\ file \in [Calls -> FileIds \cup {NoFile}] /\ command \in [FileIds -> CommandState]
        /\ file[c] # NoFile <=> pc[c] \in {"Post", "Await"}
    BY DEF RemoteTypeOK, RemoteOrder
  <2>3. CASE pc[c] = "Credential"
    <3>1. reply'[c] # "OK" /\ (file'[c] = NoFile \/ command'[file'[c]] = "none")
      BY <2>1, <2>2, <2>3 DEF ObsEffect, Fresh
    <3>2. QED BY <3>1 DEF Frank
  <2>4. CASE pc[c] = "Post" /\ pc'[c] = "Await"
    <3>1. reply'[c] # "OK" /\ file'[c] \in FileIds /\ command'[file'[c]] = "posted"
      BY <2>1, <2>2, <2>4 DEF ObsEffect
    <3>2. QED BY <3>1 DEF Frank
  <2>5. CASE pc[c] \in {"Post", "Await"} /\ pc'[c] = "idle"
    <3>1. file'[c] = NoFile
      BY <2>1, <2>2, <2>5 DEF ObsEffect, Leave
    <3>2. reply'[c] = "OK" => command[file[c]] = "done"
      BY <2>1, <2>5 DEF ObsEffect
    <3>3. reply'[c] = "OK" => "mounted" \in found[c]
      BY <2>2, <2>5, <3>2 DEF Frank
    <3>4. reply'[c] = "OK" => "mounted" \in found'[c]
      BY <1>4, <3>3
    <3>5. QED BY <1>3, <2>1, <3>1, <3>4 DEF Frank
  <2>6. QED BY <2>1, <2>3, <2>4, <2>5 DEF ObsEffect
<1>7. QED BY <1>5, <1>6

\* No step but that of the connector has a command done, and then the bucket is seen.
LEMMA FrankStep ==
  ASSUME RemoteBase, [RemoteNext]_remoteVars, NEW d \in Calls, Frank(d)
  PROVE  Frank(d)'
<1> USE DEF RemoteBase
<1>1. /\ file \in [Calls -> FileIds \cup {NoFile}] /\ command \in [FileIds -> CommandState]
      /\ pc \in [Calls -> {"idle"} \cup RemoteStep] /\ reply \in [Calls -> {"none", "OK", "ERR"}]
      /\ errand \in [Calls -> {"none", "publish", "unpublish"}]
  BY DEF RemoteTypeOK
<1>2. ASSUME NEW c \in Calls, RemoteHistory,
             (RemoteHandle(c) /\ UNCHANGED <<remote, connector>>) \/ ObsHandle(c)
      PROVE  Frank(d)'
  <2>1. RemoteEffect(c)
    BY <1>2, ServerEffect, ObsStepEffect
  <2>2. d # c => pc'[d] = pc[d] /\ reply'[d] = reply[d]
    BY <1>1, <2>1 DEF RemoteEffect, Continues, Goto, Return
  <2>3. /\ d # c => file'[d] = file[d]
        /\ \A f \in FileIds : command'[f] = "done" => command[f] = "done"
    <3>1. CASE UNCHANGED connector
      BY <3>1 DEF connector
    <3>2. CASE ObsHandle(c)
      <4>1. ObsEffect(c)
        BY <3>2, ObsStepEffect
      <4>2. QED BY <1>1, <4>1 DEF ObsEffect, Leave
    <3>3. QED BY <1>2, <3>1, <3>2
  <2>4. errand'[d] = errand[d]
    BY <2>1 DEF RemoteEffect
  <2>5. QED BY <1>2, <2>2, <2>3, <2>4, StaysFrank, StepIsFrank
<1>3. ASSUME NEW c \in Calls, NEW k \in {"publish", "unpublish"}, BeginRemote(c, k),
             UNCHANGED connector, RemoteHistory
      PROVE  Frank(d)'
  <2>1. /\ d # c => pc'[d] = pc[d] /\ reply'[d] = reply[d] /\ errand'[d] = errand[d]
        /\ d = c => pc'[d] # "idle" /\ pc[d] = "idle"
        /\ UNCHANGED <<file, command>>
    BY <1>1, <1>3 DEF BeginRemote, Enter, connector
  <2>2. d = c => file[d] = NoFile
    BY <2>1 DEF RemoteOrder
  <2>3. CASE d = c
    BY <2>1, <2>2, <2>3 DEF Frank
  <2>4. CASE d # c
    BY <1>3, <2>1, <2>4, StaysFrank
  <2>5. QED BY <2>3, <2>4
<1>4. CASE ConnectorNext /\ RemoteHistory
  <2>1. UNCHANGED <<errand, file, pc, reply>>
    BY <1>4 DEF ConnectorNext, remote
  <2>2. ASSUME NEW f \in FileIds, RunObsfs(f), Stack("target", "bucket") PROVE Frank(d)'
    <3>1. Shows("target")' = "bucket"
      BY <2>2, Pushed DEF RemoteTypeOK, Content, Path
    <3>2. "mounted" \in TargetFacts(d)'
      BY <3>1 DEF TargetFacts
    <3>3. file[d] # NoFile => "mounted" \in found'[d]
      <4>1. file[d] # NoFile => InProgress(d) /\ reply'[d] # "ERR"
        BY <2>1 DEF RemoteOrder
      <4>2. QED BY <1>4, <3>2, <4>1, FoundGrows
    <3>4. ~InProgress(d) /\ reply[d] = "OK" => found'[d] = found[d]
      BY <1>4, <2>1, FoundGrows
    <3>5. QED BY <2>1, <3>3, <3>4 DEF Frank
  <2>3. CASE \A f \in FileIds : command'[f] = "done" => command[f] = "done"
    BY <1>4, <2>1, <2>3, StaysFrank
  <2>4. ASSUME NEW f \in FileIds, CheckParameters(f) PROVE \A g \in FileIds : command'[g] = "done" => command[g] = "done"
    BY <1>1, <2>4 DEF CheckParameters, Answered
  <2>5. ASSUME NEW f \in FileIds, RunObsfs(f), ~Stack("target", "bucket")
        PROVE  \A g \in FileIds : command'[g] = "done" => command[g] = "done"
    BY <1>1, <2>5 DEF RunObsfs, Answered
  <2>6. StopConnector => \A f \in FileIds : command'[f] = "done" => command[f] = "done"
    BY <1>1 DEF StopConnector
  <2>7. QED BY <1>4, <2>2, <2>3, <2>4, <2>5, <2>6 DEF ConnectorNext, ConnectorDies
<1>5. CASE DriverDies /\ RemoteHistory
  <2>1. errand'[d] = errand[d] /\ (\A f \in FileIds : command'[f] = "done" => command[f] = "done")
    BY <1>1, <1>5 DEF DriverDies
  <2>2. \/ pc'[d] = pc[d] /\ reply'[d] = reply[d] /\ file'[d] = file[d]
        \/ pc'[d] = "idle" /\ reply'[d] = "ERR" /\ file'[d] = NoFile
    BY <1>5 DEF DriverDies, CrashCalls, RemoteOrder
  <2>3. QED BY <1>5, <2>1, <2>2, StaysFrank
<1>6. CASE DriverStarts /\ RemoteHistory
  <2>1. UNCHANGED <<errand, file, pc, reply>>
    BY <1>6 DEF DriverStarts
  <2>2. \A f \in FileIds : command'[f] = "done" => command[f] = "done"
    BY <1>1, <1>6 DEF DriverStarts, StopConnector
  <2>3. QED BY <1>6, <2>1, <2>2, StaysFrank
<1>7. CASE UNCHANGED remoteVars
  BY <1>7 DEF remoteVars, Frank
<1>8. QED BY <1>2, <1>3, <1>4, <1>5, <1>6, <1>7, WhoSteps

\* A publish call that answers OK saw the share or the bucket at the target, and an
\* unpublish call nothing, whatever calls and dying processes did meanwhile.
THEOREM RemoteAnswersHonest == RemoteSpec => []RemoteAnswersAreHonest
<1>1. RemoteBegins => \A c \in Calls : Frank(c)
  BY DEF RemoteBegins, ObsInit, NoCalls, Frank
<1>2. RemoteBase /\ (\A c \in Calls : Frank(c)) /\ [RemoteNext]_remoteVars => (\A c \in Calls : Frank(c))'
  BY FrankStep
<1>3. (\A c \in Calls : Frank(c)) => RemoteAnswersAreHonest
  BY DEF Frank, RemoteAnswersAreHonest
<1>4. QED BY <1>1, <1>2, <1>3, RemoteGrounding, PTL DEF RemoteSpec, RemoteBegins

----------------------------------------------------------------------------
(* Credential files.                                                       *)

\* Unless one was left behind, every file is that of a call.
FilesOwned == spoiled \/ \A f \in files : \E c \in Calls : file[c] = f

\* Whoever deletes a file, none is left without its call.
LEMMA FilesStep ==
  ASSUME RemoteBase, FilesOwned, [RemoteNext]_remoteVars
  PROVE  FilesOwned'
<1> USE DEF RemoteBase
<1>1. /\ file \in [Calls -> FileIds \cup {NoFile}] /\ files \subseteq FileIds /\ spoiled \in BOOLEAN
  BY DEF RemoteTypeOK
<1>2. CASE UNCHANGED connector
  BY <1>2 DEF connector, FilesOwned
<1>3. ASSUME NEW c \in Calls, ObsHandle(c) PROVE FilesOwned'
  <2>1. ObsEffect(c)
    BY <1>3, ObsStepEffect
  <2>2. CASE pc[c] = "Credential" /\ pc'[c] = "Post"
    <3>1. PICK f \in Fresh : files' = files \cup {f} /\ file' = [file EXCEPT ![c] = f]
      BY <2>1, <2>2 DEF ObsEffect
    <3>2. file[c] = NoFile /\ UNCHANGED spoiled
      BY <2>1, <2>2 DEF ObsEffect, RemoteOrder
    <3>3. \A g \in files : g # NoFile
      BY <1>1, FileIdsAssumption
    <3>4. \A d \in Calls : d # c => file'[d] = file[d]
      BY <1>1, <3>1
    <3>5. file'[c] = f
      BY <1>1, <3>1
    <3>6. QED BY <3>1, <3>2, <3>3, <3>4, <3>5 DEF FilesOwned
  <2>3. CASE pc[c] = "Credential" /\ pc'[c] = "idle"
    BY <1>1, <2>1, <2>3 DEF ObsEffect, FilesOwned
  <2>4. CASE pc[c] = "Post" /\ pc'[c] = "Await"
    BY <2>1, <2>4 DEF ObsEffect, FilesOwned
  <2>5. CASE pc[c] \in {"Post", "Await"} /\ pc'[c] = "idle"
    <3>1. files' = files \ {file[c]} /\ file' = [file EXCEPT ![c] = NoFile] /\ UNCHANGED spoiled
      BY <2>1, <2>5 DEF ObsEffect, Leave, WithoutFile
    <3>2. \A d \in Calls : d # c => file'[d] = file[d]
      BY <1>1, <3>1
    <3>3. QED BY <3>1, <3>2 DEF FilesOwned
  <2>6. QED BY <2>1, <2>2, <2>3, <2>4, <2>5 DEF ObsEffect
<1>4. CASE ConnectorNext \/ DriverStarts
  <2>1. UNCHANGED <<file, spoiled>>
    BY <1>4 DEF ConnectorNext, DriverStarts
  <2>2. files' \subseteq files
    BY <1>4, ConnectorEffect DEF ConnectorNext, ConnectorDies, DriverStarts
  <2>3. QED BY <2>1, <2>2 DEF FilesOwned
<1>5. CASE DriverDies
  <2>1. UNCHANGED files /\ spoiled' = (spoiled \/ \E c \in Calls : file[c] \in files)
    BY <1>5 DEF DriverDies
  <2>2. QED BY <2>1 DEF FilesOwned
<1>6. CASE UNCHANGED remoteVars
  BY <1>2, <1>6 DEF remoteVars, connector
<1>7. QED BY <1>2, <1>3, <1>4, <1>5, <1>6, WhoSteps

\* Unless the driver died or could not write it, no credential file outlives its call.
THEOREM NoCredentialStays == RemoteSpec => []CredentialsRemoved
<1>1. RemoteBegins => FilesOwned
  BY DEF RemoteBegins, ObsInit, FilesOwned
<1>2. RemoteBase /\ FilesOwned /\ [RemoteNext]_remoteVars => FilesOwned'
  BY FilesStep
<1>3. RemoteBase /\ FilesOwned => CredentialsRemoved
  <2> SUFFICES ASSUME RemoteBase, FilesOwned, ~spoiled, NEW f \in files
               PROVE  f \in {file[c] : c \in {d \in Calls : InProgress(d)}}
    BY DEF CredentialsRemoved
  <2>1. PICK c \in Calls : file[c] = f
    BY DEF FilesOwned
  <2>2. f # NoFile
    BY FileIdsAssumption DEF RemoteBase, RemoteTypeOK
  <2>3. InProgress(c)
    BY <2>1, <2>2 DEF RemoteBase, RemoteOrder
  <2>4. QED BY <2>1, <2>3
<1>4. QED BY <1>1, <1>2, <1>3, RemoteGrounding, PTL DEF RemoteSpec, RemoteBegins

----------------------------------------------------------------------------
(* The mounts stacked upon a target.                                       *)

\* The calls that will have a bucket mounted, those that wait for it, and the
\* commands the connector has not answered.
Underway == {c \in Calls : pc[c] \in {"MakeTarget", "Credential", "Post"}}
Waiting == {c \in Calls : pc[c] = "Await"}
Pending == {f \in FileIds : command[f] \in {"posted", "mounting"}}

\* While the driver runs, somebody waits for every command; the mounts there are
\* and those to come are no more than the calls.
StacksCounted ==
  server = "obs" =>
    /\ up => \A f \in Pending : \E c \in Waiting : file[c] = f
    /\ IsFiniteSet(Pending)
    /\ Len(mounts["target"]) + Cardinality(Underway) + Cardinality(Pending) <= Cardinality(Calls)

\* Sets of calls are finite, and so are those of the commands.
LEMMA CountingCalls ==
  /\ Cardinality(Calls) \in Nat
  /\ \A T \in SUBSET Calls :
       IsFiniteSet(T) /\ Cardinality(T) \in Nat /\ Cardinality(T) <= Cardinality(Calls)
<1>1. \A T \in SUBSET Calls : IsFiniteSet(T) /\ Cardinality(T) <= Cardinality(Calls)
  BY FS_Subset, CallsAssumption
<1>2. QED BY <1>1, FS_CardinalityType, CallsAssumption

\* Two sets of calls without a common one have no more than all calls.
LEMMA CountingDisjoint ==
  ASSUME NEW T \in SUBSET Calls, NEW U \in SUBSET Calls, T \cap U = {}
  PROVE  Cardinality(T) + Cardinality(U) <= Cardinality(Calls)
<1>1. IsFiniteSet(T) /\ IsFiniteSet(U)
  BY CountingCalls
<1>2. Cardinality(T \cup U) = Cardinality(T) + Cardinality(U) - Cardinality(T \cap U)
  BY <1>1, FS_Union
<1>3. Cardinality(T \cap U) = 0
  BY FS_EmptySet
<1>4. T \cup U \in SUBSET Calls
  OBVIOUS
<1>5. QED BY <1>2, <1>3, <1>4, CountingCalls

\* The commands somebody waits for are no more than those who wait.
LEMMA CountingPending ==
  ASSUME IsFiniteSet(Pending), \A f \in Pending : \E c \in Waiting : file[c] = f
  PROVE  Cardinality(Pending) <= Cardinality(Waiting)
<1> DEFINE Waiter == {c \in Waiting : file[c] \in Pending}
           g == [c \in Waiter |-> file[c]]
<1>1. Waiter \in SUBSET Calls /\ Waiting \in SUBSET Calls
  BY DEF Waiting
<1>2. IsFiniteSet(Waiter) /\ Cardinality(Waiter) <= Cardinality(Waiting)
  BY <1>1, CountingCalls, FS_Subset
<1>3. g \in Surjection(Waiter, Pending)
  <2>1. g \in [Waiter -> Pending]
    OBVIOUS
  <2>2. \A f \in Pending : \E c \in Waiter : g[c] = f
    OBVIOUS
  <2>3. QED BY <2>1, <2>2 DEF Surjection
<1>4. Cardinality(Pending) <= Cardinality(Waiter)
  BY <1>2, <1>3, FS_Surjection
<1>5. /\ Cardinality(Pending) \in Nat /\ Cardinality(Waiter) \in Nat /\ Cardinality(Waiting) \in Nat
  BY <1>1, CountingCalls, FS_CardinalityType
<1>6. QED BY <1>2, <1>4, <1>5

\* A step that adds neither a mount, nor a call underway, nor a command keeps the count.
LEMMA NothingStacked ==
  ASSUME RemoteBase, RemoteBase', StacksCounted, server = "obs", UNCHANGED server,
         Underway' \subseteq Underway, Pending' \subseteq Pending,
         Len(mounts'["target"]) <= Len(mounts["target"]),
         up' => \A f \in Pending' : \E c \in Waiting' : file'[c] = f
  PROVE  StacksCounted'
<1>1. Underway \in SUBSET Calls /\ Underway' \in SUBSET Calls
  BY DEF Underway
<1>2. Cardinality(Underway') <= Cardinality(Underway)
  BY <1>1, CountingCalls, FS_Subset
<1>3. IsFiniteSet(Pending) /\ IsFiniteSet(Pending') /\ Cardinality(Pending') <= Cardinality(Pending)
  BY FS_Subset DEF StacksCounted
<1>4. "target" \in Path /\ MountsAre(Content) /\ MountsAre(Content)'
  BY DEF Path, RemoteBase, RemoteTypeOK
<1>5. Len(mounts["target"]) \in Nat /\ Len(mounts'["target"]) \in Nat
  BY <1>4 DEF MountsAre
<1>6. /\ Cardinality(Underway) \in Nat /\ Cardinality(Underway') \in Nat
      /\ Cardinality(Pending) \in Nat /\ Cardinality(Pending') \in Nat
      /\ Cardinality(Calls) \in Nat
  BY <1>1, <1>3, CountingCalls, FS_CardinalityType
<1>7. QED BY <1>2, <1>3, <1>5, <1>6 DEF StacksCounted

\* A call sets out to have the bucket mounted only when nothing is: there is room
\* for all of them, and for the commands of those that wait.
LEMMA CheckKeepsCount ==
  ASSUME RemoteBase, RemoteBase', StacksCounted, server = "obs", NEW c \in Calls, CheckTarget(c),
         pc'[c] = "MakeTarget", UNCHANGED <<remote, connector>>
  PROVE  StacksCounted'
<1> USE DEF RemoteBase
<1>1. /\ pc \in [Calls -> {"idle"} \cup RemoteStep] /\ MountsAre(Content) /\ "target" \in Path
      /\ UNCHANGED <<server, up, file, command, mounts>>
  BY DEF RemoteTypeOK, Path, remote, connector, CheckTarget, kernel
<1>2. pc' = [pc EXCEPT ![c] = "MakeTarget"] /\ ~FoundAtTarget /\ pc[c] = "CheckTarget"
  BY <1>1 DEF CheckTarget, Goto, Return
<1>3. Len(mounts["target"]) = 0
  BY <1>1, <1>2, WhatIsSeen DEF FoundAtTarget, LikelyMounted, TargetExists
<1>4. Waiting' = Waiting /\ Pending' = Pending /\ up
  BY <1>1, <1>2 DEF Waiting, Pending, RemoteOrder
<1>5. Waiting \in SUBSET Calls /\ Underway' \in SUBSET Calls /\ Waiting \cap Underway' = {}
  BY <1>1, <1>2 DEF Waiting, Underway
<1>6. Cardinality(Waiting) + Cardinality(Underway') <= Cardinality(Calls)
  BY <1>5, CountingDisjoint
<1>7. IsFiniteSet(Pending) /\ Cardinality(Pending) <= Cardinality(Waiting)
  BY <1>4, CountingPending DEF StacksCounted
<1>8. /\ Cardinality(Waiting) \in Nat /\ Cardinality(Underway') \in Nat /\ Cardinality(Calls) \in Nat
      /\ Cardinality(Pending) \in Nat
  BY <1>5, <1>7, CountingCalls, FS_CardinalityType
<1>9. Len(mounts'["target"]) = 0
  BY <1>1, <1>3
<1>10. 0 + Cardinality(Underway') + Cardinality(Pending') <= Cardinality(Calls)
  BY <1>4, <1>6, <1>7, <1>8
<1>11. up => \A f \in Pending' : \E d \in Waiting' : file'[d] = f
  BY <1>1, <1>4 DEF StacksCounted
<1>12. QED BY <1>1, <1>4, <1>7, <1>9, <1>10, <1>11 DEF StacksCounted

\* The other steps of a node server add nothing.
LEMMA ServerKeepsCount ==
  ASSUME RemoteBase, RemoteBase', StacksCounted, server = "obs", NEW c \in Calls, RemoteHandle(c),
         UNCHANGED <<remote, connector>>
  PROVE  StacksCounted'
<1> USE DEF RemoteBase
<1>1. /\ pc \in [Calls -> {"idle"} \cup RemoteStep] /\ MountsAre(Content) /\ "target" \in Path
      /\ UNCHANGED <<server, up, file, command>>
  BY DEF RemoteTypeOK, Path, remote, connector
<1>2. /\ RemoteEffect(c) /\ pc[c] \notin {"Credential", "Post", "Await"} /\ pc'[c] \notin {"Post", "Await"}
  BY ServerEffect
<1>3. \A d \in Calls : d # c => pc'[d] = pc[d]
  BY <1>1, <1>2 DEF RemoteEffect, Continues, Goto, Return
<1>4. Waiting' = Waiting /\ Pending' = Pending
  BY <1>1, <1>2, <1>3 DEF Waiting, Pending
<1>5. CASE CheckTarget(c) /\ pc'[c] = "MakeTarget"
  BY <1>5, CheckKeepsCount
<1>6. CASE ~(CheckTarget(c) /\ pc'[c] = "MakeTarget")
  <2>1. pc'[c] = "MakeTarget" => FALSE
    BY <1>1, <1>6 DEF RemoteHandle, TurboNode, SfsNode, ObsNode, GetExport, CheckTarget, MakeTarget, CheckBusy,
         UnmountPath, Cleanup, Umount, RemovePath, Proceed, Goto, Return
  <2>2. pc'[c] = "Credential" => pc[c] = "MakeTarget"
    BY <1>1 DEF RemoteHandle, TurboNode, SfsNode, ObsNode, GetExport, CheckTarget, MakeTarget, CheckBusy,
         UnmountPath, Cleanup, Umount, RemovePath, Proceed, Goto, Return
  <2>3. Underway' \subseteq Underway
    BY <1>2, <1>3, <2>1, <2>2 DEF Underway
  <2>4. Len(mounts["target"]) \in Nat
    BY <1>1, WhatIsSeen
  <2>5. Len(mounts'["target"]) <= Len(mounts["target"])
    BY <1>1, <1>2, <2>4, Popped DEF RemoteEffect
  <2>6. up => \A f \in Pending' : \E d \in Waiting' : file'[d] = f
    BY <1>1, <1>4 DEF StacksCounted
  <2>7. QED BY <1>1, <1>4, <2>3, <2>5, <2>6, NothingStacked
<1>7. QED BY <1>5, <1>6

\* A posted command takes its call off those underway.
LEMMA ObsKeepsCount ==
  ASSUME RemoteBase, RemoteBase', StacksCounted, server = "obs", NEW c \in Calls, ObsHandle(c)
  PROVE  StacksCounted'
<1> USE DEF RemoteBase
<1>1. /\ pc \in [Calls -> {"idle"} \cup RemoteStep] /\ "target" \in Path /\ MountsAre(Content)
      /\ file \in [Calls -> FileIds \cup {NoFile}] /\ command \in [FileIds -> CommandState]
  BY DEF RemoteTypeOK, Path
<1>2. RemoteEffect(c) /\ UNCHANGED mounts /\ ObsEffect(c)
  BY ObsStepEffect
<1>3. (\A d \in Calls : d # c => pc'[d] = pc[d]) /\ UNCHANGED <<server, up>> /\ up
  BY <1>1, <1>2 DEF RemoteEffect, Continues, Goto, Return, RemoteOrder
<1>4. Len(mounts["target"]) \in Nat
  BY <1>1, WhatIsSeen
<1>5. \A f \in Pending : \E d \in Waiting : file[d] = f
  BY <1>3 DEF StacksCounted
<1>6. CASE pc[c] = "Credential"
  <2>1. pc'[c] \in {"Post", "idle"} /\ UNCHANGED command /\ \A d \in Calls : d # c => file'[d] = file[d]
    BY <1>1, <1>2, <1>6 DEF ObsEffect
  <2>2. Waiting' = Waiting /\ Pending' = Pending /\ Underway' \subseteq Underway /\ c \notin Waiting
    BY <1>3, <1>6, <2>1 DEF Waiting, Pending, Underway
  <2>3. \A f \in Pending' : \E d \in Waiting' : file'[d] = f
    BY <1>5, <2>1, <2>2 DEF Waiting
  <2>4. QED BY <1>2, <1>3, <1>4, <2>2, <2>3, NothingStacked
<1>7. CASE pc[c] = "Post" /\ pc'[c] = "Await"
  <2>1. UNCHANGED file /\ command' = [command EXCEPT ![file[c]] = "posted"]
    BY <1>2, <1>7 DEF ObsEffect
  <2>2. Underway' = Underway \ {c} /\ c \in Underway /\ Waiting' = Waiting \cup {c}
    BY <1>3, <1>7 DEF Underway, Waiting
  <2>3. Pending' \subseteq Pending \cup {file[c]}
    BY <1>1, <2>1 DEF Pending
  <2>4. Underway \in SUBSET Calls /\ Underway' \in SUBSET Calls
    BY DEF Underway
  <2>5. Cardinality(Underway') = Cardinality(Underway) - 1
    BY <2>2, <2>4, CountingCalls, FS_RemoveElement
  <2>6. /\ IsFiniteSet(Pending') /\ Cardinality(Pending') <= Cardinality(Pending) + 1
        /\ Cardinality(Pending) \in Nat /\ Cardinality(Pending') \in Nat
    <3>1. IsFiniteSet(Pending) /\ Cardinality(Pending) \in Nat
      BY FS_CardinalityType DEF StacksCounted
    <3>2. /\ IsFiniteSet(Pending \cup {file[c]})
          /\ Cardinality(Pending \cup {file[c]}) <= Cardinality(Pending) + 1
          /\ Cardinality(Pending \cup {file[c]}) \in Nat
      <4> DEFINE S == Pending
      <4>1. IsFiniteSet(S) /\ Cardinality(S) \in Nat
        BY <3>1
      <4> HIDE DEF S
      <4>2. /\ IsFiniteSet(S \cup {file[c]})
            /\ \/ Cardinality(S \cup {file[c]}) = Cardinality(S)
               \/ Cardinality(S \cup {file[c]}) = Cardinality(S) + 1
        BY <4>1, FS_AddElement
      <4>3. IsFiniteSet(S \cup {file[c]}) /\ Cardinality(S \cup {file[c]}) <= Cardinality(S) + 1
            /\ Cardinality(S \cup {file[c]}) \in Nat
        BY <4>1, <4>2
      <4>4. QED BY <4>3 DEF S
    <3>3. IsFiniteSet(Pending') /\ Cardinality(Pending') <= Cardinality(Pending \cup {file[c]})
      BY <2>3, <3>2, FS_Subset
    <3>4. Cardinality(Pending') \in Nat
      BY <3>3, FS_CardinalityType
    <3>5. QED BY <3>1, <3>2, <3>3, <3>4
  <2>7. \A f \in Pending' : \E d \in Waiting' : file'[d] = f
    BY <1>5, <2>1, <2>2, <2>3
  <2>8. Cardinality(Underway) \in Nat /\ Cardinality(Calls) \in Nat
    BY <2>4, CountingCalls
  <2>9. QED BY <1>2, <1>3, <1>4, <2>5, <2>6, <2>7, <2>8 DEF StacksCounted
<1>8. CASE pc[c] \in {"Post", "Await"} /\ pc'[c] = "idle"
  <2>1. file' = [file EXCEPT ![c] = NoFile] /\ command' = [command EXCEPT ![file[c]] = "none"]
    BY <1>2, <1>8 DEF ObsEffect, Leave
  <2>2. file[c] \in FileIds
    BY <1>1, <1>8 DEF RemoteOrder
  <2>3. Pending' = Pending \ {file[c]} /\ Underway' \subseteq Underway /\ \A d \in Waiting : d = c \/ d \in Waiting'
    BY <1>1, <1>3, <1>8, <2>1, <2>2 DEF Pending, Underway, Waiting
  <2>4. \A f \in Pending' : \E d \in Waiting' : file'[d] = f
    BY <1>1, <1>5, <2>1, <2>3 DEF Waiting
  <2>5. QED BY <1>2, <1>3, <1>4, <2>3, <2>4, NothingStacked
<1>9. QED BY <1>2, <1>6, <1>7, <1>8 DEF ObsEffect

\* A mount the connector makes takes its command off those pending; a connector that
\* stops has none.
LEMMA ConnectorKeepsCount ==
  ASSUME RemoteBase, RemoteBase', StacksCounted, server = "obs", ConnectorNext \/ DriverDies \/ DriverStarts
  PROVE  StacksCounted'
<1> USE DEF RemoteBase
<1>1. /\ "target" \in Path /\ MountsAre(Content) /\ command \in [FileIds -> CommandState]
      /\ "bucket" \in Content /\ Len(mounts["target"]) \in Nat
  BY WhatIsSeen DEF RemoteTypeOK, Path, Content
<1>2. ASSUME StopConnector, UNCHANGED <<server, pc>>
      PROVE  StacksCounted'
  <2>1. Pending' = {} /\ Underway' = Underway
    BY <1>1, <1>2 DEF StopConnector, Pending, Underway
  <2>2. Len(mounts'["target"]) = Len(mounts["target"])
    BY <1>1, <1>2, KilledInPlace DEF StopConnector
  <2>3. QED BY <1>1, <1>2, <2>1, <2>2, NothingStacked
<1>3. CASE DriverDies
  <2>1. UNCHANGED <<server, mounts>> /\ ~up' /\ Underway' = {} /\ Pending' \subseteq Pending
    BY <1>1, <1>3 DEF DriverDies, CrashCalls, kernel, Underway, Pending
  <2>2. QED BY <1>1, <2>1, NothingStacked
<1>4. CASE DriverStarts
  BY <1>2, <1>4 DEF DriverStarts
<1>5. CASE ConnectorNext
  <2>1. UNCHANGED <<server, up, file, pc>>
    BY <1>5 DEF ConnectorNext, remote
  <2>2. Underway' = Underway /\ Waiting' = Waiting
    BY <2>1 DEF Underway, Waiting
  <2>3. ASSUME Pending' \subseteq Pending PROVE up' => \A f \in Pending' : \E d \in Waiting' : file'[d] = f
    BY <2>1, <2>2, <2>3 DEF StacksCounted
  <2>4. CASE ConnectorDies
    BY <1>2, <2>1, <2>4 DEF ConnectorDies
  <2>5. ASSUME NEW f \in FileIds, CheckParameters(f) PROVE StacksCounted'
    <3>1. UNCHANGED mounts /\ Pending' \subseteq Pending
      BY <1>1, <2>5 DEF CheckParameters, Answered, kernel, Pending
    <3>2. QED BY <1>1, <2>1, <2>2, <2>3, <3>1, NothingStacked
  <2>6. ASSUME NEW f \in FileIds, RunObsfs(f) PROVE StacksCounted'
    <3>1. f \in Pending /\ Pending' = Pending \ {f}
      BY <1>1, <2>6 DEF RunObsfs, Answered, Pending
    <3>2. CASE UNCHANGED kernel
      <4>1. UNCHANGED mounts
        BY <3>2 DEF kernel
      <4>2. QED BY <1>1, <2>1, <2>2, <2>3, <3>1, <4>1, NothingStacked
    <3>3. CASE Stack("target", "bucket")
      <4>1. Len(mounts'["target"]) = Len(mounts["target"]) + 1
        BY <1>1, <3>3, Pushed
      <4>2. IsFiniteSet(Pending) /\ Cardinality(Pending) \in Nat
        BY FS_CardinalityType DEF StacksCounted
      <4>3. IsFiniteSet(Pending') /\ Cardinality(Pending') = Cardinality(Pending) - 1
        BY <3>1, <4>2, FS_RemoveElement
      <4>4. Underway \in SUBSET Calls
        BY DEF Underway
      <4>5. Cardinality(Underway) \in Nat /\ Cardinality(Calls) \in Nat
        BY <4>4, CountingCalls
      <4>6. Pending' \subseteq Pending
        BY <3>1
      <4>7. Len(mounts'["target"]) + Cardinality(Underway') + Cardinality(Pending') <= Cardinality(Calls)
        BY <1>1, <2>2, <4>1, <4>2, <4>3, <4>5 DEF StacksCounted
      <4>8. QED BY <2>1, <2>3, <4>3, <4>6, <4>7 DEF StacksCounted
    <3>4. QED BY <2>6, <3>2, <3>3 DEF RunObsfs
  <2>7. QED BY <1>5, <2>4, <2>5, <2>6 DEF ConnectorNext
<1>6. QED BY <1>3, <1>4, <1>5

\* However often a publish call is repeated, and whichever process dies, no more
\* mounts are stacked upon the target of a bucket than calls can run side by side.
THEOREM RemoteStacksStayBounded == RemoteSpec => []RemoteStacksBounded
<1>1. RemoteBegins => StacksCounted
  <2> SUFFICES ASSUME RemoteBegins PROVE StacksCounted
    OBVIOUS
  <2>1. Len(mounts["target"]) = 0 /\ Underway = {} /\ Pending = {}
    BY DEF RemoteBegins, NoMounts, NoCalls, ObsInit, Path, Underway, Pending
  <2>2. IsFiniteSet({}) /\ Cardinality({}) = 0
    BY FS_EmptySet
  <2>3. QED BY <2>1, <2>2, CountingCalls DEF StacksCounted
<1>2. RemoteBase /\ RemoteBase' /\ StacksCounted /\ [RemoteNext]_remoteVars => StacksCounted'
  <2> SUFFICES ASSUME RemoteBase, RemoteBase', StacksCounted, [RemoteNext]_remoteVars PROVE StacksCounted'
    OBVIOUS
  <2>1. UNCHANGED server
    <3>1. ASSUME NEW c \in Calls, (RemoteHandle(c) /\ UNCHANGED <<remote, connector>>) \/ ObsHandle(c)
          PROVE  UNCHANGED server
      BY <3>1 DEF ObsHandle, remote
    <3>2. QED BY <3>1, WhoSteps DEF BeginRemote, ConnectorNext, DriverDies, DriverStarts, remote, remoteVars
  <2>2. CASE server # "obs"
    BY <2>1, <2>2 DEF StacksCounted
  <2>3. CASE server = "obs"
    <3>1. ASSUME NEW c \in Calls, NEW k \in {"publish", "unpublish"}, BeginRemote(c, k), UNCHANGED connector
          PROVE  StacksCounted'
      <4>1. Underway' = Underway /\ Waiting' = Waiting /\ Pending' = Pending /\ UNCHANGED <<mounts, file, up>>
        BY <3>1 DEF BeginRemote, Enter, kernel, connector, Underway, Waiting, Pending, RemoteBase, RemoteTypeOK
      <4>2. QED BY <2>1, <4>1 DEF StacksCounted
    <3>2. CASE UNCHANGED remoteVars
      BY <3>2 DEF remoteVars, StacksCounted, Underway, Waiting, Pending
    <3>3. QED BY <2>3, <3>1, <3>2, ServerKeepsCount, ObsKeepsCount, ConnectorKeepsCount, WhoSteps
  <2>4. QED BY <2>2, <2>3
<1>3. RemoteBase /\ StacksCounted => RemoteStacksBounded
  <2> SUFFICES ASSUME RemoteBase, StacksCounted, server = "obs"
               PROVE  Len(mounts["target"]) + Cardinality(StillToMount) <= Cardinality(Calls)
    BY DEF RemoteStacksBounded
  <2>1. StillToMount = Underway \cup Pending
    BY DEF StillToMount, Underway, Pending
  <2>2. Underway \in SUBSET Calls /\ IsFiniteSet(Pending)
    BY DEF Underway, StacksCounted
  <2>3. IsFiniteSet(Underway) /\ Cardinality(Underway) \in Nat /\ Cardinality(Pending) \in Nat
    BY <2>2, CountingCalls, FS_CardinalityType
  <2>4. /\ IsFiniteSet(Underway \cap Pending)
        /\ Cardinality(Underway \cup Pending) = Cardinality(Underway) + Cardinality(Pending) - Cardinality(Underway \cap Pending)
    <3>1. Underway \cap Pending \in SUBSET Underway
      OBVIOUS
    <3>2. QED BY <2>2, <2>3, <3>1, FS_Union, FS_Subset
  <2>5. Cardinality(Underway \cap Pending) \in Nat
    BY <2>4, FS_CardinalityType
  <2>6. Len(mounts["target"]) \in Nat
    BY WhatIsSeen DEF RemoteBase, RemoteTypeOK, Path
  <2>7. QED BY <2>1, <2>3, <2>4, <2>5, <2>6, CountingCalls DEF StacksCounted
<1>4. QED BY <1>1, <1>2, <1>3, RemoteGrounding, PTL DEF RemoteSpec, RemoteBegins

----------------------------------------------------------------------------
(* Ephemeral volumes.                                                      *)

\* What a volume of the ephemeral name goes through, and the steps of a call about it.
EphemeralStatus ==
  {"unborn", "creating", "available", "attaching", "in-use", "detaching", "deleting", "error", "gone"}
CreationSteps == {"Validate", "Create"}
MountingSteps == {"WaitCreated", "Attach", "WaitAttached", "Mount", "FormatAndMount"}
SearchSteps == {"GetByID", "ListByName"}
DeletionSteps == {"Detach", "WaitDetached", "Delete"}
EphemeralStep == CreationSteps \cup MountingSteps \cup SearchSteps \cup UnmountSteps \cup DeletionSteps

\* Every variable of the ephemeral volumes stays in its range, polls and jobs apart.
EphemeralTypeOK ==
  /\ MountsAre(VolumeIds) /\ paths \subseteq Path
  /\ status \in [VolumeIds -> EphemeralStatus]
  /\ kind \in [Calls -> {"publish", "unpublish"}]
  /\ vol \in [Calls -> VolumeIds \cup {NoVolume}] /\ attached \in [Calls -> BOOLEAN]
  /\ seen \in [Calls -> SUBSET {"clear", "doomed"}]
  /\ pc \in [Calls -> {"idle"} \cup EphemeralStep]
  /\ reply \in [Calls -> {"none", "OK", "ERR"}]

\* A call in progress has no answer yet and takes the steps of its kind; it has a
\* volume from the creation on, or when it goes on after the unmount, and it goes on
\* to detach and delete only when the target was seen unmounted.
EphemeralOrder ==
  \A c \in Calls :
    /\ InProgress(c) => reply[c] = "none"
    /\ pc[c] \in CreationSteps \cup MountingSteps => kind[c] = "publish"
    /\ pc[c] \in SearchSteps \cup UnmountSteps \cup DeletionSteps => kind[c] = "unpublish"
    /\ pc[c] \in MountingSteps \cup DeletionSteps => vol[c] # NoVolume
    /\ pc[c] \in DeletionSteps => "clear" \in seen[c]

\* The part of the invariant that does not speak of answers.
EphemeralBase == EphemeralTypeOK /\ EphemeralOrder /\ TargetExists

\* A step that leads to l keeps the order when l is of the call's kind, when the call
\* has a volume where it needs one, and when the target was seen unmounted, or is.
Leads(c, l) ==
  /\ Goto(c, l)
  /\ l \in CreationSteps \cup MountingSteps \/ l \in SearchSteps \cup UnmountSteps \cup DeletionSteps
  /\ l \in CreationSteps \cup MountingSteps => kind[c] = "publish"
  /\ l \in SearchSteps \cup UnmountSteps \cup DeletionSteps => kind[c] = "unpublish"
  /\ l \in MountingSteps \cup DeletionSteps => vol'[c] # NoVolume
  /\ l \in DeletionSteps => "clear" \in seen[c] \/ ~IsMounted("target")'

\* What a step of a call may do to the rest of the state.
EphemeralEffect(c) ==
  /\ InProgress(c) /\ UNCHANGED kind
  /\ MountsAre(VolumeIds)' /\ paths' \subseteq Path /\ TargetExists'
  /\ status' \in [VolumeIds -> EphemeralStatus] /\ attached' \in [Calls -> BOOLEAN]
  /\ UNCHANGED vol \/ \E v \in VolumeIds : vol' = [vol EXCEPT ![c] = v]

\* How it may go on.
EphemeralCourse(c) ==
  \/ UNCHANGED <<pc, reply, vol>>
  \/ \E l \in EphemeralStep : Leads(c, l)
  \/ Return(c, "ERR")
  \/ Return(c, "OK") /\ kind[c] = "publish"
  \/ Return(c, "OK") /\ UNCHANGED vol /\ vol[c] = NoVolume /\ ~IsMounted("target")'
  \/ /\ Return(c, "OK") /\ UNCHANGED vol /\ "clear" \in seen[c]
     /\ vol[c] # NoVolume /\ status'[vol[c]] = "deleting"

\* The steps that only ask the cloud leave the node alone.
LEMMA NodeLeftAlone ==
  ASSUME EphemeralBase, NEW c \in Calls, InProgress(c), UNCHANGED <<kernel, kind>>,
         status' \in [VolumeIds -> EphemeralStatus], attached' \in [Calls -> BOOLEAN],
         UNCHANGED vol \/ \E v \in VolumeIds : vol' = [vol EXCEPT ![c] = v]
  PROVE  EphemeralEffect(c)
<1>1. UNCHANGED <<paths, mounts>>
  BY DEF kernel
<1>2. MountsAre(VolumeIds)' /\ TargetExists' /\ paths' \subseteq Path
  BY <1>1 DEF EphemeralBase, EphemeralTypeOK, MountsAre, TargetExists, IsMounted
<1>3. QED BY <1>2 DEF EphemeralEffect

\* A failure is one of them.
LEMMA FailureEffect ==
  ASSUME EphemeralBase, NEW c \in Calls, InProgress(c), Fails(c)
  PROVE  EphemeralEffect(c) /\ EphemeralCourse(c)
<1>1. EphemeralEffect(c)
  BY NodeLeftAlone DEF Fails, ephemeral, EphemeralBase, EphemeralTypeOK
<1>2. QED BY <1>1 DEF Fails, EphemeralCourse

\* So are a wait and a request: both lead to the step l, fail, or poll on.
LEMMA WaitEffect ==
  ASSUME EphemeralBase, NEW c \in Calls, InProgress(c), NEW l \in EphemeralStep, PollJob(c, l),
         vol' = vol => (Goto(c, l) => Leads(c, l))
  PROVE  EphemeralEffect(c) /\ EphemeralCourse(c)
<1>1. EphemeralEffect(c) /\ UNCHANGED vol
  BY NodeLeftAlone DEF PollJob, ephemeral, EphemeralBase, EphemeralTypeOK
<1>2. Goto(c, l) \/ UNCHANGED <<pc, reply>> \/ Return(c, "ERR")
  BY DEF PollJob, NotYet
<1>3. QED BY <1>1, <1>2 DEF EphemeralCourse

\* A request that is taken on changes the status of the call's volume alone.
LEMMA AskEffect ==
  ASSUME EphemeralBase, NEW c \in Calls, InProgress(c), vol[c] # NoVolume,
         NEW s, NEW t \in EphemeralStatus, NEW l \in EphemeralStep, Ask(c, s, t, l),
         vol' = vol => (Goto(c, l) => Leads(c, l))
  PROVE  EphemeralEffect(c) /\ EphemeralCourse(c)
<1>1. CASE Fails(c)
  BY <1>1, FailureEffect
<1>2. CASE /\ status' = [status EXCEPT ![vol[c]] = t]
           /\ Goto(c, l) \/ Return(c, "ERR")
           /\ UNCHANGED <<kernel, known, kind, vol, attached, polls>>
  <2>1. status' \in [VolumeIds -> EphemeralStatus] /\ attached' \in [Calls -> BOOLEAN] /\ UNCHANGED vol
    BY <1>2 DEF EphemeralBase, EphemeralTypeOK
  <2>2. EphemeralEffect(c)
    BY <1>2, <2>1, NodeLeftAlone
  <2>3. QED BY <1>2, <2>1, <2>2 DEF EphemeralCourse
<1>3. QED BY <1>1, <1>2 DEF Ask, Await, Lost


\* The steps that a publish call takes.
LEMMA CreatingEffect ==
  ASSUME EphemeralBase, NEW c \in Calls, Validate(c) \/ Create(c)
  PROVE  EphemeralEffect(c) /\ EphemeralCourse(c)
<1> USE DEF EphemeralBase
<1>1. InProgress(c) /\ pc[c] \in CreationSteps /\ kind[c] = "publish" /\ NoVolume \notin VolumeIds
  BY VolumeIdsAssumption DEF Validate, Create, CreationSteps, EphemeralOrder
<1>2. CASE Fails(c)
  BY <1>1, <1>2, FailureEffect
<1>3. CASE Validate(c) /\ ~Fails(c)
  <2>1. Goto(c, "Create") /\ UNCHANGED <<kernel, ephemeral, polls>>
    BY <1>3 DEF Validate
  <2>2. EphemeralEffect(c)
    BY <1>1, <2>1, NodeLeftAlone DEF ephemeral, EphemeralTypeOK
  <2>3. Leads(c, "Create") /\ "Create" \in EphemeralStep
    BY <1>1, <2>1 DEF Leads, EphemeralStep, CreationSteps, MountingSteps, SearchSteps, UnmountSteps, DeletionSteps
  <2>4. QED BY <2>2, <2>3 DEF EphemeralCourse
<1>4. CASE Create(c) /\ ~Fails(c)
  <2>1. PICK v \in VolumeIds :
          /\ status' = [status EXCEPT ![v] = "creating"]
          /\ \/ vol' = [vol EXCEPT ![c] = v] /\ Goto(c, "WaitCreated")
             \/ Return(c, "ERR") /\ UNCHANGED vol
          /\ UNCHANGED <<kernel, known, kind, attached, polls>>
    BY <1>4 DEF Create, Await, Lost
  <2>2. status' \in [VolumeIds -> EphemeralStatus] /\ attached' \in [Calls -> BOOLEAN]
    BY <2>1 DEF EphemeralTypeOK, EphemeralStatus
  <2>3. EphemeralEffect(c)
    BY <1>1, <2>1, <2>2, NodeLeftAlone
  <2>4. ASSUME vol' = [vol EXCEPT ![c] = v], Goto(c, "WaitCreated") PROVE Leads(c, "WaitCreated")
    <3>1. vol'[c] # NoVolume
      BY <1>1, <2>4 DEF EphemeralTypeOK
    <3>2. QED BY <1>1, <2>4, <3>1 DEF Leads, CreationSteps, MountingSteps, SearchSteps, UnmountSteps, DeletionSteps
  <2>5. "WaitCreated" \in EphemeralStep
    BY DEF EphemeralStep, MountingSteps
  <2>6. QED BY <2>1, <2>3, <2>4, <2>5 DEF EphemeralCourse
<1>5. QED BY <1>2, <1>3, <1>4

\* From the creation to the attachment only the cloud is asked.
LEMMA AttachingEffect ==
  ASSUME EphemeralBase, NEW c \in Calls, WaitCreated(c) \/ AttachEphemeral(c) \/ WaitAttached(c)
  PROVE  EphemeralEffect(c) /\ EphemeralCourse(c)
<1> USE DEF EphemeralBase
<1>1. InProgress(c) /\ kind[c] = "publish" /\ vol[c] # NoVolume
  BY DEF WaitCreated, AttachEphemeral, WaitAttached, MountingSteps, EphemeralOrder
<1>2. ASSUME NEW l \in {"Attach", "WaitAttached", "Mount"}
      PROVE  l \in EphemeralStep /\ (vol' = vol => (Goto(c, l) => Leads(c, l)))
  BY <1>1, <1>2 DEF Leads, EphemeralStep, CreationSteps, MountingSteps, SearchSteps, UnmountSteps, DeletionSteps
<1>3. CASE WaitCreated(c)
  BY <1>1, <1>2, <1>3, WaitEffect DEF WaitCreated
<1>4. CASE AttachEphemeral(c)
  BY <1>1, <1>2, <1>4, AskEffect DEF AttachEphemeral, EphemeralStatus
<1>5. CASE WaitAttached(c)
  BY <1>1, <1>2, <1>5, WaitEffect DEF WaitAttached
<1>6. QED BY <1>3, <1>4, <1>5

\* The target is made, and the attached volume mounted at it.
LEMMA MountingEffect ==
  ASSUME EphemeralBase, NEW c \in Calls, PrepareTarget(c) \/ FormatAndMount(c)
  PROVE  EphemeralEffect(c) /\ EphemeralCourse(c)
<1> USE DEF EphemeralBase
<1>1. InProgress(c) /\ kind[c] = "publish" /\ vol[c] \in VolumeIds /\ "target" \in Path
  BY DEF PrepareTarget, FormatAndMount, MountingSteps, EphemeralOrder, EphemeralTypeOK, Path
<1>2. CASE Fails(c)
  BY <1>1, <1>2, FailureEffect
<1>3. CASE PrepareTarget(c) /\ ~Fails(c)
  <2>1. /\ UNCHANGED <<ephemeral, polls>>
        /\ \/ Return(c, "OK") /\ UNCHANGED kernel
           \/ Goto(c, "FormatAndMount") /\ MakePath("target")
    BY <1>3 DEF PrepareTarget
  <2>2. CASE Return(c, "OK") /\ UNCHANGED kernel
    <3>1. EphemeralEffect(c)
      BY <1>1, <2>1, <2>2, NodeLeftAlone DEF ephemeral, EphemeralTypeOK
    <3>2. QED BY <1>1, <2>2, <3>1 DEF EphemeralCourse
  <2>3. CASE Goto(c, "FormatAndMount") /\ MakePath("target")
    <3>1. UNCHANGED mounts /\ paths' = paths \cup {"target"} /\ UNCHANGED <<status, kind, vol, attached>>
      BY <2>1, <2>3 DEF MakePath, ephemeral
    <3>2. EphemeralEffect(c)
      BY <1>1, <3>1 DEF EphemeralEffect, EphemeralTypeOK, MountsAre, TargetExists
    <3>3. Leads(c, "FormatAndMount") /\ "FormatAndMount" \in EphemeralStep
      <4>1. vol'[c] # NoVolume
        BY <1>1, <3>1, VolumeIdsAssumption
      <4>2. QED BY <1>1, <2>3, <4>1
              DEF Leads, EphemeralStep, CreationSteps, MountingSteps, SearchSteps, UnmountSteps, DeletionSteps
    <3>4. QED BY <3>2, <3>3 DEF EphemeralCourse
  <2>4. QED BY <2>1, <2>2, <2>3
<1>4. CASE FormatAndMount(c) /\ ~Fails(c)
  <2>1. Stack("target", vol[c]) /\ Return(c, "OK") /\ UNCHANGED <<ephemeral, polls>>
    BY <1>4 DEF FormatAndMount
  <2>2. MountsAre(VolumeIds)' /\ UNCHANGED paths /\ "target" \in paths
    BY <1>1, <2>1, Pushed DEF EphemeralTypeOK
  <2>3. EphemeralEffect(c)
    BY <1>1, <2>1, <2>2 DEF EphemeralEffect, EphemeralTypeOK, TargetExists, ephemeral
  <2>4. QED BY <1>1, <2>1, <2>3 DEF EphemeralCourse
<1>5. QED BY <1>2, <1>3, <1>4

\* The steps that an unpublish call takes.
LEMMA SearchEffect ==
  ASSUME EphemeralBase, NEW c \in Calls, GetByID(c) \/ ListByName(c)
  PROVE  EphemeralEffect(c) /\ EphemeralCourse(c)
<1> USE DEF EphemeralBase
<1>1. InProgress(c) /\ kind[c] = "unpublish" /\ NoVolume \notin VolumeIds
  BY VolumeIdsAssumption DEF GetByID, ListByName, SearchSteps, EphemeralOrder
<1>2. CASE Fails(c)
  BY <1>1, <1>2, FailureEffect
<1>3. ASSUME NEW l \in {"Cleanup", "ListByName"}, Goto(c, l)
      PROVE  Leads(c, l) /\ l \in EphemeralStep
  BY <1>1, <1>3 DEF Leads, EphemeralStep, CreationSteps, MountingSteps, SearchSteps, UnmountSteps, DeletionSteps
<1>4. CASE GetByID(c) /\ ~Fails(c)
  <2>1. (\E l \in {"Cleanup", "ListByName"} : Goto(c, l)) /\ UNCHANGED <<kernel, ephemeral, polls>>
    BY <1>4 DEF GetByID
  <2>2. EphemeralEffect(c)
    BY <1>1, <2>1, NodeLeftAlone DEF ephemeral, EphemeralTypeOK
  <2>3. QED BY <1>3, <2>1, <2>2 DEF EphemeralCourse
<1>5. CASE ListByName(c) /\ ~Fails(c)
  <2>1. PICK v \in VolumeIds, shown \in BOOLEAN :
          /\ vol' = [vol EXCEPT ![c] = v]
          /\ attached' = [attached EXCEPT ![c] = shown]
          /\ Goto(c, "Cleanup")
          /\ UNCHANGED <<kernel, known, status, kind, polls>>
    BY <1>5 DEF ListByName, Listed
  <2>2. attached' \in [Calls -> BOOLEAN]
    BY <2>1 DEF EphemeralTypeOK
  <2>3. EphemeralEffect(c)
    BY <1>1, <2>1, <2>2, NodeLeftAlone DEF EphemeralTypeOK
  <2>4. QED BY <1>3, <2>1, <2>3 DEF EphemeralCourse
<1>6. QED BY <1>2, <1>4, <1>5

\* The volume of the call is given up only after nothing is mounted any more.
LEMMA UnmountEphemeralEffect ==
  ASSUME EphemeralBase, NEW c \in Calls, UnmountEphemeral(c)
  PROVE  EphemeralEffect(c) /\ EphemeralCourse(c)
<1> USE DEF EphemeralBase
<1>1. /\ UNCHANGED ephemeral /\ MountsAre(VolumeIds) /\ "target" \in Path /\ kind[c] = "unpublish"
      /\ UnmountPath(c, "target", IF vol[c] = NoVolume THEN "return" ELSE "Detach")
  BY DEF UnmountEphemeral, EphemeralTypeOK, Path
<1>2. /\ pc[c] \in UnmountSteps
      /\ UNCHANGED mounts \/ Pops("target")
      /\ TargetExists' /\ paths' \subseteq paths
      /\ \/ \E m \in UnmountSteps : Goto(c, m)
         \/ Return(c, "ERR")
         \/ /\ Proceed(c, IF vol[c] = NoVolume THEN "return" ELSE "Detach")
            /\ ~IsMounted("target")'
  BY <1>1, UnmountPathEffect
<1>3. MountsAre(VolumeIds)'
  <2>1. CASE UNCHANGED mounts
    BY <1>1, <2>1 DEF MountsAre
  <2>2. CASE Pops("target")
    BY <1>1, <2>2, Popped
  <2>3. QED BY <1>2, <2>1, <2>2
<1>4. EphemeralEffect(c)
  BY <1>1, <1>2, <1>3 DEF EphemeralEffect, EphemeralTypeOK, ephemeral, UnmountSteps
<1>5. ASSUME NEW m \in UnmountSteps, Goto(c, m) PROVE \E l \in EphemeralStep : Leads(c, l)
  <2>1. Leads(c, m) /\ m \in EphemeralStep
    BY <1>1, <1>5 DEF Leads, EphemeralStep, CreationSteps, MountingSteps, SearchSteps, UnmountSteps, DeletionSteps
  <2>2. QED BY <2>1
<1>6. ASSUME Proceed(c, IF vol[c] = NoVolume THEN "return" ELSE "Detach"), ~IsMounted("target")'
      PROVE  EphemeralCourse(c)
  <2>1. CASE vol[c] = NoVolume
    BY <1>1, <1>6, <2>1 DEF Proceed, EphemeralCourse, ephemeral
  <2>2. CASE vol[c] # NoVolume
    <3>1. Goto(c, "Detach") /\ vol'[c] # NoVolume
      BY <1>1, <1>6, <2>2 DEF Proceed, ephemeral
    <3>2. Leads(c, "Detach") /\ "Detach" \in EphemeralStep
      BY <1>1, <1>6, <3>1
        DEF Leads, EphemeralStep, CreationSteps, MountingSteps, SearchSteps, UnmountSteps, DeletionSteps
    <3>3. QED BY <3>2 DEF EphemeralCourse
  <2>3. QED BY <2>1, <2>2
<1>7. QED BY <1>2, <1>4, <1>5, <1>6 DEF EphemeralCourse

\* A volume is detached and deleted only after the target was seen unmounted.
LEMMA DeletionEffect ==
  ASSUME EphemeralBase, NEW c \in Calls, UnpublishEphemeral(c)
  PROVE  EphemeralEffect(c) /\ EphemeralCourse(c)
<1> USE DEF EphemeralBase
<1>1. InProgress(c) /\ kind[c] = "unpublish" /\ vol[c] # NoVolume /\ vol[c] \in VolumeIds /\ "clear" \in seen[c]
  BY DEF UnpublishEphemeral, DetachEphemeral, WaitDetached, DeleteEphemeral, DeletionSteps, EphemeralOrder,
         EphemeralTypeOK
<1>2. ASSUME NEW l \in {"WaitDetached", "Delete"}
      PROVE  l \in EphemeralStep /\ (vol' = vol => (Goto(c, l) => Leads(c, l)))
  BY <1>1, <1>2 DEF Leads, EphemeralStep, CreationSteps, MountingSteps, SearchSteps, UnmountSteps, DeletionSteps
<1>3. CASE Fails(c)
  BY <1>1, <1>3, FailureEffect
<1>4. CASE DetachEphemeral(c) /\ ~Fails(c)
  BY <1>1, <1>2, <1>4, AskEffect DEF DetachEphemeral, EphemeralStatus
<1>5. CASE WaitDetached(c)
  BY <1>1, <1>2, <1>5, WaitEffect DEF WaitDetached
<1>6. CASE DeleteEphemeral(c) /\ ~Fails(c)
  <2>1. /\ status' = [status EXCEPT ![vol[c]] = "deleting"]
        /\ Return(c, "OK") \/ Return(c, "ERR")
        /\ UNCHANGED <<kernel, known, kind, vol, attached, polls>>
    BY <1>6 DEF DeleteEphemeral
  <2>2. status' \in [VolumeIds -> EphemeralStatus] /\ status'[vol[c]] = "deleting" /\ attached' \in [Calls -> BOOLEAN]
    BY <1>1, <2>1 DEF EphemeralTypeOK, EphemeralStatus
  <2>3. EphemeralEffect(c)
    BY <1>1, <2>1, <2>2, NodeLeftAlone
  <2>4. QED BY <1>1, <2>1, <2>2, <2>3 DEF EphemeralCourse
<1>7. QED BY <1>3, <1>4, <1>5, <1>6 DEF UnpublishEphemeral


\* What history keeps of a call: it adds what is so after each step while the call is
\* in progress, up to the step it returns with, and keeps it once the call has returned.
LEMMA Remembered ==
  ASSUME EphemeralTypeOK, EphemeralHistory, NEW c \in Calls
  PROVE  /\ seen' \in [Calls -> SUBSET {"clear", "doomed"}]
         /\ InProgress(c) /\ reply'[c] # "ERR" =>
              /\ seen[c] \subseteq seen'[c]
              /\ ~IsMounted("target")' => "clear" \in seen'[c]
              /\ vol'[c] # NoVolume /\ status'[vol'[c]] = "deleting" => "doomed" \in seen'[c]
         /\ ~InProgress(c) /\ ~InProgress(c)' /\ reply'[c] # "ERR" => seen'[c] = seen[c]
<1>1. ASSUME NEW d \in Calls
      PROVE  SeenNow(d)' \subseteq {"clear", "doomed"}
  BY DEF SeenNow
<1>2. seen' \in [Calls -> SUBSET {"clear", "doomed"}]
  BY <1>1 DEF EphemeralHistory, EphemeralTypeOK
<1>3. seen'[c] = IF reply'[c] = "ERR" THEN {}
                 ELSE IF InProgress(c) THEN seen[c] \cup SeenNow(c)'
                 ELSE IF InProgress(c)' THEN SeenNow(c)'
                 ELSE seen[c]
  BY DEF EphemeralHistory
<1>4. /\ ~IsMounted("target")' => "clear" \in SeenNow(c)'
      /\ vol'[c] # NoVolume /\ status'[vol'[c]] = "deleting" => "doomed" \in SeenNow(c)'
  BY DEF SeenNow
<1>5. QED BY <1>2, <1>3, <1>4

\* What holds of one call: the order of its steps, and that its answer is honest.
CallInOrder(c) ==
  /\ InProgress(c) => reply[c] = "none"
  /\ pc[c] \in CreationSteps \cup MountingSteps => kind[c] = "publish"
  /\ pc[c] \in SearchSteps \cup UnmountSteps \cup DeletionSteps => kind[c] = "unpublish"
  /\ pc[c] \in MountingSteps \cup DeletionSteps => vol[c] # NoVolume
  /\ pc[c] \in DeletionSteps => "clear" \in seen[c]

\* EphemeralUnpublishIsHonest of one call.
CallIsHonest(c) ==
  ~InProgress(c) /\ reply[c] = "OK" /\ kind[c] = "unpublish" =>
    /\ "clear" \in seen[c]
    /\ vol[c] # NoVolume => "doomed" \in seen[c]

\* The inductive invariant.
EphemeralGood == EphemeralBase /\ \A c \in Calls : CallIsHonest(c)

\* A call that does not move loses nothing.
LEMMA BystanderKeeps ==
  ASSUME EphemeralTypeOK, EphemeralHistory, NEW c \in Calls, CallInOrder(c), CallIsHonest(c),
         pc'[c] = pc[c], reply'[c] = reply[c], kind'[c] = kind[c], vol'[c] = vol[c]
  PROVE  CallInOrder(c)' /\ CallIsHonest(c)'
<1>1. /\ InProgress(c) /\ reply'[c] # "ERR" => seen[c] \subseteq seen'[c]
      /\ ~InProgress(c) /\ ~InProgress(c)' /\ reply'[c] # "ERR" => seen'[c] = seen[c]
  BY Remembered
<1>2. pc[c] \in DeletionSteps => InProgress(c)
  BY DEF DeletionSteps
<1>3. QED BY <1>1, <1>2 DEF CallInOrder, CallIsHonest

\* A step of a call keeps what holds of the call, and of every other call.
LEMMA StepKeepsOrder ==
  ASSUME EphemeralGood, NEW c \in Calls, EphemeralEffect(c), EphemeralCourse(c), EphemeralHistory
  PROVE  EphemeralGood'
<1> USE DEF EphemeralGood, EphemeralBase
<1>1. /\ pc \in [Calls -> {"idle"} \cup EphemeralStep] /\ reply \in [Calls -> {"none", "OK", "ERR"}]
      /\ vol \in [Calls -> VolumeIds \cup {NoVolume}] /\ InProgress(c) /\ reply[c] = "none"
      /\ UNCHANGED kind
      /\ \A d \in Calls : CallInOrder(d) /\ CallIsHonest(d)
  BY DEF EphemeralTypeOK, EphemeralEffect, EphemeralOrder, CallInOrder
<1>2. vol' \in [Calls -> VolumeIds \cup {NoVolume}] /\ \A d \in Calls : d # c => vol'[d] = vol[d]
  BY <1>1 DEF EphemeralEffect
<1>3. \/ UNCHANGED <<pc, reply, vol>>
      \/ \E l \in EphemeralStep : Leads(c, l)
      \/ \E r \in {"OK", "ERR"} : Return(c, r)
  BY DEF EphemeralCourse
<1>4. /\ pc' \in [Calls -> {"idle"} \cup EphemeralStep] /\ reply' \in [Calls -> {"none", "OK", "ERR"}]
      /\ \A d \in Calls : d # c => pc'[d] = pc[d] /\ reply'[d] = reply[d]
  BY <1>1, <1>3 DEF Leads, Goto, Return
<1>5. EphemeralTypeOK'
  <2>1. seen' \in [Calls -> SUBSET {"clear", "doomed"}]
    BY Remembered
  <2>2. QED BY <1>1, <1>2, <1>4, <2>1 DEF EphemeralEffect, EphemeralTypeOK
<1>6. ASSUME NEW d \in Calls, d # c PROVE CallInOrder(d)' /\ CallIsHonest(d)'
  BY <1>1, <1>2, <1>4, <1>6, BystanderKeeps
<1>7. CallInOrder(c)' /\ CallIsHonest(c)'
  <2>1. /\ reply'[c] # "ERR" =>
             /\ seen[c] \subseteq seen'[c]
             /\ ~IsMounted("target")' => "clear" \in seen'[c]
             /\ vol'[c] # NoVolume /\ status'[vol'[c]] = "deleting" => "doomed" \in seen'[c]
    BY <1>1, Remembered
  <2>2. CASE UNCHANGED <<pc, reply, vol>>
    BY <1>1, <2>2, BystanderKeeps
  <2>3. ASSUME NEW l \in EphemeralStep, Leads(c, l) PROVE CallInOrder(c)' /\ CallIsHonest(c)'
    <3>1. pc'[c] = l /\ reply'[c] = "none" /\ l # "idle"
      BY <1>1, <2>3 DEF Leads, Goto, EphemeralStep, CreationSteps, MountingSteps, SearchSteps, UnmountSteps, DeletionSteps
    <3>2. CallIsHonest(c)'
      BY <3>1 DEF CallIsHonest
    <3>3. l \in DeletionSteps => "clear" \in seen'[c]
      BY <2>1, <2>3, <3>1 DEF Leads
    <3>4. QED BY <1>1, <2>3, <3>1, <3>2, <3>3 DEF Leads, CallInOrder
  <2>4. ASSUME NEW r \in {"OK", "ERR"}, Return(c, r) PROVE CallInOrder(c)'
    <3>1. pc'[c] = "idle"
      BY <1>1, <2>4 DEF Return
    <3>2. QED BY <3>1 DEF CallInOrder, CreationSteps, MountingSteps, SearchSteps, UnmountSteps, DeletionSteps
  <2>5. CASE Return(c, "ERR") \/ (Return(c, "OK") /\ kind[c] = "publish")
    <3>1. reply'[c] = "ERR" \/ kind'[c] = "publish"
      BY <1>1, <2>5 DEF Return
    <3>2. QED BY <2>4, <2>5, <3>1 DEF CallIsHonest
  <2>6. CASE Return(c, "OK") /\ UNCHANGED vol /\ vol[c] = NoVolume /\ ~IsMounted("target")'
    <3>1. reply'[c] = "OK" /\ vol'[c] = NoVolume
      BY <1>1, <2>6 DEF Return
    <3>2. QED BY <2>1, <2>4, <2>6, <3>1 DEF CallIsHonest
  <2>7. CASE /\ Return(c, "OK") /\ UNCHANGED vol /\ "clear" \in seen[c]
             /\ vol[c] # NoVolume /\ status'[vol[c]] = "deleting"
    <3>1. reply'[c] = "OK" /\ vol'[c] = vol[c]
      BY <1>1, <2>7 DEF Return
    <3>2. QED BY <2>1, <2>4, <2>7, <3>1 DEF CallIsHonest
  <2>8. QED BY <2>2, <2>3, <2>5, <2>6, <2>7 DEF EphemeralCourse
<1>8. \A d \in Calls : CallInOrder(d)' /\ CallIsHonest(d)'
  BY <1>6, <1>7
<1>9. EphemeralOrder'
  BY <1>8 DEF EphemeralOrder, CallInOrder
<1>10. TargetExists'
  BY DEF EphemeralEffect
<1>11. QED BY <1>5, <1>8, <1>9, <1>10

\* The cloud, a crash and a new call.
LEMMA WorldKeepsOrder ==
  ASSUME EphemeralGood, EphemeralHistory, UNCHANGED kernel,
         \/ \E c \in Calls : EphemeralBegin(c, "publish") \/ EphemeralBegin(c, "unpublish")
         \/ \E v \in VolumeIds : CloudEnds(v)
         \/ KnownGone
         \/ EphemeralCrash
  PROVE  EphemeralGood'
<1> USE DEF EphemeralGood, EphemeralBase
<1>1. /\ pc \in [Calls -> {"idle"} \cup EphemeralStep] /\ reply \in [Calls -> {"none", "OK", "ERR"}]
      /\ vol \in [Calls -> VolumeIds \cup {NoVolume}] /\ kind \in [Calls -> {"publish", "unpublish"}]
      /\ attached \in [Calls -> BOOLEAN] /\ status \in [VolumeIds -> EphemeralStatus]
      /\ \A d \in Calls : CallInOrder(d) /\ CallIsHonest(d)
  BY DEF EphemeralTypeOK, EphemeralOrder, CallInOrder
<1>2. seen' \in [Calls -> SUBSET {"clear", "doomed"}] \/ Calls = {}
  BY Remembered
<1>3. /\ MountsAre(VolumeIds)' /\ paths' \subseteq Path /\ TargetExists'
      /\ Calls = {} => seen' \in [Calls -> SUBSET {"clear", "doomed"}]
  BY DEF kernel, EphemeralTypeOK, MountsAre, TargetExists, IsMounted, EphemeralHistory
<1>4. ASSUME /\ pc' \in [Calls -> {"idle"} \cup EphemeralStep] /\ reply' \in [Calls -> {"none", "OK", "ERR"}]
             /\ vol' \in [Calls -> VolumeIds \cup {NoVolume}] /\ kind' \in [Calls -> {"publish", "unpublish"}]
             /\ attached' \in [Calls -> BOOLEAN] /\ status' \in [VolumeIds -> EphemeralStatus]
             /\ \A d \in Calls : CallInOrder(d)' /\ CallIsHonest(d)'
      PROVE  EphemeralGood'
  <2>1. EphemeralOrder'
    BY <1>4 DEF EphemeralOrder, CallInOrder
  <2>2. EphemeralTypeOK'
    BY <1>2, <1>3, <1>4 DEF EphemeralTypeOK
  <2>3. QED BY <1>3, <1>4, <2>1, <2>2
<1>5. ASSUME NEW c \in Calls, NEW k \in {"publish", "unpublish"}, EphemeralBegin(c, k)
      PROVE  EphemeralGood'
  <2>1. /\ pc' = [pc EXCEPT ![c] = IF k = "publish" THEN "Validate" ELSE "GetByID"]
        /\ reply' = [reply EXCEPT ![c] = "none"] /\ kind' = [kind EXCEPT ![c] = k]
        /\ vol' = [vol EXCEPT ![c] = NoVolume] /\ attached' = [attached EXCEPT ![c] = FALSE]
        /\ UNCHANGED status
    BY <1>5 DEF EphemeralBegin, Enter
  <2>2. (IF k = "publish" THEN "Validate" ELSE "GetByID") \in EphemeralStep
    BY DEF EphemeralStep, CreationSteps, SearchSteps
  <2>3. CallInOrder(c)' /\ CallIsHonest(c)'
    BY <1>1, <2>1 DEF CallInOrder, CallIsHonest, CreationSteps, MountingSteps, SearchSteps, UnmountSteps, DeletionSteps
  <2>4. ASSUME NEW d \in Calls, d # c PROVE CallInOrder(d)' /\ CallIsHonest(d)'
    BY <1>1, <2>1, <2>4, BystanderKeeps
  <2>5. /\ pc' \in [Calls -> {"idle"} \cup EphemeralStep] /\ reply' \in [Calls -> {"none", "OK", "ERR"}]
        /\ vol' \in [Calls -> VolumeIds \cup {NoVolume}] /\ kind' \in [Calls -> {"publish", "unpublish"}]
        /\ attached' \in [Calls -> BOOLEAN] /\ status' \in [VolumeIds -> EphemeralStatus]
    BY <1>1, <2>1, <2>2
  <2>6. QED BY <1>4, <2>3, <2>4, <2>5
<1>6. CASE EphemeralCrash
  <2>1. /\ pc' = [c \in Calls |-> "idle"]
        /\ reply' = [c \in Calls |-> IF InProgress(c) THEN "ERR" ELSE reply[c]]
        /\ UNCHANGED <<status, kind, vol, attached>>
    BY <1>6 DEF EphemeralCrash, CrashCalls, ephemeral
  <2>2. ASSUME NEW c \in Calls PROVE CallInOrder(c)' /\ CallIsHonest(c)'
    <3>1. CASE InProgress(c)
      BY <2>1, <3>1 DEF CallInOrder, CallIsHonest, CreationSteps, MountingSteps, SearchSteps, UnmountSteps,
           DeletionSteps
    <3>2. CASE ~InProgress(c)
      BY <1>1, <2>1, <3>2, BystanderKeeps
    <3>3. QED BY <3>1, <3>2
  <2>3. QED BY <1>1, <1>4, <2>1, <2>2
<1>7. CASE (\E v \in VolumeIds : CloudEnds(v)) \/ KnownGone
  <2>1. UNCHANGED <<pc, reply, kind, vol, attached>>
    BY <1>7 DEF CloudEnds, KnownGone
  <2>2. status' \in [VolumeIds -> EphemeralStatus]
    BY <1>1, <1>7 DEF CloudEnds, KnownGone, Ends, Failures, EphemeralStatus
  <2>3. \A c \in Calls : CallInOrder(c)' /\ CallIsHonest(c)'
    BY <1>1, <2>1, BystanderKeeps
  <2>4. QED BY <1>1, <1>4, <2>1, <2>2, <2>3
<1>8. QED BY <1>5, <1>6, <1>7

\* An unpublish call that answers OK left the target unmounted and set the deletion of
\* the ephemeral volume it found off, for any number of calls and volumes, and with
\* every fault of the cloud and every crash of the driver.
THEOREM EphemeralIsHonest == EphemeralSpec => []EphemeralUnpublishIsHonest
<1>1. EphemeralInit => EphemeralGood
  <2> SUFFICES ASSUME EphemeralInit PROVE EphemeralGood
    OBVIOUS
  <2>1. MountsAre(VolumeIds)
    BY VolumeIdsAssumption DEF EphemeralInit, NoMounts, MountsAre, Path
  <2>2. EphemeralTypeOK
    BY <2>1 DEF EphemeralInit, NoMounts, NoCalls, EphemeralTypeOK, EphemeralStatus
  <2>3. EphemeralOrder /\ \A c \in Calls : CallIsHonest(c)
    BY DEF EphemeralInit, NoCalls, EphemeralOrder, CallIsHonest, CreationSteps, MountingSteps, SearchSteps,
         UnmountSteps, DeletionSteps
  <2>4. TargetExists
    BY DEF EphemeralInit, NoMounts, TargetExists, IsMounted, Path
  <2>5. QED BY <2>2, <2>3, <2>4 DEF EphemeralGood, EphemeralBase
<1>2. EphemeralGood /\ [EphemeralNext]_ephemeralVars => EphemeralGood'
  <2> SUFFICES ASSUME EphemeralGood, [EphemeralNext]_ephemeralVars PROVE EphemeralGood'
    OBVIOUS
  <2>1. ASSUME NEW c \in Calls, EphemeralHandle(c) PROVE EphemeralGood'
    <3>1. EphemeralEffect(c) /\ EphemeralCourse(c)
      BY <2>1, CreatingEffect, AttachingEffect, MountingEffect, SearchEffect, UnmountEphemeralEffect, DeletionEffect
        DEF EphemeralHandle, PublishEphemeral, UnpublishVolume, EphemeralGood
    <3>2. QED BY <2>1, <3>1, StepKeepsOrder DEF EphemeralHandle
  <2>2. CASE /\ \/ \E c \in Calls : EphemeralBegin(c, "publish") \/ EphemeralBegin(c, "unpublish")
                \/ \E v \in VolumeIds : CloudEnds(v)
                \/ KnownGone
                \/ EphemeralCrash
             /\ EphemeralHistory
    <3>1. UNCHANGED kernel
      BY <2>2 DEF EphemeralBegin, CloudEnds, KnownGone, EphemeralCrash
    <3>2. QED BY <2>2, <3>1, WorldKeepsOrder
  <2>3. CASE UNCHANGED ephemeralVars
    BY <2>3 DEF ephemeralVars, EphemeralGood, EphemeralBase, EphemeralTypeOK, EphemeralOrder, TargetExists, MountsAre,
         IsMounted, CallIsHonest
  <2>4. QED BY <2>1, <2>2, <2>3 DEF EphemeralNext
<1>3. EphemeralGood => EphemeralUnpublishIsHonest
  BY DEF EphemeralGood, CallIsHonest, EphemeralUnpublishIsHonest
<1>4. QED BY <1>1, <1>2, <1>3, PTL DEF EphemeralSpec
=============================================================================
