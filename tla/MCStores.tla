------------------------------- MODULE MCStores -------------------------------
(* Instances of the controllers of SFS Turbo, SFS and OBS and of the        *)
(* listings for TLC, one of them in each behaviour.                         *)
EXTENDS Shares, ObsBucket, Listings, TLC

CONSTANTS c1, c2, s1, s2, o1, u1, u2

TwoCalls == {c1, c2}
TwoShares == {s1, s2}
Sizes == {10, 550, 610}
Bytes == 0 .. 2
OneObject == {o1}
TwoUploads == {u1, u2}
Items == TwoShares \cup TwoUploads
PageSizes == 1 .. 3
AllFaults == FaultKinds
Symmetry == Permutations(Calls) \cup Permutations(ShareIds) \cup Permutations(UploadIds)

VARIABLE part

shareOnly == <<store, req, witness, regrant>>
bucketOnly == <<contents, task, saw, promised, behind, outrun>>
call == <<pc, polls, reply>>
vars == <<part, shareVars, regrant, bucketOnly, walkVars>>

\* What a part does not use has a single initial value.
MCInit ==
  /\ part \in {"shares", "buckets", "listings"}
  /\ ShareInit /\ regrant \in BOOLEAN /\ BucketInit /\ ListingsInit
  /\ part # "shares" => driver = "turbo"
  /\ driver = "turbo" => regrant
  /\ part # "buckets" => bucket = "none"
  /\ part # "listings" => listing = "turbo"

MCNext ==
  /\ UNCHANGED part
  /\ \/ part = "shares" /\ ShareNext /\ UNCHANGED <<bucketOnly, walkVars>>
     \/ part = "buckets" /\ BucketNext /\ UNCHANGED <<shareOnly, walkVars>>
     \/ part = "listings" /\ ListingsNext /\ UNCHANGED <<shareOnly, bucketOnly, call>>

MCSpec == MCInit /\ [][MCNext]_vars
=============================================================================
