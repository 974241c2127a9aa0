--------------------------- MODULE MCEvsProvision ---------------------------
(* Instances of EvsProvision for TLC.                                      *)
EXTENDS EvsProvision, TLC

CONSTANTS v1, v2, c1, c2

\* Two slots for calls are enough for a retry beside the call it retries; with
\* two IDs a call about to make a third volume is seen before the quota stops it.
OneCall == {c1}
TwoCalls == {c1, c2}
TwoIds == {v1, v2}

EveryRpc == {"create", "delete", "expand"}
CreateOnly == {"create"}

\* One size on either side of the limit of the Cinder API.
TwoSizes == {8, 10}
SmallSize == {8}
LargeSize == {10}

NoFaults == {}
NoLag == FaultKinds \ {"lag"}
JobFails == {"jobfail"}
SlowAnswers == {"timeout", "lost", "lag"}

Symmetry == Permutations(Calls) \cup Permutations(VolumeIds)
=============================================================================
