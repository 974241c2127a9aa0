---------------------------- MODULE MCEvsSnapshot ----------------------------
(* Instances of EvsSnapshot for TLC.                                       *)
EXTENDS EvsSnapshot, TLC

CONSTANTS s1, s2, v1, v2, c1, c2

\* Two volumes so that two calls can want the name for different ones.
TwoIds == {s1, s2}
TwoVolumes == {v1, v2}
TwoCalls == {c1, c2}
AllFaults == FaultKinds

Symmetry == Permutations(Calls) \cup Permutations(SnapshotIds) \cup Permutations(Volumes)
=============================================================================
