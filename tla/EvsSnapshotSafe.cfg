SPECIFICATION Spec
CONSTANTS
  s1 = s1  s2 = s2  v1 = v1  v2 = v2  c1 = c1  c2 = c2
  NoSnapshot = NoSnapshot
  SnapshotIds <- TwoIds
  Volumes <- TwoVolumes
  Calls <- TwoCalls
  MaxPolls = 2
  Faults <- AllFaults
SYMMETRY Symmetry
INVARIANTS TypeOK CreateNamesItsVolume OwnSnapshotWasReady DeleteIsHonest DuplicatesBounded
