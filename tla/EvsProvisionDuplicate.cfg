SPECIFICATION Spec
CONSTANTS
  v1 = v1  v2 = v2  c1 = c1  c2 = c2
  NoVolume = NoVolume
  VolumeIds <- TwoIds
  Calls <- TwoCalls
  Rpcs <- CreateOnly
  Sizes <- LargeSize
  CinderLimit = 10
  MaxPolls = 2
  Faults <- NoFaults
INVARIANT OneVolumePerName
