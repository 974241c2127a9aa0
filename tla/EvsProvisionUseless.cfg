SPECIFICATION Spec
CONSTANTS
  v1 = v1  v2 = v2  c1 = c1  c2 = c2
  NoVolume = NoVolume
  VolumeIds <- TwoIds
  Calls <- OneCall
  Rpcs <- CreateOnly
  Sizes <- SmallSize
  CinderLimit = 10
  MaxPolls = 2
  Faults <- JobFails
PROPERTY NoUselessVolume
