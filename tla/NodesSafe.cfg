SPECIFICATION MCSpec
CONSTANTS
  c1 = c1  c2 = c2  v1 = v1  v2 = v2  f1 = f1  f2 = f2
  NoCall = NoCall
  NoVolume = NoVolume
  NoFile = NoFile
  Calls <- TwoCalls
  VolumeIds <- TwoIds
  FileIds <- TwoFiles
  MaxPolls = 2
  MaxMounts = 2
  Faults <- AllFaults
SYMMETRY Symmetry
INVARIANTS NodeAnswersAreHonest PublishedIsVolume NothingMountedWhenDetached
  StacksBounded ExpandReachesFilesystem EphemeralUnpublishIsHonest NodeInfoIsWhole
  RemoteAnswersAreHonest CredentialsRemoved RemoteStacksBounded
PROPERTIES DataSurvives FollowsLifeCycle
