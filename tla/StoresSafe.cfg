SPECIFICATION MCSpec
CONSTANTS
  c1 = c1  c2 = c2  s1 = s1  s2 = s2  o1 = o1  u1 = u1  u2 = u2
  NoShare = NoShare
  NoItem = NoItem
  Calls <- TwoCalls
  ShareIds <- TwoShares
  ObjectIds <- OneObject
  UploadIds <- TwoUploads
  ItemIds <- Items
  AskedGiB <- Sizes
  AskedBytes <- Bytes
  MinGiB = 500  StepGiB = 100  MaxGiB = 640  GbByteSize = 2
  PageSize = 1
  MaxEntries <- PageSizes
  MaxPolls = 2
  Faults <- AllFaults
SYMMETRY Symmetry
INVARIANTS ShareTypeOK CreateNamesAShare DeleteFinishes ExpandReachesSize SharesBounded
  BucketAnswersAreHonest QuotaKept WalkMissesNothing
