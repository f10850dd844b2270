CONSTANTS
  s1 = s1
  s2 = s2
  s3 = s3
  b1 = b1
  c1 = c1
  None = None
  Save = {s1, s2}
  Blob = {b1}
  BlobSets <- SomeBundles
  Client = {c1}
  CompactAfter = 2
  MaxCheckpoints = 2
  MaxSeq = 2
  MaxInterruptions = 1
  MayRenew = FALSE
  MayCheckpoint = FALSE
  MayDelete = TRUE
  MayDamage = TRUE
SPECIFICATION ReaderSpec
SYMMETRY Alike
CHECK_DEADLOCK FALSE
INVARIANT ForeignReadIsStored
INVARIANT ReadsFitTogether
