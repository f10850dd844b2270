CONSTANTS
  s1 = s1
  s2 = s2
  s3 = s3
  s4 = s4
  b1 = b1
  b2 = b2
  c1 = c1
  c2 = c2
  None = None
  Save = {s1, s2, s3, s4}
  Blob = {b1}
  BlobSets <- NoBundles
  Client = {c1, c2}
  CompactAfter = 1
  MaxCheckpoints = 2
  MaxSeq = 2
  MaxInterruptions = 1
  MayRenew = FALSE
  MayCheckpoint = FALSE
  MayDelete = TRUE
  MayDamage = TRUE
SPECIFICATION Spec
SYMMETRY Alike
CHECK_DEADLOCK FALSE
INVARIANT LogBounded
PROPERTY SeqNamesOneVersion
INVARIANT SurvivesATornCompaction
