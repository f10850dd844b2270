CONSTANTS
  s1 = s1
  s2 = s2
  s3 = s3
  s4 = s4
  b1 = b1
  b2 = b2
  c1 = c1
  c2 = c2
  None = None
  Save = {s1, s2, s3}
  Blob = {b1, b2}
  BlobSets <- SomeBundles
  Client = {c1}
  CompactAfter = 2
  MaxCheckpoints = 2
  MaxSeq = 3
  MaxInterruptions = 1
  MayRenew = TRUE
  MayCheckpoint = TRUE
  MayDelete = FALSE
  MayDamage = FALSE
SPECIFICATION Spec
SYMMETRY Alike
CHECK_DEADLOCK FALSE
INVARIANT BlobsKept
INVARIANT CheckpointsOfTheLineage
INVARIANT Inductive
PROPERTY ImplementsStoredEntry
