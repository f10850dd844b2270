CONSTANTS
  w1 = w1
  w2 = w2
  f1 = f1
  f2 = f2
  i1 = i1
  i2 = i2
  n1 = n1
  n2 = n2
  None = None
  Window = {w1, w2}
  File = {f1, f2}
  Id = {i1, i2}
  Name = {n1, n2}
  MaxRetries = 1
  MaxEvents = 2
  MaxSaves = 2
SPECIFICATION Spec
SYMMETRY Alike
CHECK_DEADLOCK FALSE
INVARIANT OneIdOnePath
INVARIANT DropsTheUnnamed
INVARIANT IdentityFollows
