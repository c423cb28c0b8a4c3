\* Two calls complete the same upload.
CONSTANTS
  b1 = b1
  o1 = o1
  o2 = o2
  o3 = o3
  Buckets = {b1}
  Objects = {o1}
  Callers = {c1, c2}
  BucketOf <- OneBucket
  KeyOf <- SharedKey
  SizeOf <- UnitSize
  Quotas = {1}
  MaxCalls = 3
  None = None
SYMMETRY CallerSymmetry
SPECIFICATION Spec
PROPERTIES
  OnlyInvalidBytesAreDiscarded
CHECK_DEADLOCK FALSE
