\* Two concurrent requests on one bucket that has room for one or two objects.
\* Deadlock is not checked: when MaxCalls requests are served nothing is left to do.
CONSTANTS
  b1 = b1
  o1 = o1
  o2 = o2
  o3 = o3
  Buckets = {b1}
  Objects = {o1, o2, o3}
  Callers = {c1, c2}
  BucketOf <- OneBucket
  KeyOf <- SharedKey
  SizeOf <- UnitSize
  Quotas = {1, 2}
  MaxCalls = 4
  None = None
SYMMETRY CallerSymmetry
SPECIFICATION Spec
INVARIANTS
  TypeOK
  QuotaRespected
  CountersMatchObjects
  ArchivedIsEmpty
  DeletedMeansNoBytes
PROPERTIES
  ImplementsLedger
CHECK_DEADLOCK FALSE
