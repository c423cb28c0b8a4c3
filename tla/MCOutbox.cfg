\* Two workers race for two events; up to two faults of any kind.
\* Deadlock is not checked: once every event is settled the dispatchers only poll.
CONSTANTS
  m1 = m1
  m2 = m2
  Messages = {m1, m2}
  Workers = {w1, w2}
  Consumers = {1, 2}
  Subscribed <- TwoTypes
  BatchSize = 2
  MaximumAttempts = 2
  MaxFaults = 2
  None = None
SPECIFICATION FairSpec
INVARIANTS
  TypeOK
  ProcessedMeansDelivered
  OwnerNeverRedelivers
  DeadLetterNeedsAttempts
PROPERTIES
  ImplementsDelivery
  EventuallySettled
CHECK_DEADLOCK FALSE
