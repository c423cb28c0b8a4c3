\* Three send requests race and retry for one message while two administrators
\* race for the account.
\* Deadlock is not checked: when every request has ended nothing is left to do.
CONSTANTS
  Accounts = {a1}
  Settings = {s1, s2}
  Messages = {m1}
  Requests = {r1, r2, r3}
  Admins = {x1, x2}
  MaxVersion = 2
  None = None
SPECIFICATION FairSpec
INVARIANTS
  AtMostOneSubmission
  SentMeansAccepted
PROPERTIES
  ImplementsOnce
  ReservationsSettle
CHECK_DEADLOCK FALSE
