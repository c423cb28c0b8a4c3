\* Two callers race on one cache key while two versions are published and two
\* requests or waits fail.
CONSTANTS
  k1 = k1
  c1 = c1
  c2 = c2
  Keys = {k1}
  Callers = {c1, c2}
  KeyOf <- TwoShareAKey
  MaxPublished = 2
  MaxFaults = 2
  Nothing = Nothing
SPECIFICATION FairSpec
INVARIANTS
  ListenersAreRight
  ForcedAnswersAreCurrent
PROPERTIES
  CacheNeverGoesBack
  ClientsCatchUp
