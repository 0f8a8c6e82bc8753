SPECIFICATION FairSpec
CONSTANTS
  Threads = {t1, t2, t3}
  Destinations = {d1, d2}
  NoDestination = NoDestination
  MaxClients = 2
  MaxCalls = 5
  MaxFailures = 1
INVARIANT ClientsBounded
INVARIANT ClientExclusive
INVARIANT NoLostWakeUp
PROPERTY SlotsSpec
PROPERTY CallEnds
