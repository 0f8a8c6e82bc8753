SPECIFICATION FairSpec
CONSTANTS
  c1 = c1
  c2 = c2
  f0 = f0
  f1 = f1
  f2 = f2
  s1 = s1
  Computers = {c1, c2}
  NumThreads <- MCNumThreads
  Client = client
  Names = {f0, f1, f2}
  Hosts <- MCHosts
  States = {s1}
  Uuids = {u1, u2}
  Workflows <- MCWorkflows
  MaxFailures = 1
  None = none
INVARIANT ResponseLocatesStates
