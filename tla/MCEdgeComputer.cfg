SPECIFICATION FairSpec
CONSTANTS
  Handlers = {h1, h2}
  AsyncWorkers = {w1}
  Dispatcher = dispatcher
  HttpWorkers = {e1, e2}
  Requests = {r1, r2, r3}
  None = None
INVARIANT TypeOK
INVARIANT ResponseMatches
INVARIANT ResponseComing
INVARIANT DescriptorOwned
INVARIANT DispatcherSleepIsShort
PROPERTY SimAnswers
CHECK_DEADLOCK FALSE
