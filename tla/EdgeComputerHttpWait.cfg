SPECIFICATION FairSpec
CONSTANTS
  Handlers = {h1, h2}
  AsyncWorkers = {}
  Dispatcher = dispatcher
  HttpWorkers = {e1, e2}
  Requests = {r1, r2}
  None = None
PROPERTY TaskDoneWaitEnds
CHECK_DEADLOCK FALSE
