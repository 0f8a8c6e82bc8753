SPECIFICATION FairSpec
CONSTANTS
  NumContainers = 2
  Processors = {p1, p2}
  NumWorkers = 2
  MemTotal = 3
  Cores = 1
  Requirements <- MCRequirements
  MaxTasks = 4
  MaxElapsed = 2
PROPERTY PendingIsServed
