SPECIFICATION Spec
CONSTANTS
  None = None
  n1 = n1
  n2 = n2
  c1 = c1
  c2 = c2
  l1 = l1
  l2 = l2
  FltMax = 1000
  Unit = 6
  Nodes = {n1, n2}
  Computers = {c1, c2}
  Lambdas = {l1, l2}
  Requests = {"q1","q2"}
  Weights = {0, 1, 3}
  MaxHops = 1
  MaxCommands = 1
  Scenarios <- MCScenarios
  Commands <- MCCommands
  Arrivals <- MCArrivals
INVARIANTS TypeOK SelectionCoherent PurgeHasCause HopsBounded
PROPERTY RequestEnds
CHECK_DEADLOCK FALSE
