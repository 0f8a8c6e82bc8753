SPECIFICATION Spec
CONSTANTS
  Computers = {1, 2, 3}
  Routers = {4, 5, 6}
  Lambdas = {1, 2}
  ContextOf <- MCContextOf
  address <- MCAddress
  Topology <- MCTopology
  MaxPurged = 1
  Deployments <- MCDeployments
INVARIANTS TypeOK RoutesInstalled HomeIsClosest DefaultServed AssociationsBalanced
PROPERTY HandlerEnds
CHECK_DEADLOCK FALSE
