SPECIFICATION Spec
CONSTANTS
  Net <- MCNet
  NumFunctions = 4
  Conf <- MCConf
  Periods <- MCPeriods
  AppClasses <- MCAppClasses
  MaxApps = 2
  Algorithms <- MCAlgorithms
  Tools = {"statesim", "lambdamusim"}
  Workers = {w1, w2}
  Policies <- MCPolicies
  Traces <- MCTraces
  NumJobs = 2
  MaxJobs = 2
SYMMETRY Symmetry
INVARIANTS
  RunCollects
  OutcomesSuffice
  PoliciesRank
  AppsAccounted
CHECK_DEADLOCK FALSE
