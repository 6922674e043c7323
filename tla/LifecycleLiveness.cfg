SPECIFICATION FairSpec
CONSTANTS
  Requests = {r1, r2}
  Operations <- AllOps
  e1 = e1
  e2 = e2
  k1 = k1
  k2 = k2
  Envs <- OneEnv
  Repos = {n1}
  Clusters <- TwoClusters
  ClusterOf <- OnTheFirst
  Outcomes = {"done", "warning", "failed"}
  MayThrow = TRUE
  Project = p
  None = None
CHECK_DEADLOCK FALSE
PROPERTIES
  EveryRequestEnds
