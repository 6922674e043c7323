SPECIFICATION Spec
CONSTANTS
  Requests = {r1, r2, r3}
  Operations = {"createEnv", "lock", "archive"}
  e1 = e1
  e2 = e2
  k1 = k1
  k2 = k2
  Envs <- OneEnv
  Repos = {}
  Clusters <- TwoClusters
  ClusterOf <- OnTheFirst
  Outcomes = {"done"}
  MayThrow = FALSE
  Project = p
  None = None
SYMMETRY RequestSymmetry
CHECK_DEADLOCK FALSE
PROPERTIES
  RefusalLeavesResources
