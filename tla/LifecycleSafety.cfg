SPECIFICATION Spec
CONSTANTS
  Requests = {r1, r2, r3}
  Operations <- ArchiveOps
  e1 = e1
  e2 = e2
  k1 = k1
  k2 = k2
  Envs <- TwoEnvs
  Repos = {}
  Clusters <- TwoClusters
  ClusterOf <- OnItsCluster
  Outcomes = {"done", "failed"}
  MayThrow = FALSE
  Project = p
  None = None
SYMMETRY InstanceSymmetry
CHECK_DEADLOCK FALSE
INVARIANTS
  CreatedIsDelivered
  CleanRunsConverge
  NamespacesTracked
  FailureIsReported
PROPERTIES
  ArchiveMeansGone
