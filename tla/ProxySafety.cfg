SPECIFICATION Spec
CONSTANTS
  Calls = {c1, c2, c3, c4}
  Methods <- ProjectMethods
  NoIdMethods <- WithoutId
  Excludes <- ProjectExcludes
  Ids = {p1}
  ArgKeys = {repo}
  ArgVals = {t1, t2}
  NoId = NoId
  NoExec = NoExec
  NoArg = NoArg
  NoCall = NoCall
  MayReject = TRUE
SYMMETRY CallSymmetry
CHECK_DEADLOCK FALSE
INVARIANTS
  TypeOK
  ArgsDelivered
  ArgsOrigin
  TrackedExclusion
  TrackerIsCurrent
PROPERTIES
  FreshAnswer
