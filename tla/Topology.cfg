SPECIFICATION Spec
CONSTANTS
  Requests = {r1, r2}
  Asks <- Every
  Projects = {"p1", "p2"}
  Clusters = {"c1", "c2", "c3"}
  Zones = {"z1", "z2", "z3"}
  Stages = {"s1", "s2", "s3"}
  Quotas = {"q1", "q2", "q3"}
  Names = {"dev", "prod", "test"}
  FirstRows <- Rows
  Absent = Absent
SYMMETRY Alike
CHECK_DEADLOCK FALSE
PROPERTIES
  LinksAreAsked
  DeletionSparesUse
  ServicesFollowRows
