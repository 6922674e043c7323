SPECIFICATION Spec
CONSTANTS
  Envs = {"e1", "e2", "x"}
  ExternalEnvs = {"x"}
  Repos = {"r1", "r2"}
  Users = {"u1", "u2"}
  Owner = "u1"
  Zones = {"z1"}
  ZoneOf <- OneZone
  Scenarios <- Every
CHECK_DEADLOCK FALSE
INVARIANTS
  
  CleanRequestsSucceed
PROPERTIES
  VitalStays
  OrderStays
  RequestsEnd
