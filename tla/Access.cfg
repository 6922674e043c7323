SPECIFICATION Spec
CONSTANTS
  Requests = {r1, r2, r3}
  Asks <- Every
  FirstRoles <- Roles
  FirstUsers <- Users
  FirstTokens <- Tokens
  Absent = Absent
SYMMETRY Alike
CHECK_DEADLOCK FALSE
PROPERTIES
  RolesAsGranted
  RightsAreHeld
