SPECIFICATION Spec
CONSTANTS
  Projects = {a, b}
  Memberships = {{a}}
  Slots = {1, 2}
  MaxClicks = 2
  MaxFailures = 1
  MaxSwitches = 1
  None = None
CHECK_DEADLOCK FALSE
INVARIANTS
  MaintenanceGate
  ArchivedIsLeft
PROPERTIES
  ProjectIsKnown
  GatedNeedsSession
  NavigationEnds
