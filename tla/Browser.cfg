SPECIFICATION Spec
CONSTANTS
  None = None
  Pages <- AllPages
  First = {1, 2}
  Spare = {3}
  Busy = {2}
  Slots = {1, 2, 3}
  MaxClicks <- Clicks
  MaxFailures = 1
CHECK_DEADLOCK FALSE
INVARIANTS
  ShownIsStored
  FormSavesItself
  RestIsQuiet
  OperationsAreRunning
