SPECIFICATION Spec
CONSTANTS
  Replies <- MCRefusing
  UnkeyAttempts = 1
  MaxJobs = 2
  Faults = {"rxfail", "txmismatch"}
  LongJobs = {1}
  Disturbances = {"macro", "settings", "sweep", "link", "quit"}
  Budget = 1
PROPERTIES ImplementsPttManager UiReturns
CHECK_DEADLOCK FALSE
