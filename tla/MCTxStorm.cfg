SPECIFICATION Spec
CONSTANTS
  Replies <- MCRefusing
  UnkeyAttempts = 1
  MaxJobs = 2
  Faults = {"txfail"}
  LongJobs = {}
  Disturbances = {"macro", "settings", "sweep", "link", "mode"}
  Budget = 2
INVARIANTS TypeOK MutedIffBusy ManagerHasTheRadio RefusedNeverPlays
CHECK_DEADLOCK FALSE
