SPECIFICATION Spec
CONSTANTS
  Replies <- MCFaithful
  UnkeyAttempts = 3
  MaxJobs = 4
  Faults = {"txfail", "rxmismatch"}
  LongJobs = {}
  Disturbances = {"mode"}
  Budget = 2
PROPERTIES ImplementsInterlock ListensAgain
CHECK_DEADLOCK FALSE
