SPECIFICATION Spec
CONSTANTS
  Replies <- MCFaithful
  UnkeyAttempts = 3
  MaxJobs = 1
  Faults = {}
  LongJobs = {}
  Disturbances = {"settings"}
  Budget = 1
PROPERTY PipelineReturns
CHECK_DEADLOCK FALSE
