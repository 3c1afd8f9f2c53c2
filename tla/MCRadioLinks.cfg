SPECIFICATION Spec
CONSTANTS
  MaxAttempts = 5
  MaxClicks = 4
  MaxOrphans = 3
INVARIANTS
  TypeOK
  LabelTellsTheTruth
  NoRetryUnderWay
  BadSettingsGiveUp
  CancelledRigIsClosed
PROPERTY DroppedComesBack
CHECK_DEADLOCK FALSE
