SPECIFICATION Spec
CONSTANTS
  DIGIT_STEPS <- MCDigitSteps
  BUTTON_STEPS <- MCButtonSteps
  MIN_HZ = 10
  MAX_HZ = 15
  DEFAULT_HZ = 12
  RigBand <- MCRigBand
  MaxOutstanding = 2
  Dials <- MCDials
  Offsets <- MCOffsets
  MODE_POLL_EVERY_N_TICKS = 2
  MaxMoves = 3
  NoLine = NoLine
INVARIANTS
  AnswersAreOfTheirCommand
  QuietTciShowsTheRig
PROPERTY
  DisplayCatchesUp
CHECK_DEADLOCK FALSE
