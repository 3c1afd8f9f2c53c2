SPECIFICATION Spec
CONSTANTS
  LDPC_N = 32
  LDPC_BYTES_PER_BLOCK = 2
  LDPC_MAX_ITERATIONS = 3
  MAX_NBLOCKS = 5
  NBLOCKS_RANGE = 8
  H_NONZERO <- MCNonzero
  PSK31_VARICODE_TABLE <- MCTable
  MAX_ACCUM_BITS = 7
  PREAMBLE_SYMBOLS = 4
  MfskTexts <- MCMfskTexts
  PskTexts <- MCPskTexts
  Noises <- MCNoises
  FadeLengths = {1, 2, 3, 4, 5, 6, 9}
  MaxSpoilt = 40
  ErasuresCorrected = 3
  EDGE = 3
  Squelches = {0, 60}
  MaxTransmissions = 2
INVARIANTS FramesSurviveFades GoodMessagesAreTrue PskTextArrives
CHECK_DEADLOCK FALSE
