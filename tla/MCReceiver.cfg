SPECIFICATION Spec
CONSTANTS
  SAMPLES_PER_SYMBOL = 2
  PREAMBLE_LENGTH = 2
  SCORE_THRESHOLD = 1
  AUDIO_CHUNK_SAMPLES = 3
  PRE_TRIGGER_SAMPLES = 10
  MAX_BUFFER_SAMPLES = 22
  COLLECT_TIMEOUT_CHUNKS = 3
  HDR_TOTAL = 1
  PAYLOAD_START = 2
  BLOCK_SYMS = 1
  MAX_NBLOCKS = 6
  Scores <- MCScores
  Headers <- MCHeaders
  MaxSamples = 24
INVARIANTS TypeOK BuffersAgree CacheMatchesFrame FrameIsIncomplete
  CollectionIsBounded MessagesAreWhole LockIsOfItsChain OnlyOldChainsAreMissed
  ShownIsTrue
PROPERTY OnlyLongFramesAreGivenUp
CHECK_DEADLOCK FALSE
