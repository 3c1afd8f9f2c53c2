SPECIFICATION Spec
CONSTANTS
  Replies <- MCReplies
  UnkeyAttempts = 3
INVARIANTS TypeOK KeyIsWatched KeyIsAccounted SessionEnds
PROPERTY KeyIsReleased
CHECK_DEADLOCK FALSE
