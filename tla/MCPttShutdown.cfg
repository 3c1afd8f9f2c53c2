\* A rig that answers and obeys every command.
SPECIFICATION Spec
CONSTANTS
  Replies <- MCFaithful
  UnkeyAttempts = 3
INVARIANT ShutdownUnkeys
CHECK_DEADLOCK FALSE
