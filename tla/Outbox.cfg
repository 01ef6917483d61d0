\* Two clients that may each be slow: every message but one finds the outbox full.
SPECIFICATION Spec
CONSTANTS
  NumClients = 2
  Depth = 1
  MaxFrames = 1
INVARIANTS RosterReaches
CHECK_DEADLOCK FALSE
