\* Room for one event and one message; goroutines run and timers fire. The
\* session ends.
SPECIFICATION FairSpec
CONSTANTS
  EventDepth = 1
  WireDepth = 1
  MaxGen = 1
  MaxTalk = 1
  MaxPresses = 1
INVARIANTS EndExplained
PROPERTIES ShownNeverOlder EndIsShown
CHECK_DEADLOCK FALSE
