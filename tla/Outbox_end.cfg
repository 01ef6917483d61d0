\* One client with room for two of three frames; only the hosting goroutine is
\* sure to run.
SPECIFICATION HostFairSpec
CONSTANTS
  NumClients = 1
  Depth = 2
  MaxFrames = 3
INVARIANTS FramesInOrder
PROPERTIES HandlersFinish GoroutinesEnd
CHECK_DEADLOCK FALSE
