\* Room for four statuses.
SPECIFICATION FairSpec
CONSTANTS
  URLs = {"u", "v"}
  Depth = 4
  BusDepth = 2
  MaxChanges = 3
  MaxFaults = 2
INVARIANTS NewestArrives BackendArrives
PROPERTIES ReachesMenu
CHECK_DEADLOCK FALSE
