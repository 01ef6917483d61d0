SPECIFICATION Spec
CONSTANTS
  Keys = {k1, k2}
  HostKey = hk
  Bot = bot
  Nobody = nobody
  NumSeats = 3
  Configs <- MCConfigs
  CountdownTicks = 2
  AttestTicks = 3
  CoastTicks = 1
  DropTicks = 2
  MaxGen = 1
  MaxMatches = 2
PROPERTIES
  CountdownAbortedByPlayers
CHECK_DEADLOCK FALSE
