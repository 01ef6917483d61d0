SPECIFICATION FairSpec
CONSTANTS
  Keys = {k1}
  HostKey = hk
  Bot = bot
  Nobody = nobody
  NumSeats = 2
  Configs <- MCPair
  CountdownTicks = 2
  AttestTicks = 3
  CoastTicks = 1
  DropTicks = 2
  MaxGen = 1
  MaxMatches = 2
PROPERTIES
  ReadyLobbyPlays
  SilentSeatsFreed
  RecordSettled
CHECK_DEADLOCK FALSE
