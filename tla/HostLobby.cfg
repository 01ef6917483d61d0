\* Two matches in a row: two clients, a bot and one change of settings. The lobby
\* closes.
SPECIFICATION Spec
CONSTANTS
  Keys = {k1, k2}
  HostKey = hk
  Bot = bot
  Nobody = nobody
  NumSeats = 3
  Configs <- MCConfigs
  CountdownTicks = 1
  AttestTicks = 2
  CoastTicks = 1
  DropTicks = 2
  MaxGen = 1
  MaxMatches = 2
SYMMETRY KeySymmetry
INVARIANTS
  TypeOK
  RosterSound
  ViewsCurrent
  KickoffAgreed
  LeaversForfeit
  RecordsSound
PROPERTIES
  MatchesAsPromised
CHECK_DEADLOCK FALSE
