\* Two lobbies, submitted at once or in turn, and one peer; goroutines run and
\* timeouts pass. The process ends.
SPECIFICATION FairSpec
CONSTANTS
  MaxLobbies = 2
  MaxPending = 2
  Conns = {p1}
INVARIANTS NoDeadLobby SeatsAreServed
PROPERTIES JoinsSettle ClosedLobbyLetsGo
CHECK_DEADLOCK FALSE
