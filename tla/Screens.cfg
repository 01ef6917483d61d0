\* Two attempts, matches in the lobby of the first, and a channel of two events.
SPECIFICATION FairSpec
CONSTANTS
  NumSessions = 2
  Playing = {1}
  Depth = 2
INVARIANTS ShowsThisLobby LobbyNotLost
PROPERTIES StaleOnlyByReturn EndNoticed
CHECK_DEADLOCK FALSE
