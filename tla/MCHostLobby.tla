----------------------------- MODULE MCHostLobby -----------------------------
\* Instances of HostLobby for TLC: settings that shrink and grow the lobby, with a
\* bot and without.
EXTENDS HostLobby, TLC

MCConfigs == {[max |-> 3, bots |-> 1], [max |-> 2, bots |-> 0]}
MCPair == {[max |-> 2, bots |-> 1], [max |-> 2, bots |-> 0]}
MCShrinking == {[max |-> 3, bots |-> 1], [max |-> 2, bots |-> 1]}
KeySymmetry == Permutations(Keys)
=============================================================================
