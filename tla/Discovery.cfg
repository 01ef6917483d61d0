\* A player and a node that never answers, while lobbies open and close, probes
\* are lost and the netmap cannot be read.
SPECIFICATION ProberFairSpec
CONSTANTS
  p = p
  q = q
  s = s
  t = t
  u = u
  Nodes = {p, s}
  Silent = {s}
  ProbeTimeout = 1
  FreshTTL = 1
  QuietTTL = 2
  MaxQuietTTL = 4
  GossipInterval = 3
  MaxConcurrentProbes = 1
  Depth = 1
  MaxChanges = 2
  MaxLosses = 1
  MaxRefreshes = 1
INVARIANTS ProberTypeOK
PROPERTIES ListedWasOpen BrowserSettles
