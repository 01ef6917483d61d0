\* Batches of one record, one cut or restart, one refused write.
SPECIFICATION FairSpec
CONSTANTS
  a = a
  b = b
  c = c
  Peers = {a, b, c}
  Matches = {1, 2}
  Keys = {1, 2, 3, 4}
  Pairs <- Line
  Recorded <- Played
  Batch = 1
  MaxCuts = 1
  MaxRefusals = 1
INVARIANTS InStep
PROPERTIES HistoryKept HistorySpreads AttestationSpreads
