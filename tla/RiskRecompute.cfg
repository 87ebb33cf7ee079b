SPECIFICATION Spec
CONSTANTS
  Portfolios = {p1}
  Symbols = {A}
  Timers = {1, 2, 3}
  MaxEvents = 2
  MaxPrices = 1
  Repricing = TRUE
  Disruptions = {"shutdown", "exit", "commit", "ack", "rebuildAck", "list", "recompute"}
  MaxDisruptions = 1
CHECK_DEADLOCK FALSE
INVARIANTS TypeOK AsOfCoversPositions TradesArePending
