SPECIFICATION FairSpec
CONSTANTS
  Portfolios = {p1}
  Symbols = {A, B}
  Timers = {1, 2}
  MaxEvents = 2
  MaxPrices = 1
  Repricing = FALSE
  Disruptions = {}
  MaxDisruptions = 0
CHECK_DEADLOCK FALSE
INVARIANT PricesArePending
PROPERTIES EveryTradeIsReported EveryMarkIsReported
