SPECIFICATION FairSpec
CONSTANTS
  Symbols = {"A", "B"}
  Canonical <- Spellings
  Lists <- ShortLists
  ConfigList <- OneSymbol
  Prices = {1}
  Providers <- TwoProviders
  Clients = {c1, c2}
  Interval = 2
  DedupWindow = 2
  MaxQuoteAge = 1
  MaxRetries = 1
  Switchable = TRUE
  MaxPuts = 2
  MaxCrashes = 1
  MaxNow = 3
CHECK_DEADLOCK FALSE
INVARIANT WatchlistIsKept
PROPERTIES TickEnds StopEnds TicksRunDown
