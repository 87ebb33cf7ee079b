SPECIFICATION Spec
CONSTANTS
  Symbols = {"A", "B"}
  Canonical <- Spellings
  Lists <- ShortLists
  ConfigList <- OneSymbol
  Prices = {1}
  Providers <- TwoProviders
  Clients = {c1}
  Interval = 2
  DedupWindow = 2
  MaxQuoteAge = 1
  MaxRetries = 1
  Switchable = TRUE
  MaxPuts = 2
  MaxCrashes = 1
  MaxNow = 2
CHECK_DEADLOCK FALSE
PROPERTY UnavailableWatchlistIsLeftAlone
