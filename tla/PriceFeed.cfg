SPECIFICATION FairSpec
CONSTANTS
  Symbols = {"A", "B"}
  Canonical <- Spellings
  Lists <- ShortLists
  ConfigList <- OneSymbol
  Prices = {0, 1, 2}
  Providers <- OneProvider
  Clients = {c1}
  Interval = 2
  DedupWindow = 2
  MaxQuoteAge = 1
  MaxRetries = 0
  Switchable = FALSE
  MaxPuts = 0
  MaxCrashes = 1
  MaxNow = 9
CHECK_DEADLOCK FALSE
INVARIANTS PolledPriceIsStored SequenceFollowsTime CleanStatusIsCurrent
