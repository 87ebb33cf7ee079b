SPECIFICATION FairSpec
CONSTANTS
  Symbols = {"A", "B"}
  Requests <- DailyPrices
  Keys = {"k1", "k2", "k3", "k4", "k5", "k6"}
  DayLength = 2
  DbUnit = 10
  CloseLimit = 100
  ReturnLimit = 7
  Window = 2
  Disorder = 1
  Watermark = 1
  PageLimit = 2
  MaxEventAge = 1
  FaultKinds = {"crash", "read", "apply", "rebuildApplyAck", "dlq", "rebuildDlqAck"}
  MaxFaults = 1
  MaxNow = 4
CHECK_DEADLOCK FALSE
INVARIANTS TypeOK MarkIsNewest ReturnsAreReplayed EachPriceOnce NoPriceIsSkipped
PROPERTIES EventuallySettled PassesRunDown
