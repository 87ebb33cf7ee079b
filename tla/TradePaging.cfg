SPECIFICATION Spec
CONSTANTS
  Symbols = {"A", "B"}
  QtyUnit = 10
  CostUnit = 10
  ResultUnit = 100
  MaxTime = 5
  Requests <- UnevenTrades
  Keys = {"k1", "k2", "k3", "k4", "k5", "k6"}
  Disorder = 3
  Watermark = 0
  PageLimit = 1
  MaxEventAge = 1
  SnapshotEvery = 0
  SnapshotTimer = TRUE
  FaultKinds = {"crash", "read", "rebuildApply", "rebuildApplyAck", "dlq", "rebuildDlqAck", "snapshot", "snapshotAck"}
  MaxFaults = 1
  MaxNow = 4
INVARIANT SharesAreReplayed
PROPERTY PassesRunDown
