SPECIFICATION FairSpec
CONSTANTS
  Symbols = {"A", "B"}
  QtyUnit = 1
  CostUnit = 1
  ResultUnit = 1
  MaxTime = 5
  Requests <- MixedTrades
  Keys = {"k1", "k2", "k3", "k4", "k5"}
  Disorder = 3
  Watermark = 1
  PageLimit = 3
  MaxEventAge = 0
  SnapshotEvery = 2
  SnapshotTimer = FALSE
  FaultKinds = {"crash", "read", "rebuildApply", "rebuildApplyAck", "dlq", "rebuildDlqAck", "snapshot", "snapshotAck"}
  MaxFaults = 2
  MaxNow = 0
INVARIANTS
  TypeOK
  SettledInOrder
  NoSilentSkip
  MemoryAgreesWithDatabase
  SnapshotsAreReplays
PROPERTIES
  ImplementsLedger
  EventuallySettled
