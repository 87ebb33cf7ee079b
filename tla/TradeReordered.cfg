SPECIFICATION Spec
CONSTANTS
  Symbols = {"A", "B"}
  QtyUnit = 1
  CostUnit = 1
  ResultUnit = 1
  MaxTime = 5
  Requests <- CloseTrades
  Keys = {"k1", "k2", "k3", "k4", "k5"}
  Disorder = 1
  Watermark = 1
  PageLimit = 200
  MaxEventAge = 0
  SnapshotEvery = 0
  SnapshotTimer = FALSE
  FaultKinds = {}
  MaxFaults = 2
  MaxNow = 0
INVARIANTS
  NoSilentDrop
