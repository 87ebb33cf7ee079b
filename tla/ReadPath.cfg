SPECIFICATION Spec
CONSTANTS
  Symbols = {1, 2}
  Named = {1, 2}
  Split = {2}
  Long = {}
  Replies <- SomeReplies
  Parts = 2
  Scale = 9
  TopN = 1
  Rows <- SomeRows
  Prices = {0, 4}
  Changes = {0, 1}
  Shocks <- SomeShocks
  Kinds = {"view", "risk", "scenario", "explain", "prices", "price"}
  Window = 3
  SigmaWindow = 2
  Limits = {1}
  Offsets = {0, 1}
  Histories <- SomeHistories
  MaxCommits = 2
CHECK_DEADLOCK FALSE
INVARIANTS AnswersAreOfOneBook LineageIsHonest ShocksMoveMarksOnly RiskIsComplete ExplanationIsGrounded LaterReadsAreNoOlder
