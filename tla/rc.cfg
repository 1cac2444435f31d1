SPECIFICATION FairSpec
CONSTANTS
  QueueLimit = 2
  Files <- SourceFiles
  BatchSize = 2
  RunIds <- TwoRuns
  MaxRuns = 2
  MaxFailures = 1
CHECK_DEADLOCK FALSE
INVARIANT SuccessIsComplete
INVARIANT SourceOrderKept
INVARIANT HttpLeavesNoGap
INVARIANT OutputKeptUnlessForced
INVARIANT RerunIsIdempotent
PROPERTY RunEnds
