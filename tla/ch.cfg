SPECIFICATION FairSpec
CONSTANTS
  Keys <- MCKeys
  Rows <- MCRows
  PartitionOf <- MCPartitionOf
  MaxTopic = 3
  MaxAborts = 2
CHECK_DEADLOCK FALSE
INVARIANT CommittedIsCanonical
PROPERTY MergeInvisible
PROPERTY VersionsNeverDecrease
PROPERTY EveryRowIngested
