SPECIFICATION FairSpec
CONSTANTS
  SourceFiles <- MCSources
  FlushSize = 3
  MaxGenerations = 2
  Seed <- MCSeed
  Edits = {50}
  MaxVersion = 2
  MaxUpdates = 2
  MaxLoads = 1
  MaxTaskFailures = 1
  MaxRereads = 1
ACTION_CONSTRAINT GeneratorFirst
CHECK_DEADLOCK FALSE
INVARIANT GeneratedIsDominant
INVARIANT VersionNamesContent
INVARIANT DrainedIsCurrent
PROPERTY CatalogConverges
