SPECIFICATION FairSpec
CONSTANTS
  Fixture <- GoldenFixture
  ReplayRunIds = {"A","B"}
  Events <- RecoveryEvents
  Delay = 5000
  WindowSize = 60000
  NoWatermark <- BeforeAllTime
  RestartAttempts = 1
  MaxSource = 3
  MaxResubmits = 1
  MaxExpiries = 0
CHECK_DEADLOCK FALSE
INVARIANT TypeOK
INVARIANT NoEventLost
INVARIANT CanonicalRawExact
INVARIANT CartConverges
INVARIANT DuplicatesAccounted
PROPERTY EventuallyAcknowledged
