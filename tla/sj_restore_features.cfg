SPECIFICATION Spec
CONSTANTS
  Fixture <- GoldenFixture
  ReplayRunIds = {"A","B"}
  Events <- ReplayEvents
  Delay = 5000
  WindowSize = 60000
  NoWatermark <- BeforeAllTime
  RestartAttempts = 1
  MaxSource = 3
  MaxResubmits = 0
  MaxExpiries = 0
CHECK_DEADLOCK FALSE
INVARIANT ClosedWindowStable
