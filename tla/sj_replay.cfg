SPECIFICATION Spec
CONSTANTS
  Fixture <- GoldenFixture
  ReplayRunIds = {"A","B"}
  Events <- ReplayEvents
  Delay = 5000
  WindowSize = 60000
  NoWatermark <- BeforeAllTime
  RestartAttempts = 0
  MaxSource = 3
  MaxResubmits = 1
  MaxExpiries = 1
CHECK_DEADLOCK FALSE
INVARIANT LateIffBehind
INVARIANT AcceptedIsPlaced
INVARIANT ClosedWindowStable
INVARIANT FeatureVersionsIncrease
INVARIANT MetricsInputAccounted
