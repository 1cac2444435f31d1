SPECIFICATION Spec
CONSTANTS
  Fixture <- GoldenFixture
  ReplayRunIds = {"A","B"}
  Events <- CartEvents
  Delay = 5000
  WindowSize = 60000
  NoWatermark <- BeforeAllTime
  RestartAttempts = 0
  MaxSource = 3
  MaxResubmits = 0
  MaxExpiries = 1
CHECK_DEADLOCK FALSE
INVARIANT CartNeverRecreated
