SPECIFICATION Spec
CONSTANTS
  QueueLimit = 2
  Threads = {t1, t2}
  NoThread = NoThread
  Bodies <- MCBodies
  MaxRequests = 2
  MaxFailures = 1
  MaxCrashes = 0
CHECK_DEADLOCK FALSE
INVARIANT FailureIsOwn
