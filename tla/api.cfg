SPECIFICATION FairSpec
CONSTANTS
  QueueLimit = 2
  Threads = {t1, t2}
  NoThread = NoThread
  Bodies <- MCBodies
  MaxRequests = 4
  MaxFailures = 1
  MaxCrashes = 1
CHECK_DEADLOCK FALSE
INVARIANT TypeOK
INVARIANT AcceptedIsDurable
INVARIANT FlushCoversOwn
PROPERTY EveryRequestAnswered
PROPERTY ImplementsIngress
