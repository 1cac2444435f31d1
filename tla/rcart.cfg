SPECIFICATION FairReadSpec
CONSTANTS
  Users = {u1}
  Items = {i1, i2}
  MaxTopic = 3
  MaxCrashes = 1
  MaxExpiries = 1
  MaxRebuilds = 1
  MaxLosses = 1
CHECK_DEADLOCK FALSE
INVARIANT CommittedIsApplied
INVARIANT AnswersNeverGoBack
INVARIANT NoImmortalCart
PROPERTY EveryMutationConsumed
