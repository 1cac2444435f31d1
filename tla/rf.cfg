SPECIFICATION FairReadSpec
CONSTANTS
  Users <- MCUsers
  Snapshots <- MCSnapshots
  Clients = {c1, c2}
  Null = Null
  Absent = Absent
  MaxTopic = 3
  MaxCrashes = 1
  MaxExpiries = 1
  MaxRewinds = 1
CHECK_DEADLOCK FALSE
INVARIANT TypeOK
INVARIANT CommittedIsServed
INVARIANT ServesFirstOfVersion
INVARIANT AnswersNeverGoBack
PROPERTY RefinesRegister
PROPERTY EverySnapshotConsumed
