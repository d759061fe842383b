\* The node really may come to rest: nothing more is asked and the pumps have ended.
CHECK_DEADLOCK FALSE
CONSTANTS
  Doors = {d1, d2}
  Foreign = Foreign
  MaxRequests = 2
  QueueDepth = 1
  MaxFrames = 1
  MaxKills = 1
SPECIFICATION FairSpec
INVARIANT TypeOK
INVARIANT GoalsLagOnlyAcrossRestarts
PROPERTY DispatchesAreRemoteCalls
PROPERTY StateReachesRmf
PROPERTY RequestsSettle
