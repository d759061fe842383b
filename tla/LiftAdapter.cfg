CONSTANTS
  Lifts = {lift1}
  Sessions = {s1, s2}
  Free = Free
  Unseen = Unseen
  TTL = 1
  MaxRetries = 1
  MaxExecutions = 2
  MaxFrames = 2
  MaxKills = 1
SYMMETRY SessionSymmetry
SPECIFICATION AdapterSpec
INVARIANT TypeOK
INVARIANT HolderWasAcknowledged
PROPERTY ConfirmedHoldBlocksOthers
PROPERTY UsesManager
PROPERTY DispatchesAreRemoteCalls
