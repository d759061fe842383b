CONSTANTS
  Lifts = {lift1}
  Sessions = {s1, s2}
  Free = Free
  Unseen = Unseen
  TTL = 0
  MaxRetries = 1
  MaxExecutions = 2
  MaxFrames = 1
  MaxKills = 0
SPECIFICATION FairSpec
PROPERTY DispatchReturns
PROPERTY GateReopens
