CONSTANTS
  FleetNames = {fleet1, fleet2}
  Absent = Absent
  NotText = NotText
  Robots = {"r1", "r2"}
  Nameless = Nameless
  NoDict = NoDict
  Graphs = {graph1}
  Yamls <- Documents
  Envs <- Environments
  Entries <- AllEntries
  Frames <- AllFrames
  MaxPolls = 1
SPECIFICATION FairSpec
INVARIANT TypeOK
INVARIANT OneFleet
INVARIANT PreparedRobotsAreServed
INVARIANT FrameReachesEveryRobot
INVARIANT StopTakesHold
PROPERTY StopHonoured
PROPERTY InterruptEnds
CHECK_DEADLOCK FALSE
