CONSTANTS
  Lifts = {lift1}
  Sessions = {s1, s2}
  Free = Free
  Unseen = Unseen
  TTL = 2
SPECIFICATION Spec
PROPERTY FrameRefreshesClaim
