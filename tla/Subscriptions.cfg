CONSTANTS
  Pumps = {p1, p2}
  Limit = 3
  Window = 2
SPECIFICATION FairSpec
INVARIANT TypeOK
PROPERTY SilentAfterClose
PROPERTY EndsForCause
PROPERTY Reconnects
PROPERTY StopEnds
