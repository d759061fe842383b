CONSTANTS
  MaxCommands = 1
  MaxFrames = 1
SPECIFICATION FairSpec
PROPERTY ActivityCleared
