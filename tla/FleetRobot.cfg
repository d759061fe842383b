CONSTANTS
  MaxCommands = 3
  MaxFrames = 1
SPECIFICATION FairSpec
INVARIANT TypeOK
INVARIANT ToldWasAccepted
INVARIANT OnlyFailedCommandsLag
PROPERTY Registers
PROPERTY AcceptedIsReported
PROPERTY CommandsAreRemoteCalls
