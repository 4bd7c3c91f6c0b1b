SPECIFICATION FairSpec
CONSTANTS
  ChannelCapacity = 2
  MaxPending = 1
  MaxFrames = 3
  MaxConnections = 2
PROPERTY FramesCopied
CHECK_DEADLOCK FALSE
