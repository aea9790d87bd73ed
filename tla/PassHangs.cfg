CONSTANTS
  Robots = {r1, r2, r3}
  StabilizationFrames = 3
  DesperateTimeout = 4
  MaxPasses = 1
  None = None
SPECIFICATION FairSpec
PROPERTY PassIsDecided
