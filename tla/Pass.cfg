CONSTANTS
  Robots = {r1, r2, r3}
  StabilizationFrames = 3
  DesperateTimeout = 4
  MaxPasses = 2
  None = None
SPECIFICATION FairSpec
INVARIANTS TypeOK SubbehaviorsMatchStates AimerHasCaptured NoEarlyKick
PROPERTIES JudgesSettledBall ReceivingEnds
