\* Stages and scores arriving while frames run, changes of team, shutdown.
SPECIFICATION FairSpec
CONSTANTS
  Commands = {"HALT"}
  Stages <- MCTwoStages
  Scores = {0, 1}
  Packets <- MCPackets
  Positions = {0}
  KickThreshold = 0
  KickVerifyTime = 0
  DayLength = 1
  MaxFrameTime = 1
PROPERTIES ViewSettles StopTerminates
