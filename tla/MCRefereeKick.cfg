\* The kick detector, in a match run from the buttons of the main window.
SPECIFICATION ByHand
CONSTANTS
  Commands = {"HALT", "STOP", "NORMAL_START", "FORCE_START", "PREPARE_KICKOFF_BLUE"}
  Stages <- MCOneStage
  Scores = {0}
  Packets = {}
  Positions = {0, 1}
  KickThreshold = 0
  KickVerifyTime = 2
  DayLength = 5
  MaxFrameTime = 2
INVARIANTS TypeOK ReadyIsArmed
PROPERTIES KickIsVerified KickIsDecided
