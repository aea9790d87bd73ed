\* Frames alone: one play of each kind, two goalies; every failure is followed by another choice.
SPECIFICATION FairMain
CONSTANTS
  stopped = stopped
  attack = attack
  kickoff = kickoff
  g1 = g1
  g2 = g2
  Main = Main
  Watcher = Watcher
  None = None
  Plays = {stopped, attack, kickoff}
  Stopped = stopped
  Restarts = {kickoff}
  Handles = {stopped, kickoff}
  GoalieIds = {g1, g2}
  MaxVersion = 1
INVARIANTS TypeOK TreeMatchesFields FrameCompletes FailedPlayRests
PROPERTY ApplicablePlayRuns
