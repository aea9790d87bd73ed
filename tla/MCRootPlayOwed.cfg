\* A restart play is allowed until one ran.
SPECIFICATION SpecMain
CONSTANTS
  stopped = stopped
  attack = attack
  kickoff = kickoff
  g1 = g1
  g2 = g2
  Main = Main
  Watcher = Watcher
  None = None
  Plays = {stopped, attack, kickoff}
  Stopped = stopped
  Restarts = {kickoff}
  Handles = {stopped, kickoff}
  GoalieIds = {}
  MaxVersion = 1
INVARIANT RestartIsOwed
