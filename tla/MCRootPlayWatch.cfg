\* Frames and the watcher: reloads, deletions and exceptions in both threads.
SPECIFICATION Spec
CONSTANTS
  stopped = stopped
  attack = attack
  kickoff = kickoff
  g1 = g1
  g2 = g2
  Main = Main
  Watcher = Watcher
  None = None
  Plays = {stopped, attack}
  Stopped = stopped
  Restarts = {}
  Handles = {stopped}
  GoalieIds = {}
  MaxVersion = 2
INVARIANT ReloadedPlayIsReplaced
VIEW WithoutHistory
