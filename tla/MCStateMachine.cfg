\* A skill's states on three levels.
SPECIFICATION Spec
CONSTANTS
  None = None
  States <- MCStates
  Parent <- MCParent
  Start = "start"
  Edges <- MCEdges
INVARIANTS TypeOK HooksBalance EnteredInside
