\* The loop, the receiver and the window; threads stop when the program ends.
SPECIFICATION FairSpec
CONSTANTS
  r1 = r1
  p1 = p1
  p2 = p2
  primary = primary
  secondary = secondary
  Robots = {r1}
  Ports = {primary, secondary}
  Packets = {p1, p2}
  MaxLost = 1
  None = None
INVARIANTS TypeOK PacketsAreOwned OneTeamPerFrame CommandsAgree ListensToChannel
PROPERTIES FramesContinue WindowResponds
CHECK_DEADLOCK FALSE
