\* Two places far from each other and one off the field; sightings of two ages.
SPECIFICATION FairSpec
CONSTANTS
  Cells = {0, 1, 3}
  Field = {1, 3}
  Drop = 2
  Ages = {0, 1}
  Steps = {1}
  MaxSightings = 2
INVARIANTS TypeOK ValidIsRecent AcquiredWasSeen
PROPERTY SteadyBallIsFound
