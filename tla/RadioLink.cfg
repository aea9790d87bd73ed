\* Two robots, a pool of two blocks, two mishaps.
SPECIFICATION FairSpec
CONSTANTS
  NumRXTransfers = 2
  Blocks = 2
  Robots = 2
  RxCapacity = 2
  MaxMishaps = 2
CHECK_DEADLOCK FALSE
INVARIANTS TypeOK OpenRadioListens StuckNeedsMishap
PROPERTY CommandsFlow
