SPECIFICATION LaneSpec
CONSTANTS
  JobCount = 3
  Claimants = {c1, c2}
  MaxClaims = 2
INVARIANTS OneResultPerJob
PROPERTIES LaneEnds
CHECK_DEADLOCK FALSE
