SPECIFICATION Spec
CONSTANTS
  Players = {p1, p2}
  NoPlayer = NoPlayer
  MaxCalm = 4
  MaxRush = 3
  MaxDeliver = 2
  MaxFaults = 1
CHECK_DEADLOCK FALSE
SYMMETRY Symmetry
INVARIANTS
  ProjectorInv
  FollowersConverge
  PrivateArrives
  TimelinesSettle
