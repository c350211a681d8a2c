SPECIFICATION Spec
CONSTANTS
  Players = {p1}
  NoPlayer = NoPlayer
  MaxCalm = 2
  MaxRush = 2
  MaxDeliver = 2
  MaxFaults = 0
CHECK_DEADLOCK FALSE
INVARIANT WithdrawalWins
