SPECIFICATION Spec
CONSTANTS
  Players = {p1, p2}
  NoPlayer = NoPlayer
  MaxLog = 5
SYMMETRY Symmetry
INVARIANTS
  IndexIsFold
  EntriesRestored
  ReplayInv
