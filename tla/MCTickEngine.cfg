SPECIFICATION FairSpec
CONSTANTS
  Workers = {w1, w2}
  NoWorker = NoWorker
  Distributed = TRUE
  MaxTick = 2
  MaxFaults = 2
INVARIANTS
  NoTickSkippedOrRepeated
  NoRunAhead
  RerunOnlyAfterFault
  TickInv
PROPERTIES
  ClockSpec
  EveryTickCompletes
