SPECIFICATION FairSpec
CONSTANTS
  Writers = {w1}
  Streams = {s1}
  MaxBatch = 2
  MaxSeq = 2
  Relays = {r1, r2}
  NoRelay = NoRelay
  Invalid <- MCInvalid
  BatchSize = 2
  MaxFaults = 2
PROPERTY EventuallyDelivered
