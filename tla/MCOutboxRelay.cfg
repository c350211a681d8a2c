SPECIFICATION Spec
CONSTANTS
  Writers = {w1, w2}
  Streams = {s1, s2}
  MaxBatch = 2
  MaxSeq = 2
  Relays = {r1, r2}
  NoRelay = NoRelay
  Invalid <- MCInvalid
  BatchSize = 2
  MaxFaults = 1
SYMMETRY Symmetry
INVARIANTS
  StoreInv
  NoSilentLoss
  FirstDeliveryInOrder
  OnceWithoutFaults
  RelayInv
PROPERTIES
  DeliverySpec
  NoLateRow
