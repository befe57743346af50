SPECIFICATION FairSpec
CONSTANTS
  w1 = w1
  w2 = w2
  Workers = {w1, w2}
  MaxGens = 2
  PacketLimit = 2
  BatchMax = 2
  Delays = {0, 1}
  Sends <- MCSends
  MaxRefusals = 1
  MaxStalls = 0
INVARIANTS WriterInv FifoOrder
PROPERTIES OwnedSettles
