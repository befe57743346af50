SPECIFICATION FairSpec
CONSTANTS
  w1 = w1
  w2 = w2
  Owner = Owner
  None = None
  Workers = {w1, w2}
  MaxGens = 2
  MaxReads = 2
  Loads <- MCLoads
  Charge <- MCCharge
  ChargeLimit = 1
  PacketLimit = 1
  Quantum = 1
INVARIANT ReaderInv
PROPERTY NoStaleDelivery CapacityWakes
