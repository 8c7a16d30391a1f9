CONSTANTS
  g1 = g1
  g2 = g2
  poison = poison
  broken = broken
  blank = blank
  v1 = v1
  v2 = v2
  p1 = p1
  p2 = p2
  NoEvent = NoEvent
  Event = {g1, g2, poison, broken, blank}
  Vessel = {v1}
  Partition = {p1}
  VesselOf <- MCSameVessel
  KindOf <- MCKindOf
  PartitionOf <- MCPartitionOf
  FlushRows = 2
  MaxPoll = 2
  MaxRetainRetries = 2
  MaxLog = 3
  MaxFaults <- AllButInterrupt
SPECIFICATION Spec
SYMMETRY Interchangeable
INVARIANTS AtLeastOnce LatestInLog NeighboursSpared NoSilentDrop
PROPERTIES RetriedBeforeQuarantine
