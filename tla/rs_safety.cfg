CONSTANTS
  g1 = g1
  g2 = g2
  later = later
  poison = poison
  unkeyed = unkeyed
  v1 = v1
  v2 = v2
  p1 = p1
  p2 = p2
  Event = {g1, g2, later, poison, unkeyed}
  Vessel = {v1}
  Partition = {p1}
  VesselOf <- MCVesselOf
  PartitionOf <- MCPartitionOf
  HourOf <- MCHourOf
  KindOf <- MCKindOf
  MaxRows = 3
  MinRows = 2
  MaxPoll = 2
  Threshold = 2
  MaxLog = 3
  MaxFaults <- AllOnce
SPECIFICATION Spec
SYMMETRY Interchangeable
INVARIANTS NoSilentDrop BufferBounded ArchivedOnceUnlessReplayed
