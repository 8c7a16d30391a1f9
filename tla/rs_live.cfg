CONSTANTS
  g1 = g1
  g2 = g2
  later = later
  poison = poison
  unkeyed = unkeyed
  v1 = v1
  v2 = v2
  p1 = p1
  p2 = p2
  Event = {g1, later, poison}
  Vessel = {v1, v2}
  Partition = {p1, p2}
  VesselOf <- MCVesselOf
  PartitionOf <- MCPartitionOf
  HourOf <- MCHourOf
  KindOf <- MCKindOf
  MaxRows = 3
  MinRows = 2
  MaxPoll = 2
  Threshold = 5
  MaxLog = 2
  MaxFaults <- BrokerAndStops
SPECIFICATION FairSpec
PROPERTIES EverythingStored EventuallyBelowMinRows ImplementsDelivery
