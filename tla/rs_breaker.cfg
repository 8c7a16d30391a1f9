CONSTANTS
  g1 = g1
  g2 = g2
  later = later
  poison = poison
  unkeyed = unkeyed
  v1 = v1
  v2 = v2
  p1 = p1
  p2 = p2
  Event = {g1, g2}
  Vessel = {v1}
  Partition = {p1}
  VesselOf <- MCVesselOf
  PartitionOf <- MCPartitionOf
  HourOf <- MCHourOf
  KindOf <- MCKindOf
  MaxRows = 1
  MinRows = 1
  MaxPoll = 2
  Threshold = 2
  MaxLog = 2
  MaxFaults <- TwoUploads
SPECIFICATION FairSpec
PROPERTIES ConsumptionResumes
