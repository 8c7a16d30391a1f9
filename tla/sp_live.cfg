CONSTANTS
  g1 = g1
  g2 = g2
  poison = poison
  broken = broken
  blank = blank
  v1 = v1
  v2 = v2
  p1 = p1
  p2 = p2
  NoEvent = NoEvent
  Event = {g1, poison}
  Vessel = {v1, v2}
  Partition = {p1, p2}
  VesselOf <- MCPoisonApart
  KindOf <- MCKindOf
  PartitionOf <- MCPartitionOf
  FlushRows = 2
  MaxPoll = 2
  MaxRetainRetries = 2
  MaxLog = 2
  MaxFaults <- Outages
SPECIFICATION FairSpec
PROPERTIES EverythingHandled EventuallyCaughtUp ImplementsDelivery
