CONSTANTS
  g1 = g1
  g2 = g2
  refused = refused
  other = other
  odd = odd
  v1 = v1
  NoFrame = NoFrame
  Frame = {g1, g2, refused, other, odd}
  Vessel = {v1}
  VesselOf <- MCVesselOf
  KindOf <- MCKindOf
  MaxExponent = 0
  MaxWire = 1
  MaxFaults <- Everything
SPECIFICATION FairSpec
INVARIANTS NoFrameLost StopLosesOne OrderKept PublishedOrQuarantined
PROPERTIES ListensAgain
CHECK_DEADLOCK FALSE
