CONSTANTS
  v1 = v1
  v2 = v2
  v3 = v3
  Vessel = {v1, v2, v3}
  ValidMmsi = {v1, v2}
  RawReport <- Reports
  NoValue = NoValue
  NoRow = NoRow
  Threshold = {0, 50, 101}
  Geodesic <- Globe
  Shrink <- ShrinkBy
  HalfCircle = 10000
  TurnLimit = 1
  PairLimit = 1
  MaxMoved = 2
SPECIFICATION FleetSpec
SYMMETRY Symmetric
INVARIANTS FleetTypeOK SummaryAgrees SpeedAgrees DistributionsRight ManeuveringRight ConflictsFound
