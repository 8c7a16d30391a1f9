CONSTANTS
  fleet = fleet
  summary = summary
  v1 = v1
  v2 = v2
  None = None
  Feed = {fleet, summary}
  Fleet = fleet
  Vessel = {v1, v2}
  MaxVersion = 3
  MaxPending <- Pending
  MaxSelects = 2
  MaxFailures = 1
SPECIFICATION FairSpec
INVARIANTS MapCurrent SelectionShown
PROPERTIES NeverOlder ErrorsClear
