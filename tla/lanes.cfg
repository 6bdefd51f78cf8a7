SPECIFICATION LiveSpec
CONSTANTS
  MaxActive = 1
  MaxLanes = 2
  MaxBriefs = 2
  MaxStops = 2
INVARIANTS
  OneReportPerBrief
PROPERTIES
  CancelledStays
  Settles
CHECK_DEADLOCK FALSE
