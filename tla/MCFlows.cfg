SPECIFICATION ProfileSpec
CONSTANTS
  Scenarios <- MCScenarios
  MaxPort = 3
  Capacity = 1
  NSLOTS = 2
  flow_slot <- MCflow_slot
CHECK_DEADLOCK FALSE
INVARIANTS
  ClassifiedAsDocumented
  ProfileAgrees
  RowsAreTraffic
  TextMeansItsFlow
