SPECIFICATION Spec
CONSTANTS
  capacity = 4
  LinkCapacity = 2
  MaxPackets = 5
  MaxTime = 6
  delay = 2
  Apps = {"latency"}
CHECK_DEADLOCK FALSE
INVARIANT NeverPanics
