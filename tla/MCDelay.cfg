SPECIFICATION Spec
CONSTANTS
  capacity = 4
  LinkCapacity = 2
  MaxPackets = 4
  MaxTime = 5
  delay = 2
  Apps = {"latency", "jitter", "reorder"}
CHECK_DEADLOCK FALSE
INVARIANTS
  NotEarly
  OnlyDirectOvertakes
  NothingLost
  NotLate
  PanicsOnlyOnceFilled
