SPECIFICATION Spec
CONSTANTS
  rate = 1344
  scale = 10
  tick = 2
  UNIT = 2
  Lengths = {60, 144}
  MaxBreath = 9
  MaxBatch = 2
  MaxTime = 26
INVARIANTS
  RateLimited
  RateGranted
