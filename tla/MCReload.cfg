SPECIFICATION Spec
CONSTANTS
  Conf <- MCConf
  BadConf <- MCBadConf
  Size <- MCSize
  NoConf = NoConf
  Request = {r1, r2, r3}
  Transfer = {t1}
CHECK_DEADLOCK FALSE
INVARIANTS
  AppliesWholeSpecs
  RunsFileUnlessMissed
PROPERTIES
  FrontendEnds
  Converges
