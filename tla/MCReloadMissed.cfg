SPECIFICATION Spec
CONSTANTS
  Conf <- MCConf
  BadConf <- MCBadConf
  Size <- MCSize
  NoConf = NoConf
  Request = {r1, r2}
  Transfer = {t1}
CHECK_DEADLOCK FALSE
INVARIANT RunsFile
