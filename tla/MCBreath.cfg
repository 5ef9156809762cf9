SPECIFICATION BreathSpec
CONSTANTS
  MAX_PACKETS = 3
  FirstStep = 1
  Lengths = {1, 2, 3, 4}
  MaxFrees = 20
  rxApp = rxApp
  src = src
  tee = tee
  loss = loss
  sink = sink
  join = join
  tx = tx
  NoLink = NoLink
  App <- MCApp
  LinkName <- MCLinkName
  Kind <- MCKind
  In <- MCIn
  Out <- MCOut
  Inhale <- MCInhale
  Exhale <- MCExhale
  Arrivals <- MCArrivals
  LINK_MAX_PACKETS = 2
  PULL_NPACKETS = 1
  MAXSLEEP = 2
  Size = 4
  ratio = 1
  Scale = 2
  MaxMade = 1
CHECK_DEADLOCK FALSE
INVARIANTS
  NoAliasNoLeak
  ExhaustedWhenInUse
  OneHolder
  WrittenInOrder
  DropsOnlyBehindBlocked
PROPERTY
  Drains
