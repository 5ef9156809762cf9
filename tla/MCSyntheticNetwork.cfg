SPECIFICATION Spec
CONSTANTS
  outer = "eth0"
  inner = "veth0"
  Specs <- MCSpecs
  Malformed <- MCMalformed
  NoSpec = NoSpec
  MaxConfigure = 3
CHECK_DEADLOCK FALSE
INVARIANTS
  PortsAreLinked
  FlowsGetTheirQoS
  MatchesConfig
  KeepsUnchanged
PROPERTY ReloadIsLocal
