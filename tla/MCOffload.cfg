SPECIFICATION MCSpec
CONSTANTS
  mss = 2
  SeqSpace = 8
  Capacity = 3
  Lengths = {0, 2, 3, 5}
  Seqs = {0, 6}
  MaxPackets = 2
  BYTE = 2
  NoData = NoData
  Data <- MCData
  Pseudo <- MCPseudo
  Headers <- MCHeaders
  Payloads <- MCPayloads
CHECK_DEADLOCK FALSE
INVARIANTS
  EveryByteOnce
  ChecksumsAreRight
  AssemblyMatchesReference
  ReceiverAgrees
