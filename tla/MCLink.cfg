SPECIFICATION Spec
CONSTANTS
  Packet = {p1, p2, p3, p4}
  NullPtr = NullPtr
  SIZE = 4
  Lengths = {1, 2}
  MaxTransmit = 7
SYMMETRY Symmetry
INVARIANTS
  SingleOwner
  CountersMatchCursors
PROPERTY FifoSpec
