SPECIFICATION Spec
CONSTANTS
  Nodes = {n1, n2}
  Packets = {p1, p2}
  Copies = {c1, c2}
  IdSpace = 1
  Ids <- MCIds
  PktId <- MCWrapped
  MaxReceived = 4
  MaxSockets = 3
  NoDatagram = NoDatagram
SYMMETRY MCSymmetry
CONSTRAINT ReceivedBound
INVARIANTS NoLostMerge MergeInput
CHECK_DEADLOCK FALSE
