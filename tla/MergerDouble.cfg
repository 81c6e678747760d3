SPECIFICATION Spec
CONSTANTS
  Nodes = {n1, n2}
  Packets <- MCPackets
  Copies = {c1}
  IdSpace = 2
  Ids <- MCIds
  PktId <- MCPktId
  MaxReceived = 4
  MaxSockets = 5
  NoDatagram = NoDatagram
INVARIANTS SentOnce
CHECK_DEADLOCK FALSE
