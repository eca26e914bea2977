SPECIFICATION ClientSpec
CONSTANTS
  p1 = p1
  p2 = p2
  c1 = c1
  Peers <- MCPeers
  Closers <- MCClosers
  MaxConns = 1
  None = None
  Me = p1
  MaxPieces = 2
  MaxWrites = 1
  OutCap = 1
  Setups <- MCServed
CHECK_DEADLOCK FALSE
PROPERTIES
  RejectsAtLimit
