SPECIFICATION FairSpec
CONSTANTS
  Datagrams = {d1, d2, d3}
  Empty = {d3}
  Goroutines = {g1, g2, g3}
  MaxConns = 1
  OutCap = 1
  Setups <- MCSteady
  None = none
CHECK_DEADLOCK FALSE
PROPERTIES
  CancelCloses
