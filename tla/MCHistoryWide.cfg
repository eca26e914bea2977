SPECIFICATION Spec
CONSTANTS
  k1 = k1
  k2 = k2
  k3 = k3
  c1 = c1
  c2 = c2
  None = None
  Keys <- MCKeys
  Empty = k3
  Shard <- MCShard
  Callers <- MCLone
  Sizes <- MCWide
  FirstSize = 0
  DefaultSize = 3
  Half = 4
  MaxOps = 2
INVARIANT
  AllResized
CHECK_DEADLOCK FALSE
