SPECIFICATION FairSpec
CONSTANTS
  IAC = "IAC"
  WILL = "WILL"
  SB = "SB"
  SE = "SE"
  MaxPending = 4
  Me = me
  Rival = rival
  None = none
  Bytes <- MCBytes
  Setups <- MCSetups
  Notice <- MCNotice
  MaxConns = 1
  OutCap = 1
  MaxRead = 2
CHECK_DEADLOCK FALSE
INVARIANTS
  StreamIntact
  ExecFilters
  CloseLeavesNothing
PROPERTIES
  BothEndsClose
