SPECIFICATION MemSpec
CONSTANTS
  Banks = {0, 1}
  Rows = {0, 1}
  HighRows = {1}
  Cols = {0, 1, 2, 3}
  Byte = {x, y}
  x = x
  y = y
  Closed = Closed
  Z = Z
  Lengths = {1, 2, 4}
  CL = 3
  T_RCD = 3
  T_RP = 3
  T_RAS = 5
  T_RC = 7
  T_WR = 2
  T_RRD = 2
  T_RFC = 8
  T_MRD = 2
  RDD = 4
  INIT_CYCLES = 3
  DQM_FROM_A = TRUE
  Offered <- MCOps
INVARIANTS
  NothingLost
  CommandsLegal
  NoContention
  NoMaskedRead
PROPERTY ImplementsSerialMemory
