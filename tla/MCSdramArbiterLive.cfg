SPECIFICATION FairSpec
CONSTANTS
  Banks = {0, 1}
  Rows = {0}
  HighRows = {}
  Cols = {0, 1}
  Byte = {"x"}
  Closed = Closed
  Z = Z
  Lengths = {1, 2}
  CL = 2
  T_RCD = 1
  T_RP = 1
  T_RAS = 2
  T_RC = 3
  T_WR = 1
  T_RRD = 1
  T_RFC = 3
  T_MRD = 2
  RDD = 3
  INIT_CYCLES = 3
  DQM_FROM_A = TRUE
  Requests <- MCRequests
  VidBanks = {}
  LdrBanks = {0}
  AuxBanks = {1}
  CpuReads = {}
  CpuWrites = {0}
  LDR_HIGH = FALSE
  T_REFI = 18
  DEBT_MAX = 1
  T_STARVE = 10
  VID_BURST = 1
  VID_PERIOD = 10
  LAT_MAX = 0
PROPERTY
  NobodyStarves
