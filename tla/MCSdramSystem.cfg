SPECIFICATION SysSpec
CONSTANTS
  Banks = {0, 1}
  Rows = {0}
  HighRows = {}
  Cols = {0, 1}
  Byte = {"x"}
  Closed = Closed
  Z = Z
  Lengths = {1, 2}
  CL = 2
  T_RCD = 1
  T_RP = 2
  T_RAS = 2
  T_RC = 4
  T_WR = 2
  T_RRD = 2
  T_RFC = 5
  T_MRD = 2
  RDD = 3
  INIT_CYCLES = 3
  DQM_FROM_A = TRUE
  Requests <- MCRequests
  Offered <- MCOffered
  LDR_HIGH = FALSE
  T_REFI = 36
  DEBT_MAX = 2
  T_STARVE = 255
  VID_BURST = 2
  VID_PERIOD = 18
  LAT_MAX = 23
INVARIANTS
  RefreshLedger
  RefreshPostponed
  LowPriorityBankIdle
  CpuLatencyBound
PROPERTY ImplementsBus
