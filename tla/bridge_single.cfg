\* One application process with one thread following the documented call
\* order; the simulator may be stopped by a signal at any point.
CONSTANTS
  Threads = {t1}
  Workspaces = {w1}
  DSM = w1
  CSR = csr
  UMAS = umas
  Bases = {b1, b2, b3, b4}
  NoBase = NoBase
  NoThread = NoThread
  NoMap = NoMap
  NoEntry = NoEntry
  CsrMapSize <- MC_CsrMapSize
  Offsets <- MC_OffsetsIn
  Values <- MC_Values
  UmsgLog2Cfg <- MC_UmsgLog2
  SlotIds <- MC_SlotIds
  AseModeCfg = 1
  NumTestsCfg = 1
  MaxIndex = 4
  MaxRuns = 1
  QueueCap = 2
  FdLimit = 20
  Permit = {}
  SimSignals = TRUE
SPECIFICATION Spec
INVARIANTS TypeOK CsrShadowCoherent
