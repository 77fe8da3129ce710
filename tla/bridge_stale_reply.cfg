\* Two application processes in turn; the first may be killed between
\* sending its ALLOC and taking the reply.
CONSTANTS
  Threads = {t1}
  Workspaces = {w1}
  DSM = w1
  CSR = csr
  UMAS = umas
  Bases = {b1, b2, b3, b4, b5, b6, b7, b8}
  NoBase = NoBase
  NoThread = NoThread
  NoMap = NoMap
  NoEntry = NoEntry
  CsrMapSize <- MC_CsrMapSize
  Offsets = {}
  Values <- MC_ValuesOne
  UmsgLog2Cfg <- MC_UmsgLog2
  SlotIds <- MC_SlotIdsOne
  AseModeCfg = 4
  NumTestsCfg = 2
  MaxIndex = 4
  MaxRuns = 2
  QueueCap = 1
  FdLimit = 20
  Permit = {}
  SimSignals = FALSE
SPECIFICATION Spec
INVARIANT RoundTripTranslation
