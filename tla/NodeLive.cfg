SPECIFICATION FairNodeSpec
CONSTANTS
  Moving = {"sync", "rpc", "lnd"}

  Ids = {i, j}
  Chans = {c, d}
  NoChan = NoChan
  MaxServiceStops = 2

  Pubkeys = {p1}
  Lists = {"suspicious_peers"}
  MaxPolicyLines = 2
  MaxMishaps = 2

  Peers = {b}
  Pollers = {}
  Versions = {6, 7}
  Rates = {0}
  BusSize = 1
  Happenings = {"change", "restart"}
  MaxSyncEvents = 2

  RpcMakers = {m}
  RpcTakers = {t}
  Free = Free
  RequiredConfs = 2
  SafetyLimit = 2
  CsvBlocks = 1
  Uint = 16
  MaxTip = 2
  MaxRpcRestarts = 0

  LndSwaps = {s1, s2}
  NoSwap = NoSwap
  MaxAdds = 2
  MaxMessages = 1
  MaxStreamFaults = 1

  Amounts = {0, 3}
  Ppms <- MCPpms
  Parts = 2
  HardOut = 1
  NoRate = NoRate
  Capacity = 5
  Reserve = 1
  MaxHtlcs = {0, 6}
  Msat = 2
  Slack = 1
  MinSwap = 2
  Purses = {0, 4}
  OpeningFees = {0, 1}
  Uint64 = 64
  MaxMoves = 2

  OpenAmount = 100000
  OtherAmount = 7
  OpenCsv = 2
  MaxDepth = 2
  Relays = {100, 5003}
  Estimates = {0, 400, 8000, 1000000}
  CoreVersions <- MCCoreVersions

CHECK_DEADLOCK FALSE
PROPERTY PeersAreHeard
PROPERTY WatcherLockReturns
 
 
