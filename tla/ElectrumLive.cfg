SPECIFICATION FairSpec
CONSTANTS
  Takers = {t}
  Makers = {m}
  NoSwap = NoSwap
  Confs = 1
  PaymentWindow = 2
  Csv = 2
  Faults = {"rpcFails", "rebootFails", "badHeader", "closed", "storeFails"}
  MaxHeight = 3
  MaxObservers = 2
  MaxCrashes = 0
PROPERTY NewsIsDelivered
CHECK_DEADLOCK FALSE
