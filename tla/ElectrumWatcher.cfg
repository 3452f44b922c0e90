SPECIFICATION Spec
CONSTANTS
  Takers = {t}
  Makers = {m}
  NoSwap = NoSwap
  Confs = 2
  PaymentWindow = 3
  Csv = 3
  Faults = {"rpcFails", "rebootFails", "badHeader", "closed", "storeFails"}
  MaxHeight = 4
  MaxObservers = 2
  MaxCrashes = 1
INVARIANT WaitingIsObserved
INVARIANT ConfirmedIsConfirmed
INVARIANT CsvIsMature
INVARIANT CancelIsDue
INVARIANT TakerNeverInverted
CHECK_DEADLOCK FALSE
