SPECIFICATION Spec
CONSTANTS
  SwapType = "in"
  Chain = "btc"
  Backend = "lnd"
  Faults <- CrashAndRpcFaults
  Csv = 6
  PaymentWindow = 3
  CltvDelta = 2
  MinConfs = 1
  MaxRetries = 0
  MaxCrashes = 1
  MaxOpenHeight = 2
  MaxConfHeight = 3
INVARIANT PaymentStartsInTime
PROPERTY AnchorKept
\* A swap ends; nothing happens after that.
CHECK_DEADLOCK FALSE
