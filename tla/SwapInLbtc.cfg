SPECIFICATION Spec
CONSTANTS
  SwapType = "in"
  Chain = "lbtc"
  Backend = "cln"
  Faults <- NetworkAndNodeFaults
  Csv = 5
  PaymentWindow = 2
  CltvDelta = 2
  MinConfs = 1
  MaxRetries = 1
  MaxCrashes = 1
  MaxOpenHeight = 2
  MaxConfHeight = 3
INVARIANT PaymentStartsInTime
PROPERTY ImplementsAtomicSwap
\* A swap ends; nothing happens after that.
CHECK_DEADLOCK FALSE
