SPECIFICATION Spec
CONSTANTS
  SwapType = "out"
  Chain = "btc"
  Backend = "lnd"
  Faults <- OnlyClaimFails
  Csv = 4
  PaymentWindow = 2
  CltvDelta = 2
  MinConfs = 1
  MaxRetries = 1
  MaxCrashes = 1
  MaxOpenHeight = 2
  MaxConfHeight = 3
INVARIANT KeyHeldWhilePaying
\* A swap ends; nothing happens after that.
CHECK_DEADLOCK FALSE
