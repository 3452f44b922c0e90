SPECIFICATION FairSpec
CONSTANTS
  SwapType = "out"
  Chain = "btc"
  Backend = "lnd"
  Faults <- NetworkFaults
  Csv = 4
  PaymentWindow = 2
  CltvDelta = 2
  MinConfs = 1
  MaxRetries = 1
  MaxCrashes = 1
  MaxOpenHeight = 2
  MaxConfHeight = 3
INVARIANT TypeOK
INVARIANT KeyHeldWhilePaying
INVARIANT PaidOrRefunded
INVARIANT NoAbandonedOpening
PROPERTY ImplementsAtomicSwap
PROPERTY OpeningIsSpent
\* A swap ends; nothing happens after that.
CHECK_DEADLOCK FALSE
