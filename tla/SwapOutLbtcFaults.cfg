SPECIFICATION Spec
CONSTANTS
  SwapType = "out"
  Chain = "lbtc"
  Backend = "cln"
  Faults <- CrashFaults
  Csv = 4
  PaymentWindow = 2
  CltvDelta = 2
  MinConfs = 1
  MaxRetries = 0
  MaxCrashes = 1
  MaxOpenHeight = 1
  MaxConfHeight = 3
INVARIANT OpeningSentIsPersisted
INVARIANT AnchorBeforeCommitment
 
INVARIANT OutcomeIsTrue
PROPERTY NoPaymentAfterReveal
\* A swap ends; nothing happens after that.
CHECK_DEADLOCK FALSE
