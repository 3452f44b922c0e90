------------------------------ MODULE SwapFsm ------------------------------
(***************************************************************************)
(* The four state tables of the swap state machine.  A swap has two        *)
(* parties: the maker opens the on-chain HTLC, the taker pays the claim     *)
(* invoice.  In a swap-out the taker is the sender (initiator) and the      *)
(* maker the receiver; in a swap-in the maker is the sender and the taker   *)
(* the receiver.  A table is the set of its entries <<state, event, next>>. *)
(* State names drop the role prefix of the source, so that an action shared *)
(* by two tables is one definition; event names drop "Event_", and          *)
(* "OnStarted", "OnRequestReceived" and "OnAgreementReceived" stand for the *)
(* pair of names that swap-in and swap-out use for the same event.          *)
(***************************************************************************)

Node == {"maker", "taker"}

Peer(n) == IF n = "maker" THEN "taker" ELSE "maker"

SendCancelEvents ==
  { <<"SendCancel", "ActionSucceeded", "SwapCanceled">>,
    <<"SendCancel", "ActionFailed", "SwapCanceled">> }

SwapOutSenderStates == SendCancelEvents \cup
  { <<"Default", "OnStarted", "CreateSwap">>,
    <<"CreateSwap", "ActionSucceeded", "SendRequest">>,
    <<"CreateSwap", "ActionFailed", "SwapCanceled">>,
    <<"SendRequest", "ActionSucceeded", "AwaitAgreement">>,
    <<"SendRequest", "ActionFailed", "SwapCanceled">>,
    <<"AwaitAgreement", "OnCancelReceived", "SwapCanceled">>,
    <<"AwaitAgreement", "OnTimeout", "SendCancel">>,
    <<"AwaitAgreement", "OnAgreementReceived", "PayFeeInvoice">>,
    <<"AwaitAgreement", "OnInvalid_Message", "SendCancel">>,
    <<"AwaitAgreement", "ActionFailed", "SwapCanceled">>,
    <<"PayFeeInvoice", "ActionSucceeded", "AwaitTxBroadcastedMessage">>,
    <<"PayFeeInvoice", "ActionFailed", "SendCancel">>,
    <<"AwaitTxBroadcastedMessage", "OnCancelReceived", "SwapCanceled">>,
    <<"AwaitTxBroadcastedMessage", "OnTxOpenedMessage", "AwaitTxConfirmation">>,
    <<"AwaitTxBroadcastedMessage", "ActionFailed", "SendPrivkey">>,
    <<"AwaitTxBroadcastedMessage", "OnInvalid_Message", "SendCancel">>,
    <<"AwaitTxConfirmation", "OnTxConfirmed", "ValidateTxAndPayClaimInvoice">>,
    <<"AwaitTxConfirmation", "ActionFailed", "SendPrivkey">>,
    <<"ValidateTxAndPayClaimInvoice", "ActionSucceeded", "ClaimSwap">>,
    <<"ValidateTxAndPayClaimInvoice", "ActionFailed", "SendPrivkey">>,
    <<"ClaimSwap", "ActionSucceeded", "ClaimedPreimage">>,
    <<"ClaimSwap", "OnRetry", "ClaimSwap">>,
    <<"ClaimSwap", "OnTimeout", "SendPrivkey">>,
    <<"SendPrivkey", "ActionSucceeded", "SendCoopClose">>,
    <<"SendPrivkey", "ActionFailed", "SendCancel">>,
    <<"SendCoopClose", "ActionSucceeded", "ClaimedCoop">>,
    <<"SendCoopClose", "ActionFailed", "SendCancel">> }

SwapInReceiverStates == SendCancelEvents \cup
  { <<"Default", "OnRequestReceived", "CreateSwap">>,
    <<"Default", "OnInvalid_Message", "SendCancel">>,
    <<"CreateSwap", "ActionSucceeded", "SendAgreement">>,
    <<"CreateSwap", "ActionFailed", "SendCancel">>,
    <<"SendAgreement", "ActionSucceeded", "AwaitTxBroadcastedMessage">>,
    <<"SendAgreement", "ActionFailed", "SendCancel">>,
    <<"AwaitTxBroadcastedMessage", "OnTxOpenedMessage", "AwaitTxConfirmation">>,
    <<"AwaitTxBroadcastedMessage", "OnCancelReceived", "SwapCanceled">>,
    <<"AwaitTxBroadcastedMessage", "ActionFailed", "SendPrivkey">>,
    <<"AwaitTxBroadcastedMessage", "OnInvalid_Message", "SendCancel">>,
    <<"AwaitTxBroadcastedMessage", "OnTimeout", "SendPrivkey">>,
    <<"AwaitTxConfirmation", "OnTxConfirmed", "ValidateTxAndPayClaimInvoice">>,
    <<"AwaitTxConfirmation", "ActionFailed", "SendPrivkey">>,
    <<"AwaitTxConfirmation", "OnCancelReceived", "SendPrivkey">>,
    <<"ValidateTxAndPayClaimInvoice", "ActionSucceeded", "ClaimSwap">>,
    <<"ValidateTxAndPayClaimInvoice", "ActionFailed", "SendPrivkey">>,
    <<"ClaimSwap", "ActionSucceeded", "ClaimedPreimage">>,
    <<"ClaimSwap", "OnRetry", "ClaimSwap">>,
    <<"SendPrivkey", "ActionSucceeded", "SendCoopClose">>,
    <<"SendPrivkey", "ActionFailed", "SendCancel">>,
    <<"SendCoopClose", "ActionSucceeded", "ClaimedCoop">>,
    <<"SendCoopClose", "ActionFailed", "SendCancel">> }

\* From the broadcast on, the swap-out receiver and the swap-in sender have
\* the same entries (AwaitClaimInvoicePayment is called AwaitClaimPayment).
MakerRefundEvents ==
  { <<"BroadcastOpeningTx", "ActionSucceeded", "SendTxBroadcastedMessage">>,
    <<"BroadcastOpeningTx", "ActionFailed", "SendCancel">>,
    <<"SendTxBroadcastedMessage", "ActionSucceeded", "AwaitClaimPayment">>,
    <<"SendTxBroadcastedMessage", "ActionFailed", "WaitCsv">>,
    <<"AwaitClaimPayment", "OnClaimInvoicePaid", "ClaimedPreimage">>,
    <<"AwaitClaimPayment", "OnCancelReceived", "WaitCsv">>,
    <<"AwaitClaimPayment", "OnCoopCloseReceived", "ClaimSwapCoop">>,
    <<"AwaitClaimPayment", "OnCsvPassed", "ClaimSwapCsv">>,
    <<"AwaitClaimPayment", "OnInvalid_Message", "WaitCsv">>,
    <<"ClaimSwapCoop", "ActionSucceeded", "ClaimedCoop">>,
    <<"ClaimSwapCoop", "ActionFailed", "WaitCsv">>,
    <<"WaitCsv", "OnCsvPassed", "ClaimSwapCsv">>,
    <<"WaitCsv", "OnCoopCloseReceived", "ClaimSwapCoop">>,
    <<"ClaimSwapCsv", "ActionSucceeded", "ClaimedCsv">>,
    <<"ClaimSwapCsv", "OnRetry", "ClaimSwapCsv">> }

SwapOutReceiverStates == SendCancelEvents \cup MakerRefundEvents \cup
  { <<"Default", "OnRequestReceived", "CreateSwap">>,
    <<"Default", "OnInvalid_Message", "SendCancel">>,
    <<"CreateSwap", "ActionSucceeded", "SendFeeInvoice">>,
    <<"CreateSwap", "ActionFailed", "SendCancel">>,
    <<"SendFeeInvoice", "ActionSucceeded", "AwaitFeeInvoicePayment">>,
    <<"SendFeeInvoice", "ActionFailed", "SendCancel">>,
    <<"AwaitFeeInvoicePayment", "OnFeeInvoicePaid", "BroadcastOpeningTx">>,
    <<"AwaitFeeInvoicePayment", "OnCancelReceived", "SwapCanceled">>,
    <<"AwaitFeeInvoicePayment", "ActionFailed", "SendCancel">> }

SwapInSenderStates == SendCancelEvents \cup MakerRefundEvents \cup
  { <<"Default", "OnStarted", "CreateSwap">>,
    <<"CreateSwap", "ActionSucceeded", "SendRequest">>,
    <<"CreateSwap", "ActionFailed", "SwapCanceled">>,
    <<"SendRequest", "ActionSucceeded", "AwaitAgreement">>,
    <<"SendRequest", "ActionFailed", "SwapCanceled">>,
    <<"AwaitAgreement", "OnCancelReceived", "SwapCanceled">>,
    <<"AwaitAgreement", "OnTimeout", "SendCancel">>,
    <<"AwaitAgreement", "OnAgreementReceived", "BroadcastOpeningTx">>,
    <<"AwaitAgreement", "OnInvalid_Message", "SendCancel">> }

States(type, n) ==
  IF type = "out"
  THEN IF n = "taker" THEN SwapOutSenderStates ELSE SwapOutReceiverStates
  ELSE IF n = "taker" THEN SwapInReceiverStates ELSE SwapInSenderStates

\* The states whose FailOnrecover is set.
FailOnrecover(type, n) ==
  {"CreateSwap"} \cup
    (IF type = "out"
     THEN IF n = "taker" THEN {"SendRequest", "AwaitAgreement", "PayFeeInvoice"}
                         ELSE {"AwaitFeeInvoicePayment"}
     ELSE {})

\* getNextState's lookup in a table: the empty set is ErrEventRejected.
Lookup(table, state, event) ==
  { t[3] : t \in { u \in table : u[1] = state /\ u[2] = event } }

\* Faulty tables: a claim that times out, a canceled swap whose refund is
\* forgotten, a missing OnCsvPassed, OnTimeout and ActionSucceeded entry.
ClaimTimesOut(type, n, state, event) ==
  Lookup(States(type, n) \cup {<<"ClaimSwap", "OnTimeout", "SendPrivkey">>},
         state, event)

CancelForgetsRefund(type, n, state, event) ==
  IF state = "AwaitClaimPayment" /\ event = "OnCancelReceived"
  THEN {"SwapCanceled"} ELSE Lookup(States(type, n), state, event)

CsvPassedUnhandled(type, n, state, event) ==
  Lookup({ t \in States(type, n) : t[2] # "OnCsvPassed" }, state, event)

TimeoutUnhandled(type, n, state, event) ==
  Lookup({ t \in States(type, n) : t[2] # "OnTimeout" }, state, event)

ClaimNeverEnds(type, n, state, event) ==
  Lookup(States(type, n) \ {<<"ClaimSwap", "ActionSucceeded", "ClaimedPreimage">>},
         state, event)

NextStates(type, n, state, event) == Lookup(States(type, n), state, event)

Finished == {"ClaimedCsv", "SwapCanceled", "ClaimedPreimage", "ClaimedCoop"}

TakerState ==
  {"Default", "CreateSwap", "SendRequest", "SendAgreement", "AwaitAgreement",
   "PayFeeInvoice", "AwaitTxBroadcastedMessage", "AwaitTxConfirmation",
   "ValidateTxAndPayClaimInvoice", "ClaimSwap", "SendPrivkey",
   "SendCoopClose", "SendCancel", "SwapCanceled", "ClaimedPreimage",
   "ClaimedCoop"}

MakerState ==
  {"Default", "CreateSwap", "SendRequest", "AwaitAgreement", "SendFeeInvoice",
   "AwaitFeeInvoicePayment", "BroadcastOpeningTx", "SendTxBroadcastedMessage",
   "AwaitClaimPayment", "ClaimSwapCoop", "WaitCsv", "ClaimSwapCsv",
   "SendCancel", "SwapCanceled", "ClaimedPreimage", "ClaimedCoop",
   "ClaimedCsv"}

State == TakerState \cup MakerState

\* What an action returns, and the events the service and its callbacks send.
Event ==
  {"ActionSucceeded", "ActionFailed", "NoOp", "Done", "OnRetry", "OnStarted",
   "OnRequestReceived", "OnAgreementReceived", "OnTxOpenedMessage",
   "OnCancelReceived", "OnCoopCloseReceived", "OnInvalid_Message",
   "OnTimeout", "OnFeeInvoicePaid", "OnClaimInvoicePaid", "OnTxConfirmed",
   "OnCsvPassed"}
=============================================================================
