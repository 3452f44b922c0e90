-------------------------------- MODULE Swap --------------------------------
(***************************************************************************)
(* One swap between two PeerSwap nodes: two state machines (SwapFsm), each  *)
(* with its mutex, its bbolt record and its volatile helpers (the ten       *)
(* minute timer, the redundant sender, the watcher subscriptions), and the  *)
(* three things they share: the peer messages, the chain and the Lightning  *)
(* channel.  A node may crash between any two steps and restarts from its   *)
(* record.                                                                  *)
(*                                                                          *)
(* SendEvent is three steps, because the record is written before the       *)
(* transition and again only after the new state's action has run: Post     *)
(* (lock, apply the context, UpdateData), Execute (transition and action)   *)
(* and Save (UpdateData, then the next event or unlock).                    *)
(***************************************************************************)
EXTENDS Integers, SwapFsm

CONSTANTS
  SwapType,       \* "out" or "in"
  Chain,          \* "btc", or "lbtc" for protocol version 7
  Backend,        \* the nodes' Lightning implementation: "cln" or "lnd"
  Faults,         \* what may go wrong, a subset of Fault
  Csv,            \* relative locktime of the refund path, in blocks
  PaymentWindow,  \* blocks after the anchor in which the taker may pay
  CltvDelta,      \* blocks after which an HTLC in flight is resolved
  MinConfs,       \* confirmations the taker waits for
  MaxRetries,     \* the 20 of SendEvent's OnRetry case
  MaxCrashes,     \* bound: crashes of the two nodes together
  MaxOpenHeight,  \* bound: the opening transaction is broadcast by then
  MaxConfHeight   \* bound: and confirmed by then

\* lose: a peer message is lost.  sendFails: SendMessage returns an error.
\* rpcFails: a chain RPC (GetBlockHeight, the watcher's lookup) errors.
\* claimFails: the wallet cannot create or broadcast a claim.  payRpcError: a
\* payment call returns an error while its HTLC is in flight.  invalid: a
\* message or transaction does not validate.  slow: blocks arrive while a node
\* is down or still has local work to do.
Fault == {"crash", "lose", "sendFails", "rpcFails", "claimFails",
          "payRpcError", "invalid", "slow"}

ASSUME SwapAssumption ==
  /\ SwapType \in {"out", "in"}
  /\ Chain \in {"btc", "lbtc"}
  /\ Backend \in {"cln", "lnd"}
  /\ Faults \subseteq Fault
  /\ {Csv, PaymentWindow, CltvDelta, MinConfs} \subseteq Nat \ {0}
  /\ {MaxRetries, MaxCrashes, MaxOpenHeight, MaxConfHeight} \subseteq Nat
  /\ Chain = "btc" => PaymentWindow = Csv \div 2

VARIABLES
  cur,      \* [Node -> State]: s.Current
  data,     \* [Node -> Data]: what s.Data decides later steps by
  disk,     \* [Node -> [cur, data]]: the bbolt record, cur = "Absent" if none
  pc,       \* [Node -> Pc]: where the goroutine holding s.mutex is
  ev,       \* [Node -> Event]: the event or action result it carries
  vol,      \* [Node -> Volatile]: timer, sender, watcher subscriptions, retries
  net,      \* peer messages in flight
  wire,     \* every peer message ever sent (history)
  chain,    \* height and the opening transaction's fate
  ln,       \* fee payment and claim payment
  crashes

vars == <<cur, data, disk, pc, ev, vol, net, wire, chain, ln, crashes>>
world == <<data, vol, net, wire, chain, ln>>

Initiator == IF SwapType = "out" THEN "taker" ELSE "maker"

MessageType == {"request", "agreement", "opening", "cancel", "coop"}
Message == Node \X MessageType

\* Watchers a node can have subscribed to.
Watch == {"fee", "pay", "csv", "conf"}

\* none: not in activeSwaps; idle: s.mutex is free; event, save: in SendEvent;
\* loop, rpc, again: in the payment loop before its first tick, in the payment
\* call, after a failed round; blocked: waiting for a mutex it holds itself;
\* down: the process is not running; recover, rsave: in Recover.
Pc == {"none", "idle", "event", "save", "loop", "rpc", "again", "blocked",
       "down", "recover", "rsave"}

\* What Execute returns, or "Loop" (in the payment loop) or "Block".
ActionResult == {"ActionSucceeded", "ActionFailed", "NoOp", "OnRetry", "Done",
                 "Loop", "Block"}

Data == [anchor : Nat, agreed : BOOLEAN, openTx : BOOLEAN, coop : BOOLEAN,
         preimage : BOOLEAN, claimTx : BOOLEAN]

NewData == [anchor |-> 0, agreed |-> FALSE, openTx |-> FALSE, coop |-> FALSE,
            preimage |-> FALSE, claimTx |-> FALSE]

Volatile == [timer : BOOLEAN, sender : BOOLEAN, watch : SUBSET Watch,
             retries : Nat]

NewVolatile == [timer |-> FALSE, sender |-> FALSE, watch |-> {}, retries |-> 0]

Init ==
  /\ cur = [n \in Node |-> "Default"]
  /\ data = [n \in Node |-> NewData]
  /\ disk = [n \in Node |-> [cur |-> "Absent", data |-> NewData]]
  /\ pc = [n \in Node |-> "none"]
  /\ ev = [n \in Node |-> "NoOp"]
  /\ vol = [n \in Node |-> NewVolatile]
  /\ net = {}
  /\ wire = {}
  /\ chain = [height |-> 1, open |-> "none", conf |-> 0, spent |-> "none",
              opens |-> 0]
  /\ ln = [fee |-> FALSE, pay |-> "none", since |-> 0]
  /\ crashes = 0

-----------------------------------------------------------------------------
(* Helpers of the actions. *)

Send(m) == net' = net \cup {m} /\ wire' = wire \cup {m}

\* checkPaymentWindow, and the Bitcoin check of AwaitTxConfirmationAction.
InPaymentWindow(d) ==
  /\ d.anchor # 0
  /\ d.anchor <= chain.height
  /\ chain.height < d.anchor + PaymentWindow

\* Faulty: the height is not compared with the window's end.
MayStartPaymentAnytime(d) == d.anchor <= chain.height

\* The check in the payment loop.  For Bitcoin it compares with > where the
\* other two checks compare with >=.
MayStartPayment(d) ==
  IF Chain = "btc" THEN chain.height - d.anchor <= PaymentWindow
                   ELSE InPaymentWindow(d)

Confirmations ==
  IF chain.open = "confirmed" THEN chain.height - chain.conf + 1 ELSE 0

CsvPassed == chain.open = "confirmed" /\ Confirmations >= Csv

\* Bitcoin on LND has LND's own watcher, everything else the RPC watcher.
RpcWatcher == Backend = "cln" \/ Chain = "lbtc"
-----------------------------------------------------------------------------
(* The actions of the states.  X(n, r): node n runs X and X returns r.      *)

\* Faulty: the anchor is left to SetStartingBlockHeightAction.
CreateSwapWithoutAnchor(n, r) ==
  /\ r = "ActionSucceeded"
  /\ vol' = [vol EXCEPT ![n].timer = TRUE]
  /\ UNCHANGED <<data, net, wire, chain, ln>>

\* CreateSwapRequestAction on the initiator; CheckRequestWrapperAction with
\* SwapInReceiverInitAction or CreateSwapOutFromRequestAction on the receiver,
\* whose checks may refuse the swap.  Only the taker's anchor is ever read.
CreateSwapAction(n, r) ==
  \/ /\ r = "ActionFailed"
     /\ n = Initiator => "rpcFails" \in Faults /\ Chain = "lbtc"
     /\ UNCHANGED world
  \/ /\ r = "ActionSucceeded"
     /\ data' = IF n = "taker" /\ Chain = "lbtc"
                THEN [data EXCEPT ![n].anchor = chain.height] ELSE data
     /\ vol' = [vol EXCEPT ![n].timer = TRUE]
     /\ UNCHANGED <<net, wire, chain, ln>>

\* Faulty: the state before did not set NextMessageType.
MessageOfUnset(s) == IF s = "SendCancel" THEN "cancel" ELSE "none"

\* The message a sending state sends; all but "cancel" are swap.NextMessage,
\* set and saved by the state before.
MessageOf(s) ==
  IF s = "SendRequest" THEN "request"
  ELSE IF s = "SendCoopClose" THEN "coop"
  ELSE IF s = "SendCancel" THEN "cancel" ELSE "agreement"

SendMessageAction(n, s, r) ==
  \/ /\ r = "ActionSucceeded"
     /\ Send(<<Peer(n), MessageOf(s)>>)
     /\ UNCHANGED <<data, vol, chain, ln>>
  \/ "sendFails" \in Faults /\ r = "ActionFailed" /\ UNCHANGED world

\* AddSender refuses a second sender.  When RedundantMessenger's first send
\* fails its retry loop is not started, and the action ignores the error.
SendMessageWithRetryAction(n, r) ==
  \/ vol[n].sender /\ r = "ActionFailed" /\ UNCHANGED world
  \/ /\ ~vol[n].sender
     /\ r = "ActionSucceeded"
     /\ \/ /\ Send(<<Peer(n), "opening">>)
           /\ vol' = [vol EXCEPT ![n].sender = TRUE]
        \/ "sendFails" \in Faults /\ UNCHANGED <<net, wire, vol>>
     /\ UNCHANGED <<data, chain, ln>>

\* CheckPremiumAmount and PayFeeInvoiceAction: premium, balance, probe and fee
\* checks, then the payment.
PayFeeInvoiceAction(n, r) ==
  \/ r = "ActionFailed" /\ UNCHANGED world
  \/ /\ r = "ActionSucceeded" \/ ("payRpcError" \in Faults /\ r = "ActionFailed")
     /\ ln' = [ln EXCEPT !.fee = TRUE]
     /\ UNCHANGED <<data, vol, net, wire, chain>>

\* Faulty: the key is sent before the state SendPrivkey is on disk.
SendPrivkeyBeforeSave(n, r) ==
  /\ r = "ActionSucceeded"
  /\ Send(<<Peer(n), "coop">>)
  /\ UNCHANGED <<data, vol, chain, ln>>

\* Builds the coop_close message for SendCoopClose; nothing is sent here.
TakerSendPrivkeyAction(n, r) == r = "ActionSucceeded" /\ UNCHANGED world

\* Faulty: every visit starts the payment window afresh.
SetStartingBlockHeightAgain(n, r) ==
  /\ r = "NoOp"
  /\ data' = [data EXCEPT ![n].anchor = chain.height]
  /\ UNCHANGED <<vol, net, wire, chain, ln>>

\* Bitcoin anchors the payment window here, once; Liquid v7 only checks it.
SetStartingBlockHeightAction(n, r) ==
  /\ \/ "rpcFails" \in Faults /\ r = "ActionFailed" /\ UNCHANGED data
     \/ /\ Chain = "btc" /\ data[n].anchor = 0
        /\ r = "NoOp"
        /\ data' = [data EXCEPT ![n].anchor = chain.height]
     \/ /\ Chain = "lbtc" \/ data[n].anchor # 0
        /\ r = IF InPaymentWindow(data[n]) THEN "NoOp" ELSE "ActionFailed"
        /\ UNCHANGED data
  /\ UNCHANGED <<vol, net, wire, chain, ln>>

AwaitTxConfirmationAction(n, r) ==
  \/ /\ "rpcFails" \in Faults \/ ~InPaymentWindow(data[n])
     /\ r = "ActionFailed"
     /\ UNCHANGED world
  \/ /\ InPaymentWindow(data[n])
     /\ r = "NoOp"
     /\ vol' = [vol EXCEPT ![n].watch = @ \cup {"conf"}]
     /\ UNCHANGED <<data, net, wire, chain, ln>>

\* ValidateTx, then the payment loop (PayTick, PayReturn, PayTimeout).
ValidateTxAndPayClaimInvoiceAction(n, r) ==
  /\ r = "Loop" \/ ("invalid" \in Faults /\ r = "ActionFailed")
  /\ UNCHANGED world

\* Faulty: the message goes out with the transaction; no early return for a
\* transaction that is recorded.
BroadcastAndSend(n, r) ==
  /\ r = "ActionSucceeded" /\ ~data[n].openTx
  /\ chain' = [chain EXCEPT !.open = "mempool", !.opens = @ + 1]
  /\ data' = [data EXCEPT ![n].openTx = TRUE]
  /\ Send(<<Peer(n), "opening">>)
  /\ UNCHANGED <<vol, ln>>

BroadcastAgain(n, r) ==
  /\ r = "ActionSucceeded"
  /\ chain' = [chain EXCEPT !.open = "mempool", !.opens = @ + 1]
  /\ data' = [data EXCEPT ![n].openTx = TRUE]
  /\ UNCHANGED <<vol, net, wire, ln>>

\* CreateAndBroadcastOpeningTransaction (behind CheckPremiumAmount in a
\* swap-in).  GetBlockHeight is called after the broadcast: when it fails the
\* transaction is out but OpeningTxBroadcasted is not set.
CreateAndBroadcastOpeningTransaction(n, r) ==
  \/ data[n].openTx /\ r = "ActionSucceeded" /\ UNCHANGED world
  \/ ~data[n].openTx /\ r = "ActionFailed" /\ UNCHANGED world
  \/ /\ ~data[n].openTx
     /\ chain' = [chain EXCEPT !.open = "mempool", !.conf = 0,
                               !.opens = @ + 1]
     /\ \/ /\ r = "ActionSucceeded"
           /\ data' = [data EXCEPT ![n].openTx = TRUE]
        \/ "rpcFails" \in Faults /\ r = "ActionFailed" /\ UNCHANGED data
     /\ UNCHANGED <<vol, net, wire, ln>>

AwaitFeeInvoicePayment(n, r) ==
  /\ r = "NoOp"
  /\ vol' = [vol EXCEPT ![n].watch = @ \cup {"fee"}]
  /\ UNCHANGED <<data, net, wire, chain, ln>>

\* AddWaitForCsvTx, after AddPaymentNotifier in AwaitPaymentOrCsvAction and
\* after RemoveSender in AwaitCsvAction.  When the CSV has passed already the
\* RPC watcher calls OnCsvPassed from here.  SendEvent holds s.mutex around
\* the action and OnCsvPassed waits for it, for ever ("Block").  Recover runs
\* the action without the mutex: there the callback comes through, which is
\* the subscription firing at once.
AwaitCsvAction(n, s, locked, r) ==
  /\ r = IF RpcWatcher /\ CsvPassed /\ chain.spent = "none" /\ locked
         THEN "Block" ELSE "NoOp"
  /\ vol' = IF s = "WaitCsv"
            THEN [vol EXCEPT ![n].watch = @ \cup {"csv"}, ![n].sender = FALSE]
            ELSE [vol EXCEPT ![n].watch = @ \cup {"csv", "pay"}]
  /\ UNCHANGED <<data, net, wire, chain, ln>>

\* Faulty: the transaction's id is kept although the broadcast failed.
ClaimKeptOnError(n, path, possible, failed, r) ==
  /\ data' = [data EXCEPT ![n].claimTx = TRUE]
  /\ \/ /\ ~data[n].claimTx /\ possible /\ chain.spent = "none"
        /\ r = "ActionSucceeded" /\ chain' = [chain EXCEPT !.spent = path]
     \/ /\ r = IF data[n].claimTx THEN "ActionSucceeded" ELSE failed
        /\ UNCHANGED chain

\* The three claims.  A claim the node has recorded is not made again; the
\* chain refuses to spend an output that is spent.
Claim(n, path, possible, failed, r) ==
  \/ data[n].claimTx /\ r = "ActionSucceeded" /\ UNCHANGED <<data, chain>>
  \/ /\ ~data[n].claimTx
     /\ possible /\ chain.spent = "none"
     /\ r = "ActionSucceeded"
     /\ chain' = [chain EXCEPT !.spent = path]
     /\ data' = [data EXCEPT ![n].claimTx = TRUE]
  \/ /\ ~data[n].claimTx
     /\ "claimFails" \in Faults \/ ~possible \/ chain.spent # "none"
     /\ r = failed
     /\ UNCHANGED <<data, chain>>

ClaimSwapTransactionWithPreimageAction(n, r) ==
  /\ Claim(n, "preimage", data[n].preimage, "OnRetry", r)
  /\ UNCHANGED <<vol, net, wire, ln>>

\* Both maker claims are behind StopSendMessageWithRetryWrapperAction.
ClaimSwapTransactionCoop(n, r) ==
  /\ Claim(n, "coop", data[n].coop /\ data[n].openTx, "ActionFailed", r)
  /\ vol' = [vol EXCEPT ![n].sender = FALSE]
  /\ UNCHANGED <<net, wire, ln>>

ClaimSwapTransactionWithCsv(n, r) ==
  /\ Claim(n, "csv", CsvPassed, "OnRetry", r)
  /\ vol' = [vol EXCEPT ![n].sender = FALSE]
  /\ UNCHANGED <<net, wire, ln>>

\* NoOpDoneAction and CancelAction.  Only the former removes the sender, but a
\* canceled swap never has one.
DoneAction(n, r) ==
  /\ r = "Done"
  /\ vol' = [vol EXCEPT ![n].sender = FALSE]
  /\ UNCHANGED <<data, net, wire, chain, ln>>

\* The action of state s.  locked: run by SendEvent, which holds s.mutex.
Execute(n, s, locked, r) ==
  \/ s = "CreateSwap" /\ CreateSwapAction(n, r)
  \/ /\ s \in {"SendRequest", "SendAgreement", "SendFeeInvoice", "SendCancel",
               "SendCoopClose"}
     /\ SendMessageAction(n, s, r)
  \/ s = "AwaitAgreement" /\ r = "NoOp" /\ UNCHANGED world
  \/ s = "PayFeeInvoice" /\ PayFeeInvoiceAction(n, r)
  \/ s = "AwaitTxBroadcastedMessage" /\ SetStartingBlockHeightAction(n, r)
  \/ s = "AwaitTxConfirmation" /\ AwaitTxConfirmationAction(n, r)
  \/ /\ s = "ValidateTxAndPayClaimInvoice"
     /\ ValidateTxAndPayClaimInvoiceAction(n, r)
  \/ s = "ClaimSwap" /\ ClaimSwapTransactionWithPreimageAction(n, r)
  \/ s = "SendPrivkey" /\ TakerSendPrivkeyAction(n, r)
  \/ s = "AwaitFeeInvoicePayment" /\ AwaitFeeInvoicePayment(n, r)
  \/ s = "BroadcastOpeningTx" /\ CreateAndBroadcastOpeningTransaction(n, r)
  \/ s = "SendTxBroadcastedMessage" /\ SendMessageWithRetryAction(n, r)
  \/ s \in {"AwaitClaimPayment", "WaitCsv"} /\ AwaitCsvAction(n, s, locked, r)
  \/ s = "ClaimSwapCoop" /\ ClaimSwapTransactionCoop(n, r)
  \/ s = "ClaimSwapCsv" /\ ClaimSwapTransactionWithCsv(n, r)
  \/ s \in Finished /\ DoneAction(n, r)
-----------------------------------------------------------------------------
(* SendEvent and Recover. *)

\* SendEvent up to its loop: the lock is taken, the context applied to the
\* data (now d), and the record written with the state still the old one.
Post(n, e, d) ==
  /\ pc[n] = "idle"
  /\ pc' = [pc EXCEPT ![n] = "event"]
  /\ ev' = [ev EXCEPT ![n] = e]
  /\ data' = [data EXCEPT ![n] = d]
  /\ disk' = [disk EXCEPT ![n] = [cur |-> cur[n], data |-> d]]

\* getNextState has no entry: ErrEventRejected, the lock is released.
Reject(n) ==
  /\ pc[n] = "event"
  /\ NextStates(SwapType, n, cur[n], ev[n]) = {}
  /\ pc' = [pc EXCEPT ![n] = "idle"]
  /\ UNCHANGED <<cur, disk, ev, crashes, world>>

AfterAction(r, save) ==
  IF r = "Loop" THEN "loop" ELSE IF r = "Block" THEN "blocked" ELSE save

Transition(n) ==
  /\ pc[n] = "event"
  /\ \E s \in NextStates(SwapType, n, cur[n], ev[n]), r \in ActionResult :
       /\ Execute(n, s, TRUE, r)
       /\ cur' = [cur EXCEPT ![n] = s]
       /\ ev' = [ev EXCEPT ![n] = r]
       /\ pc' = [pc EXCEPT ![n] = AfterAction(r, "save")]
  /\ UNCHANGED <<disk, crashes>>

\* UpdateData after an action, then the switch on its result.  An OnRetry that
\* Recover's action returned goes to SendEvent uncounted.
Save(n) ==
  /\ pc[n] \in {"save", "rsave"}
  /\ disk' = [disk EXCEPT ![n] = [cur |-> cur[n], data |-> data[n]]]
  /\ IF ev[n] = "OnRetry" /\ pc[n] = "save"
     THEN LET over == vol[n].retries + 1 > MaxRetries IN
          /\ vol' = [vol EXCEPT ![n].retries = IF over THEN 0 ELSE @ + 1]
          /\ pc' = [pc EXCEPT ![n] = IF over THEN "idle" ELSE "event"]
     ELSE /\ pc' = [pc EXCEPT ![n] = IF ev[n] = "Done" THEN "none"
                                     ELSE IF ev[n] = "NoOp" THEN "idle"
                                     ELSE "event"]
          /\ UNCHANGED vol
  /\ UNCHANGED <<cur, data, ev, net, wire, chain, ln, crashes>>

\* The process dies: memory, timer, sender and subscriptions are gone.
Crash(n) ==
  /\ "crash" \in Faults
  /\ pc[n] \notin {"none", "down"}
  /\ crashes < MaxCrashes
  /\ crashes' = crashes + 1
  /\ pc' = [pc EXCEPT ![n] = "down"]
  /\ cur' = [cur EXCEPT ![n] = disk[n].cur]
  /\ data' = [data EXCEPT ![n] = disk[n].data]
  /\ ev' = [ev EXCEPT ![n] = "NoOp"]
  /\ vol' = [vol EXCEPT ![n] = NewVolatile]
  /\ UNCHANGED <<disk, net, wire, chain, ln>>

\* RecoverSwaps leaves finished swaps alone.
Restart(n) ==
  /\ pc[n] = "down"
  /\ pc' = [pc EXCEPT ![n] = IF cur[n] \in Finished THEN "none" ELSE "recover"]
  /\ UNCHANGED <<cur, disk, ev, crashes, world>>

\* Recover.  The record of a swap that never left the Default state has no
\* action to run (ErrFsmConfig): the swap stays in activeSwaps as it is.
Recover(n) ==
  /\ pc[n] = "recover"
  /\ \/ /\ cur[n] = "Default"
        /\ pc' = [pc EXCEPT ![n] = "idle"]
        /\ UNCHANGED <<ev, world>>
     \/ /\ cur[n] \in FailOnrecover(SwapType, n)
        /\ pc' = [pc EXCEPT ![n] = "event"]
        /\ ev' = [ev EXCEPT ![n] = "ActionFailed"]
        /\ UNCHANGED world
     \/ /\ cur[n] \notin FailOnrecover(SwapType, n) \cup {"Default"}
        /\ \E r \in ActionResult :
             /\ Execute(n, cur[n], FALSE, r)
             /\ ev' = [ev EXCEPT ![n] = r]
             /\ pc' = [pc EXCEPT ![n] = AfterAction(r, "rsave")]
  /\ UNCHANGED <<cur, disk, crashes>>
-----------------------------------------------------------------------------
(* Peer messages: SwapOut, SwapIn and OnMessageReceived. *)

\* lockSwap and the first SendEvent of a new state machine.
NewSwap(n, e) ==
  /\ pc[n] = "none"
  /\ disk[n].cur = "Absent"
  /\ pc' = [pc EXCEPT ![n] = "event"]
  /\ ev' = [ev EXCEPT ![n] = e]
  /\ disk' = [disk EXCEPT ![n] = [cur |-> "Default", data |-> NewData]]
  /\ UNCHANGED <<cur, data, vol, chain, ln, crashes>>

StartSwap(n) ==
  /\ n = Initiator
  /\ NewSwap(n, "OnStarted")
  /\ UNCHANGED <<net, wire>>

ReceiveRequest(n) ==
  /\ <<n, "request">> \in net
  /\ \/ NewSwap(n, "OnRequestReceived")
     \/ "invalid" \in Faults /\ NewSwap(n, "OnInvalid_Message")
  /\ net' = net \ {<<n, "request">>}
  /\ UNCHANGED wire

\* A check before the state machine is created fails, or lockSwap finds the
\* channel taken (as it does for a second request of an active swap).
RefuseRequest(n) ==
  /\ <<n, "request">> \in net
  /\ \/ pc[n] = "none" /\ disk[n].cur = "Absent"
     \/ pc[n] \notin {"none", "down", "recover"}
  /\ net' = (net \ {<<n, "request">>}) \cup {<<Peer(n), "cancel">>}
  /\ wire' = wire \cup {<<Peer(n), "cancel">>}
  /\ UNCHANGED <<cur, data, disk, pc, ev, vol, chain, ln, crashes>>

EventOf(t) ==
  IF t = "agreement" THEN "OnAgreementReceived"
  ELSE IF t = "opening" THEN "OnTxOpenedMessage"
  ELSE IF t = "coop" THEN "OnCoopCloseReceived" ELSE "OnCancelReceived"

\* ApplyToSwapData; AlreadyExistsError when the field is set.
AlreadyExists(d, t) ==
  \/ t = "agreement" /\ d.agreed
  \/ t = "opening" /\ d.openTx
  \/ t = "coop" /\ d.coop

ApplyToSwapData(d, t) ==
  [d EXCEPT !.agreed = @ \/ t = "agreement", !.openTx = @ \/ t = "opening",
            !.coop = @ \/ t = "coop"]

\* Validate, then ApplyToSwapData.  A message that was accepted once is resent
\* unchanged, so a duplicate is never the one that does not validate.
ReceiveMessage(n, t) ==
  /\ t # "request" /\ <<n, t>> \in net
  /\ ~AlreadyExists(data[n], t)
  /\ \/ Post(n, EventOf(t), ApplyToSwapData(data[n], t))
     \/ /\ "invalid" \in Faults /\ t # "cancel"
        /\ Post(n, "OnInvalid_Message", data[n])
  /\ net' = net \ {<<n, t>>}
  /\ UNCHANGED <<cur, vol, wire, chain, ln, crashes>>

\* A duplicate, or a message for a swap that is not active (a finished one, or
\* one that is not yet recovered).
IgnoreMessage(n, t) ==
  /\ <<n, t>> \in net
  /\ \/ pc[n] \in {"down", "recover"}
     \/ pc[n] = "none" /\ (t = "request" => disk[n].cur # "Absent")
     \/ pc[n] = "idle" /\ AlreadyExists(data[n], t)
  /\ net' = net \ {<<n, t>>}
  /\ UNCHANGED <<cur, data, disk, pc, ev, vol, wire, chain, ln, crashes>>

LoseMessage ==
  /\ "lose" \in Faults
  /\ \E m \in net : net' = net \ {m}
  /\ UNCHANGED <<cur, data, disk, pc, ev, vol, wire, chain, ln, crashes>>

\* The redundant messenger's ticker.
ResendMessage(n) ==
  /\ vol[n].sender
  /\ <<Peer(n), "opening">> \notin net
  /\ Send(<<Peer(n), "opening">>)
  /\ UNCHANGED <<cur, data, disk, pc, ev, vol, chain, ln, crashes>>
-----------------------------------------------------------------------------
(* Callbacks: timer, payment notifiers, transaction watchers.  One that meets *)
(* a state machine at work waits for s.mutex.                               *)

Callback(n, e) ==
  /\ Post(n, e, data[n])
  /\ UNCHANGED <<cur, net, wire, chain, ln, crashes>>

\* createTimeoutCallback; nothing cancels the timer.
Timeout(n) ==
  /\ vol[n].timer
  /\ Callback(n, "OnTimeout")
  /\ vol' = [vol EXCEPT ![n].timer = FALSE]

Unwatch(n, w) == vol' = [vol EXCEPT ![n].watch = @ \ {w}]

FeeInvoicePaid(n) ==
  /\ "fee" \in vol[n].watch /\ ln.fee
  /\ Callback(n, "OnFeeInvoicePaid")
  /\ Unwatch(n, "fee")

ClaimInvoicePaid(n) ==
  /\ "pay" \in vol[n].watch /\ ln.pay = "settled"
  /\ Callback(n, "OnClaimInvoicePaid")
  /\ Unwatch(n, "pay")

OnCsvPassed(n) ==
  /\ "csv" \in vol[n].watch /\ CsvPassed
  /\ RpcWatcher => chain.spent = "none"
  /\ Callback(n, "OnCsvPassed")
  /\ Unwatch(n, "csv")

\* observationLoop of the RPC watcher and OnTxConfirmed: outside the window, or
\* when a lookup fails, the callback carries an error, which OnTxConfirmed
\* turns into ActionFailed; the OnTxConfirmed it then sends as well is rejected.
RpcTxConfirmed(n) ==
  /\ RpcWatcher /\ "conf" \in vol[n].watch
  /\ LET late == chain.height >= data[n].anchor + PaymentWindow IN
     \/ (late \/ "rpcFails" \in Faults) /\ Callback(n, "ActionFailed")
     \/ ~late /\ Confirmations >= MinConfs /\ Callback(n, "OnTxConfirmed")
  /\ Unwatch(n, "conf")

\* LND's watcher compares the confirmations, not the anchor, with the safety
\* limit, and reports a transaction past it as OnCsvPassed, which no taker
\* state accepts.  When GetBlockHeight fails the watch ends silently.
LndTxConfirmed(n) ==
  /\ ~RpcWatcher /\ "conf" \in vol[n].watch
  /\ Confirmations >= MinConfs
  /\ \/ Confirmations >= Csv \div 2 /\ Callback(n, "OnCsvPassed")
     \/ Confirmations < Csv \div 2 /\ Callback(n, "OnTxConfirmed")
     \/ "rpcFails" \in Faults /\ pc[n] = "idle"
        /\ UNCHANGED <<cur, data, disk, pc, ev, net, wire, chain, ln, crashes>>
  /\ Unwatch(n, "conf")
-----------------------------------------------------------------------------
(* The payment loop of ValidateTxAndPayClaimInvoiceAction and the claim      *)
(* payment's HTLC, which the Lightning nodes resolve whatever PeerSwap does. *)

Return(n, r) ==
  /\ pc' = [pc EXCEPT ![n] = "save"]
  /\ ev' = [ev EXCEPT ![n] = r]

\* ctx.Done() after 120 seconds, twelve times the ticker's interval.
PayTimeout(n) ==
  /\ pc[n] = "again"
  /\ Return(n, "ActionFailed")
  /\ UNCHANGED <<cur, disk, crashes, world>>

\* ticker.C: the height check, then RebalancePayment.  For a payment that
\* exists already CLN's sendpay and waitsendpay follow it; LND's SendPaymentV2
\* returns an error, and the loop goes round.
PayTick(n) ==
  /\ pc[n] \in {"loop", "again"}
  /\ \/ /\ "rpcFails" \in Faults \/ ~MayStartPayment(data[n])
        /\ Return(n, "ActionFailed")
        /\ UNCHANGED ln
     \/ /\ MayStartPayment(data[n])
        /\ \/ /\ ln.pay \in {"none", "failed"}
              /\ ln' = [ln EXCEPT !.pay = "inflight", !.since = chain.height]
              /\ pc' = [pc EXCEPT ![n] = "rpc"]
           \/ /\ ln.pay \in {"inflight", "settled"}
              /\ UNCHANGED ln
              /\ pc' = [pc EXCEPT ![n] = IF Backend = "cln" THEN "rpc"
                                                           ELSE "again"]
        /\ UNCHANGED ev
  /\ UNCHANGED <<cur, data, disk, vol, net, wire, chain, crashes>>

\* Faulty: a payment call that does not wait for the HTLC's outcome.
PayReturnEarly(n) ==
  /\ pc[n] = "rpc"
  /\ pc' = [pc EXCEPT ![n] = "again"]
  /\ UNCHANGED <<cur, data, disk, ev, vol, net, wire, chain, ln, crashes>>

PayReturn(n) ==
  /\ pc[n] = "rpc"
  /\ \/ /\ ln.pay = "settled"
        /\ Return(n, "ActionSucceeded")
        /\ data' = [data EXCEPT ![n].preimage = TRUE]
     \/ /\ ln.pay = "failed" \/ "payRpcError" \in Faults
        /\ pc' = [pc EXCEPT ![n] = "again"]
        /\ UNCHANGED <<data, ev>>
  /\ UNCHANGED <<cur, disk, vol, net, wire, chain, ln, crashes>>

ResolveHtlc ==
  /\ ln.pay = "inflight"
  /\ \E o \in {"settled", "failed"} : ln' = [ln EXCEPT !.pay = o]
  /\ UNCHANGED <<cur, data, disk, pc, ev, vol, net, wire, chain, crashes>>
-----------------------------------------------------------------------------
(* The chain. *)

\* Node n neither runs nor has a callback waiting.  Blocks pass during the
\* payment loop; peer messages may be delayed over any number of blocks.
Quiet(n) ==
  /\ pc[n] \in {"none", "idle", "blocked", "loop", "rpc", "again"}
  /\ pc[n] = "rpc" => ln.pay = "inflight"
  /\ pc[n] = "idle" =>
       /\ ~("fee" \in vol[n].watch /\ ln.fee)
       /\ ~("pay" \in vol[n].watch /\ ln.pay = "settled")
       /\ ~("csv" \in vol[n].watch /\ CsvPassed)
       /\ ~("conf" \in vol[n].watch /\ Confirmations >= MinConfs)

\* A block, with the opening transaction in it or not.  An HTLC in flight is
\* resolved before its expiry height.  Time stops at the bounds: before the
\* opening transaction at MaxOpenHeight, and Csv blocks after its confirmation.
Tick ==
  /\ "slow" \in Faults \/ \A n \in Node : Quiet(n)
  /\ ln.pay = "inflight" => chain.height + 1 < ln.since + CltvDelta
  /\ \/ /\ chain.open = "none" /\ chain.height < MaxOpenHeight
        /\ chain' = [chain EXCEPT !.height = @ + 1]
     \/ /\ chain.open = "mempool" /\ chain.height + 1 < MaxConfHeight
        /\ chain' = [chain EXCEPT !.height = @ + 1]
     \/ /\ chain.open = "mempool"
        /\ chain' = [chain EXCEPT !.height = @ + 1, !.open = "confirmed",
                                  !.conf = chain.height + 1]
     \/ /\ chain.open = "confirmed" /\ Confirmations <= Csv
        /\ chain' = [chain EXCEPT !.height = @ + 1]
  /\ UNCHANGED <<cur, data, disk, pc, ev, vol, net, wire, ln, crashes>>
-----------------------------------------------------------------------------
NodeStep(n) ==
  \/ StartSwap(n) \/ ReceiveRequest(n) \/ RefuseRequest(n)
  \/ \E t \in MessageType : ReceiveMessage(n, t) \/ IgnoreMessage(n, t)
  \/ ResendMessage(n)
  \/ Reject(n) \/ Transition(n) \/ Save(n)
  \/ Crash(n) \/ Restart(n) \/ Recover(n)
  \/ Timeout(n) \/ FeeInvoicePaid(n) \/ ClaimInvoicePaid(n) \/ OnCsvPassed(n)
  \/ RpcTxConfirmed(n) \/ LndTxConfirmed(n)
  \/ PayTimeout(n) \/ PayTick(n) \/ PayReturn(n)

Next == (\E n \in Node : NodeStep(n)) \/ LoseMessage \/ ResolveHtlc \/ Tick

Spec == Init /\ [][Next]_vars

\* The goroutine that runs node n's state machine keeps running.
Run(n) == Reject(n) \/ Transition(n) \/ Save(n) \/ Restart(n) \/ Recover(n)

Fairness ==
  /\ SF_vars(Tick)
  /\ WF_vars(ResolveHtlc)
  /\ \A n \in Node :
       /\ WF_vars(StartSwap(n))
       /\ WF_vars(Run(n))
       /\ WF_vars(ReceiveRequest(n) \/ RefuseRequest(n))
       /\ \A t \in MessageType : WF_vars(ReceiveMessage(n, t) \/ IgnoreMessage(n, t))
       /\ WF_vars(Timeout(n))
       /\ WF_vars(FeeInvoicePaid(n))
       /\ WF_vars(ClaimInvoicePaid(n))
       /\ WF_vars(OnCsvPassed(n))
       /\ WF_vars(RpcTxConfirmed(n) \/ LndTxConfirmed(n))
       /\ WF_vars(PayTick(n)) /\ SF_vars(PayTimeout(n)) /\ WF_vars(PayReturn(n))

FairSpec == Spec /\ Fairness

\* The types of what the actions of the states change.
WorldOK ==
  /\ data \in [Node -> Data]
  /\ vol \in [Node -> Volatile]
  /\ net \subseteq Message
  /\ wire \subseteq Message
  /\ chain \in [height : Nat \ {0}, open : {"none", "mempool", "confirmed"},
                conf : Nat, spent : {"none", "preimage", "coop", "csv"},
                opens : Nat]
  /\ ln \in [fee : BOOLEAN, since : Nat,
             pay : {"none", "inflight", "settled", "failed"}]

\* The types of the variables: what the tables, the actions and a recovered
\* record can make of the state of the two machines.
TypeOK ==
  /\ cur \in [Node -> State]
  /\ disk \in [Node -> [cur : State \cup {"Absent"}, data : Data]]
  /\ pc \in [Node -> Pc]
  /\ ev \in [Node -> Event \cup ActionResult]
  /\ crashes \in 0..MaxCrashes
  /\ WorldOK
-----------------------------------------------------------------------------
(* Safety. *)

\* The taker's private key, with which the maker can spend the opening output
\* at once, has left the taker in a coop_close message.
KeyRevealed == <<"maker", "coop">> \in wire

\* An opening_tx_broadcasted message never leaves the maker before the record
\* that holds the opening transaction is on disk.  CreateAndBroadcastOpening-
\* Transaction builds the message, a state of its own sends it, and UpdateData
\* is between the two; recovery and the retry loop must not break the order.
OpeningSentIsPersisted ==
  <<"taker", "opening">> \in wire => disk["maker"].data.openTx

\* While the claim payment is in flight or settled, the taker has not given
\* away its key: TakerSendPrivkeyAction is reached only when the payment has
\* failed for good or was never made.
KeyHeldWhilePaying == ln.pay \in {"inflight", "settled"} => ~KeyRevealed

\* Once the key is out no new claim payment is started, in particular not by
\* ValidateTxAndPayClaimInvoiceAction run again from an old record after a crash.
NoPaymentAfterReveal ==
  [][KeyRevealed /\ ln'.pay = "inflight" => ln.pay = "inflight"]_vars

\* The swap is atomic for the taker: the maker that received the claim payment
\* does not also take the opening output back, by coop close or after the CSV.
PaidOrRefunded == ~(ln.pay = "settled" /\ chain.spent \in {"csv", "coop"})

\* A maker that ends in SwapCanceled, where nothing watches the chain any more,
\* has no opening transaction out: from the broadcast on every failure goes to
\* WaitCsv.
NoAbandonedOpening == cur["maker"] = "SwapCanceled" => chain.open = "none"

\* The maker funds the swap once, however often BroadcastOpeningTx is run again
\* by Recover.
OneOpeningTx == chain.opens <= 1

\* What a final state says has happened: a side that ends in ClaimedPreimage was
\* paid or has paid, and the output is spent the way its claimant's state says,
\* however often crashes and retries came between the claim and its record.
OutcomeIsTrue ==
  /\ cur["taker"] = "ClaimedPreimage" => ln.pay = "settled" /\ chain.spent = "preimage"
  /\ cur["maker"] = "ClaimedPreimage" => ln.pay = "settled"
  /\ cur["maker"] = "ClaimedCoop" => chain.spent = "coop"
  /\ cur["maker"] = "ClaimedCsv" => chain.spent = "csv"

\* A claim payment starts within half the CSV after the confirmation, although
\* the taker measures from its anchor and not from the confirmation.
PaymentStartsInTime ==
  ln.pay \in {"inflight", "settled"} => ln.since <= chain.conf + Csv \div 2

\* On Liquid the taker's anchor is on disk before the message that lets the
\* maker open the swap is sent.
AnchorBeforeCommitment ==
  Chain = "lbtc" /\ <<"maker", IF SwapType = "out" THEN "request"
                                                   ELSE "agreement">> \in wire
    => disk["taker"].data.anchor # 0

\* A payment window that is on disk is never moved, by a later state or by
\* SetStartingBlockHeightAction run again after a restart.
AnchorKept ==
  [][\A n \in Node : disk[n].data.anchor # 0
       => disk'[n].data.anchor = disk[n].data.anchor]_vars

(* Liveness. *)

\* The money in the opening output is not lost: some claim spends it.
OpeningIsSpent == chain.open # "none" ~> chain.spent # "none"

\* Both state machines end and leave activeSwaps, which frees the channel.
Terminates == \A n \in Node : <>[](pc[n] = "none")

\* A taker whose preimage claim is out gets to the final state.
ClaimFinishes == chain.spent = "preimage" ~> cur["taker"] = "ClaimedPreimage"

(* Refinement. *)

\* What a swap is to its two parties: the opening output, the claim payment.
Htlc ==
  IF chain.open = "none" THEN "none"
  ELSE IF chain.spent = "none" THEN "locked"
  ELSE IF chain.spent = "preimage" THEN "claimed" ELSE "refunded"

Payment ==
  IF ln.pay = "inflight" THEN "pending"
  ELSE IF ln.pay = "settled" THEN "done" ELSE "none"

Atomic == INSTANCE AtomicSwap WITH
  htlc <- Htlc, payment <- Payment, key <- KeyRevealed

\* The two state machines with their messages, callbacks and claims implement
\* the atomic swap: an HTLC, a payment and a key that move only as it allows.
ImplementsAtomicSwap == Atomic!Spec
=============================================================================
