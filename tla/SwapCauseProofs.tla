--------------------------- MODULE SwapCauseProofs ---------------------------
(***************************************************************************)
(* What a step of Swap can change and what caused it: a message, an event, *)
(* a state, a transaction or a payment has the one before it behind it,    *)
(* under every fault.  On Liquid that alone bounds when a payment starts.  *)
(* Then the opening transaction and the claim payment: the maker does not  *)
(* forget the one, and the taker holds its key during the other.  The      *)
(* theorems say which faults each of them has to be free of.               *)
(***************************************************************************)
EXTENDS SwapProofs

\* A leaf is tried with Zenon, then with Z3; the leaves that need Z3 say so.
USE Zenon, SMT, SMTT(20)

-----------------------------------------------------------------------------
(* What a step can change. *)

\* Node n runs the action of state s, in SendEvent (locked) or in Recover.
Runs(n, s, locked, r) ==
  /\ Execute(n, s, locked, r)
  /\ cur' = [cur EXCEPT ![n] = s]
  /\ ev' = [ev EXCEPT ![n] = r]
  /\ pc' = [pc EXCEPT ![n] = AfterAction(r, IF locked THEN "save" ELSE "rsave")]
  /\ UNCHANGED <<disk, crashes>>
  /\ locked => pc[n] = "event" /\ s \in NextStates(SwapType, n, cur[n], ev[n])
  /\ ~locked => /\ pc[n] = "recover" /\ s = cur[n]
                /\ s \notin FailOnrecover(SwapType, n) \cup {"Default"}

\* Some action is run by node n.
Acts(n) == \E s \in State, locked \in BOOLEAN, r \in ActionResult : Runs(n, s, locked, r)

\* Recover without an action: a swap that never started, or one that has failed.
Resumes(n) ==
  /\ UNCHANGED <<cur, disk, crashes, world>>
  /\ pc[n] = "recover"
  /\ \/ pc' = [pc EXCEPT ![n] = "idle"] /\ UNCHANGED ev /\ cur[n] = "Default"
     \/ /\ pc' = [pc EXCEPT ![n] = "event"]
        /\ ev' = [ev EXCEPT ![n] = "ActionFailed"]
        /\ cur[n] \in FailOnrecover(SwapType, n)

\* The steps of a node that run no action of a state.
Other(n) ==
  \/ StartSwap(n) \/ ReceiveRequest(n) \/ RefuseRequest(n)
  \/ \E t \in MessageType : ReceiveMessage(n, t) \/ IgnoreMessage(n, t)
  \/ ResendMessage(n) \/ Reject(n) \/ Save(n) \/ Crash(n) \/ Restart(n)
  \/ Resumes(n)
  \/ Timeout(n) \/ FeeInvoicePaid(n) \/ ClaimInvoicePaid(n) \/ OnCsvPassed(n)
  \/ RpcTxConfirmed(n) \/ LndTxConfirmed(n)
  \/ PayTimeout(n) \/ PayTick(n) \/ PayReturn(n)

\* SendEvent's transition is the run of an action.
LEMMA TransitionRuns ==
  ASSUME NEW n \in Node, Transition(n)
  PROVE  Acts(n)
<1>1. PICK s \in NextStates(SwapType, n, cur[n], ev[n]), r \in ActionResult :
        /\ Execute(n, s, TRUE, r)
        /\ cur' = [cur EXCEPT ![n] = s]
        /\ ev' = [ev EXCEPT ![n] = r]
        /\ pc' = [pc EXCEPT ![n] = AfterAction(r, "save")]
  BY DEF Transition
<1>2. s \in State
  BY TableType
<1>3. Runs(n, s, TRUE, r)
  BY <1>1 DEF Runs, Transition
<1> QED BY <1>2, <1>3 DEF Acts

\* Recover runs an action or resumes without one.
LEMMA RecoverRuns ==
  ASSUME CurOK, NEW n \in Node, Recover(n)
  PROVE  Acts(n) \/ Resumes(n)
<1>1. CASE cur[n] = "Default" /\ pc' = [pc EXCEPT ![n] = "idle"] /\ UNCHANGED <<ev, world>>
  BY <1>1 DEF Recover, Resumes
<1>2. CASE /\ cur[n] \in FailOnrecover(SwapType, n)
           /\ pc' = [pc EXCEPT ![n] = "event"]
           /\ ev' = [ev EXCEPT ![n] = "ActionFailed"]
           /\ UNCHANGED world
  BY <1>2 DEF Recover, Resumes
<1>3. ASSUME cur[n] \notin FailOnrecover(SwapType, n) \cup {"Default"},
             NEW r \in ActionResult,
             Execute(n, cur[n], FALSE, r),
             ev' = [ev EXCEPT ![n] = r],
             pc' = [pc EXCEPT ![n] = AfterAction(r, "rsave")]
      PROVE  Acts(n)
  <2>1. cur' = [cur EXCEPT ![n] = cur[n]] /\ cur[n] \in State
    BY DEF Recover, CurOK
  <2>2. Runs(n, cur[n], FALSE, r)
    BY <1>3, <2>1 DEF Runs, Recover
  <2> QED BY <2>1, <2>2 DEF Acts
<1> QED BY <1>1, <1>2, <1>3 DEF Recover

\* The kinds of steps.
LEMMA StepKinds ==
  ASSUME TypeOK, Next
  PROVE  \/ \E n \in Node : Acts(n) \/ Other(n)
         \/ LoseMessage \/ ResolveHtlc \/ Tick
<1>1. CurOK
  BY TypeParts
<1>2. ASSUME NEW n \in Node, NodeStep(n)
      PROVE  Acts(n) \/ Other(n)
  BY <1>1, <1>2, TransitionRuns, RecoverRuns DEF NodeStep, Other
<1> QED BY <1>2 DEF Next

\* The variables of the machine that runs an action, and of the other.
LEMMA RunFacts ==
  ASSUME Inv, NEW n \in Node, NEW s \in State, NEW locked \in BOOLEAN,
         NEW r \in ActionResult, Runs(n, s, locked, r)
  PROVE  /\ WorldOK
         /\ cur'[n] = s /\ ev'[n] = r
         /\ pc'[n] = AfterAction(r, IF locked THEN "save" ELSE "rsave")
         /\ \A m \in Node \ {n} :
              cur'[m] = cur[m] /\ ev'[m] = ev[m] /\ pc'[m] = pc[m]
         /\ disk' = disk /\ crashes' = crashes
         /\ disk[n].cur = cur[n] /\ disk[n].data = data[n] /\ disk[n].cur # "Absent"
         /\ n = "maker" => s \in MakerState
         /\ n = "taker" => s \in TakerState
<1>1. TypeOK /\ NodeInv(n)
  BY DEF Inv
<1>2. WorldOK /\ CurOK /\ EvOK /\ PcOK
  BY <1>1, TypeParts
<1>3. /\ cur'[n] = s /\ ev'[n] = r
      /\ pc'[n] = AfterAction(r, IF locked THEN "save" ELSE "rsave")
      /\ \A m \in Node \ {n} :
           cur'[m] = cur[m] /\ ev'[m] = ev[m] /\ pc'[m] = pc[m]
      /\ disk' = disk /\ crashes' = crashes
  BY <1>2 DEF Runs, CurOK, EvOK, PcOK
<1>4. pc[n] \in {"event", "recover"}
  BY DEF Runs
<1>5. disk[n].cur = cur[n] /\ disk[n].data = data[n] /\ disk[n].cur # "Absent"
  BY <1>1, <1>4 DEF NodeInv, ControlAt
<1>6. CASE locked
  BY <1>2, <1>3, <1>5, <1>6, TableRoles DEF Runs
<1>7. CASE ~locked
  BY <1>1, <1>2, <1>3, <1>5, <1>7 DEF Runs, NodeInv, ControlAt
<1> QED BY <1>6, <1>7

\* What a run of an action does to its own node's control.
LEMMA RunControl ==
  ASSUME Inv, NEW n \in Node, NEW s \in State, NEW locked \in BOOLEAN,
         NEW r \in ActionResult, Runs(n, s, locked, r)
  PROVE  /\ cur'[n] = s /\ ev'[n] = r
         /\ locked => pc'[n] = AfterAction(r, "save")
         /\ ~locked => pc'[n] = AfterAction(r, "rsave")
         /\ disk' = disk
BY RunFacts, SMT, SMTT(20)

\* The chain moves by blocks, one broadcast and three kinds of claims.
LEMMA ExecuteChain ==
  ASSUME NEW n \in Node, NEW s \in State, NEW locked \in BOOLEAN,
         NEW r \in ActionResult, Execute(n, s, locked, r)
  PROVE  \/ chain' = chain
         \/ /\ s = "BroadcastOpeningTx" /\ ~data[n].openTx
            /\ chain' = [chain EXCEPT !.open = "mempool", !.conf = 0, !.opens = @ + 1]
            /\ \/ r = "ActionSucceeded" /\ data' = [data EXCEPT ![n].openTx = TRUE]
               \/ "rpcFails" \in Faults /\ r = "ActionFailed" /\ data' = data
         \/ /\ chain.spent = "none" /\ r = "ActionSucceeded"
            /\ data' = [data EXCEPT ![n].claimTx = TRUE]
            /\ \/ /\ s = "ClaimSwap" /\ data[n].preimage
                  /\ chain' = [chain EXCEPT !.spent = "preimage"]
               \/ /\ s = "ClaimSwapCoop" /\ data[n].coop /\ data[n].openTx
                  /\ chain' = [chain EXCEPT !.spent = "coop"]
               \/ /\ s = "ClaimSwapCsv" /\ CsvPassed
                  /\ chain' = [chain EXCEPT !.spent = "csv"]
<1>1. CASE s = "BroadcastOpeningTx"
  BY <1>1 DEF Execute, CreateAndBroadcastOpeningTransaction, world, Finished
<1>2. CASE s = "ClaimSwap"
  BY <1>2 DEF Execute, ClaimSwapTransactionWithPreimageAction, Claim, Finished
<1>3. CASE s = "ClaimSwapCoop"
  BY <1>3 DEF Execute, ClaimSwapTransactionCoop, Claim, Finished
<1>4. CASE s = "ClaimSwapCsv"
  BY <1>4 DEF Execute, ClaimSwapTransactionWithCsv, Claim, Finished
<1>5. CASE s \notin {"BroadcastOpeningTx", "ClaimSwap", "ClaimSwapCoop", "ClaimSwapCsv"}
  BY <1>5
  DEF Execute, CreateSwapAction, SendMessageAction, SendMessageWithRetryAction,
      PayFeeInvoiceAction, TakerSendPrivkeyAction, SetStartingBlockHeightAction,
      AwaitTxConfirmationAction, ValidateTxAndPayClaimInvoiceAction,
      AwaitFeeInvoicePayment, AwaitCsvAction, DoneAction, world
<1> QED BY <1>1, <1>2, <1>3, <1>4, <1>5

\* A step without an action leaves the chain and the messages sent alone, but
\* for a cancel and the opening message once more; only PayTick and the
\* Lightning nodes move the payment.
LEMMA OtherWorld ==
  ASSUME NEW n \in Node, Other(n)
  PROVE  /\ chain' = chain
         /\ \/ wire' = wire
            \/ RefuseRequest(n) /\ wire' = wire \cup {<<Peer(n), "cancel">>}
            \/ ResendMessage(n) /\ wire' = wire \cup {<<Peer(n), "opening">>}
         /\ \/ ln' = ln
            \/ /\ PayTick(n) /\ MayStartPayment(data[n]) /\ ln.pay \in {"none", "failed"}
               /\ ln' = [ln EXCEPT !.pay = "inflight", !.since = chain.height]
               /\ pc' = [pc EXCEPT ![n] = "rpc"]
<1>1. CASE \/ StartSwap(n) \/ ReceiveRequest(n) \/ RefuseRequest(n)
           \/ \E t \in MessageType : ReceiveMessage(n, t) \/ IgnoreMessage(n, t)
           \/ ResendMessage(n) \/ Reject(n) \/ Save(n) \/ Crash(n) \/ Restart(n)
           \/ Resumes(n)
  BY <1>1
  DEF StartSwap, ReceiveRequest, NewSwap, RefuseRequest, ReceiveMessage,
      IgnoreMessage, ResendMessage, Send, Reject, Save, Crash, Restart, Resumes,
      world
<1>2. CASE \/ Timeout(n) \/ FeeInvoicePaid(n) \/ ClaimInvoicePaid(n)
           \/ OnCsvPassed(n) \/ RpcTxConfirmed(n) \/ LndTxConfirmed(n)
           \/ PayTimeout(n) \/ PayReturn(n)
  BY <1>2
  DEF Timeout, FeeInvoicePaid, ClaimInvoicePaid, OnCsvPassed, RpcTxConfirmed,
      LndTxConfirmed, Callback, PayTimeout, PayReturn, world
<1>3. CASE PayTick(n)
  BY <1>3 DEF PayTick
<1> QED BY <1>1, <1>2, <1>3 DEF Other

\* Without an action the state changes by a crash only, and the record is
\* written from the memory, or made for a new swap.
LEMMA OtherControl ==
  ASSUME Inv, NEW n \in Node, Other(n)
  PROVE  /\ cur' = cur \/ (Crash(n) /\ cur' = [cur EXCEPT ![n] = disk[n].cur])
         /\ \/ disk' = disk
            \/ /\ disk' = [disk EXCEPT ![n] = [cur |-> cur[n], data |-> data'[n]]]
               /\ disk[n].cur # "Absent"
            \/ /\ disk' = [disk EXCEPT ![n] = [cur |-> "Default", data |-> NewData]]
               /\ disk[n].cur = "Absent"
               /\ n = Initiator \/ <<n, "request">> \in net
         /\ \A m \in Node \ {n} :
              /\ cur'[m] = cur[m] /\ data'[m] = data[m] /\ disk'[m] = disk[m]
              /\ pc'[m] = pc[m] /\ ev'[m] = ev[m] /\ vol'[m] = vol[m]
<1>a. TypeOK /\ NodeInv(n)
  BY DEF Inv
<1>b. CurOK /\ DiskOK /\ PcOK /\ EvOK /\ DataOK /\ VolOK
  BY <1>a, TypeParts, WorldParts
<1>c. pc[n] # "none" => disk[n].cur # "Absent"
  BY <1>a DEF NodeInv, ControlAt
<1>1. CASE StartSwap(n) \/ ReceiveRequest(n)
  BY <1>1, <1>b
  DEF StartSwap, ReceiveRequest, NewSwap, DiskOK, PcOK, EvOK
<1>2. CASE RefuseRequest(n) \/ ResendMessage(n) \/ \E t \in MessageType : IgnoreMessage(n, t)
  BY <1>2 DEF RefuseRequest, ResendMessage, IgnoreMessage
<1>3. ASSUME NEW e, NEW d, Post(n, e, d), UNCHANGED cur,
             vol' = vol \/ vol' = [vol EXCEPT ![n] = vol'[n]]
      PROVE  /\ disk' = [disk EXCEPT ![n] = [cur |-> cur[n], data |-> data'[n]]]
             /\ disk[n].cur # "Absent" /\ cur' = cur
             /\ \A m \in Node \ {n} :
                  /\ cur'[m] = cur[m] /\ data'[m] = data[m] /\ disk'[m] = disk[m]
                  /\ pc'[m] = pc[m] /\ ev'[m] = ev[m] /\ vol'[m] = vol[m]
  <2>1. data'[n] = d
    BY <1>3, <1>b DEF Post, DataOK
  <2> QED BY <1>3, <1>b, <1>c, <2>1 DEF Post, DataOK, DiskOK, PcOK, EvOK, VolOK
<1>4. CASE \E t \in MessageType : ReceiveMessage(n, t)
  BY <1>3, <1>4 DEF ReceiveMessage
<1>5. CASE Reject(n) \/ Restart(n) \/ Resumes(n) \/ PayTimeout(n)
  BY <1>5, <1>b DEF Reject, Restart, Resumes, PayTimeout, Return, world, PcOK, EvOK
<1>6. CASE Save(n)
  <2>1. data'[n] = data[n] /\ disk[n].cur # "Absent"
    BY <1>6, <1>c DEF Save
  <2>2. vol' = vol \/ \E x : vol' = [vol EXCEPT ![n].retries = x]
    BY <1>6 DEF Save
  <2> QED BY <1>6, <1>b, <2>1, <2>2 DEF Save, DiskOK, PcOK, VolOK
<1>7. CASE Crash(n)
  BY <1>7, <1>b DEF Crash, CurOK, DataOK, PcOK, EvOK, VolOK
<1>8. CASE \/ Timeout(n) \/ FeeInvoicePaid(n) \/ ClaimInvoicePaid(n)
           \/ OnCsvPassed(n) \/ RpcTxConfirmed(n) \/ LndTxConfirmed(n)
  <2>1. vol' = [vol EXCEPT ![n] = vol'[n]]
    BY <1>8, <1>b
    DEF Timeout, FeeInvoicePaid, ClaimInvoicePaid, OnCsvPassed, RpcTxConfirmed,
        LndTxConfirmed, Unwatch, VolOK
  <2>2. \A m \in Node \ {n} : vol'[m] = vol[m]
    BY <2>1, <1>b DEF VolOK
  <2>3. CASE \E e : Callback(n, e)
    BY <1>3, <2>1, <2>3 DEF Callback
  <2>4. CASE UNCHANGED <<cur, data, disk, pc, ev>>
    BY <2>2, <2>4
  <2> QED
    BY <1>8, <2>3, <2>4
    DEF Timeout, FeeInvoicePaid, ClaimInvoicePaid, OnCsvPassed, RpcTxConfirmed,
        LndTxConfirmed
<1>9. CASE PayTick(n) \/ PayReturn(n)
  BY <1>9, <1>b DEF PayTick, PayReturn, Return, PcOK, EvOK, DataOK
<1> QED BY <1>1, <1>2, <1>4, <1>5, <1>6, <1>7, <1>8, <1>9 DEF Other

\* The data an action changes: the claim, the opening transaction, the anchor.
LEMMA ExecuteFields ==
  ASSUME NEW n \in Node, NEW s \in State, NEW locked \in BOOLEAN,
         NEW r \in ActionResult, Execute(n, s, locked, r)
  PROVE  \/ data' = data
         \/ data' = [data EXCEPT ![n].claimTx = TRUE]
         \/ /\ data' = [data EXCEPT ![n].openTx = TRUE]
            /\ s = "BroadcastOpeningTx" /\ r = "ActionSucceeded"
            /\ chain' = [chain EXCEPT !.open = "mempool", !.conf = 0, !.opens = @ + 1]
         \/ /\ data' = [data EXCEPT ![n].anchor = chain.height]
            /\ \/ s = "CreateSwap" /\ Chain = "lbtc"
               \/ /\ s = "AwaitTxBroadcastedMessage" /\ Chain = "btc"
                  /\ data[n].anchor = 0
<1>1. CASE s = "BroadcastOpeningTx"
  BY <1>1 DEF Execute, CreateAndBroadcastOpeningTransaction, world, Finished
<1>2. CASE s \in {"ClaimSwap", "ClaimSwapCoop", "ClaimSwapCsv"}
  BY <1>2
  DEF Execute, ClaimSwapTransactionWithPreimageAction, ClaimSwapTransactionCoop,
      ClaimSwapTransactionWithCsv, Claim, Finished
<1>3. CASE s \in {"CreateSwap", "AwaitTxBroadcastedMessage"}
  BY <1>3 DEF Execute, CreateSwapAction, SetStartingBlockHeightAction, Finished, world
<1>4. CASE s \notin {"BroadcastOpeningTx", "ClaimSwap", "ClaimSwapCoop",
                     "ClaimSwapCsv", "CreateSwap", "AwaitTxBroadcastedMessage"}
  BY <1>4
  DEF Execute, SendMessageAction, SendMessageWithRetryAction,
      PayFeeInvoiceAction, TakerSendPrivkeyAction,
      AwaitTxConfirmationAction, ValidateTxAndPayClaimInvoiceAction,
      AwaitFeeInvoicePayment, AwaitCsvAction, DoneAction, world
<1> QED BY <1>1, <1>2, <1>3, <1>4

\* The same for the node that runs the action.
LEMMA ActionData ==
  ASSUME DataOK, NEW n \in Node, NEW s \in State, NEW locked \in BOOLEAN,
         NEW r \in ActionResult, Execute(n, s, locked, r)
  PROVE  \/ data'[n] = data[n]
         \/ data'[n] = [data[n] EXCEPT !.claimTx = TRUE]
         \/ /\ data'[n] = [data[n] EXCEPT !.openTx = TRUE]
            /\ s = "BroadcastOpeningTx"
            /\ chain' = [chain EXCEPT !.open = "mempool", !.conf = 0, !.opens = @ + 1]
         \/ /\ data'[n] = [data[n] EXCEPT !.anchor = chain.height]
            /\ \/ s = "CreateSwap" /\ Chain = "lbtc"
               \/ /\ s = "AwaitTxBroadcastedMessage" /\ Chain = "btc"
                  /\ data[n].anchor = 0
BY ExecuteFields DEF DataOK

\* Without an action the data changes by a message, a preimage or a crash.
LEMMA OtherData ==
  ASSUME Inv, NEW n \in Node, Other(n)
  PROVE  \/ data'[n] = data[n]
         \/ Crash(n) /\ data'[n] = disk[n].data
         \/ \E t \in MessageType \ {"request"} :
              /\ <<n, t>> \in net /\ ~AlreadyExists(data[n], t)
              /\ data'[n] = ApplyToSwapData(data[n], t)
         \/ /\ PayReturn(n) /\ ln.pay = "settled"
            /\ data'[n] = [data[n] EXCEPT !.preimage = TRUE]
<1>a. DataOK
  BY TypeParts, WorldParts DEF Inv
<1>1. CASE \/ StartSwap(n) \/ ReceiveRequest(n) \/ RefuseRequest(n)
           \/ \E t \in MessageType : IgnoreMessage(n, t)
           \/ ResendMessage(n) \/ Reject(n) \/ Save(n) \/ Restart(n)
           \/ Resumes(n) \/ PayTimeout(n) \/ PayTick(n)
  BY <1>1
  DEF StartSwap, ReceiveRequest, NewSwap, RefuseRequest, IgnoreMessage,
      ResendMessage, Reject, Save, Restart, Resumes, PayTimeout, PayTick, world
<1>2. ASSUME NEW t \in MessageType, ReceiveMessage(n, t)
      PROVE  \/ data'[n] = data[n]
             \/ /\ <<n, t>> \in net /\ ~AlreadyExists(data[n], t) /\ t # "request"
                /\ data'[n] = ApplyToSwapData(data[n], t)
  BY <1>2, <1>a DEF ReceiveMessage, Post, DataOK
<1>3. CASE Crash(n)
  BY <1>3, <1>a DEF Crash, DataOK
<1>4. CASE \/ Timeout(n) \/ FeeInvoicePaid(n) \/ ClaimInvoicePaid(n)
           \/ OnCsvPassed(n) \/ RpcTxConfirmed(n) \/ LndTxConfirmed(n)
  BY <1>4, <1>a
  DEF Timeout, FeeInvoicePaid, ClaimInvoicePaid, OnCsvPassed, RpcTxConfirmed,
      LndTxConfirmed, Callback, Post, DataOK
<1>5. CASE PayReturn(n)
  BY <1>5, <1>a DEF PayReturn, Return, DataOK
<1> QED BY <1>1, <1>2, <1>3, <1>4, <1>5 DEF Other

\* Event e is posted: SendEvent has it and holds the mutex.
Posted(n, e) == pc[n] = "event" /\ ev[n] = e

\* What SendEvent saves is the result of an action.
ResultInv == \A n \in Node : pc[n] \in {"save", "rsave"} => ev[n] \in ActionResult

\* The events that are no results.
OnEvent == Event \ ActionResult

\* An event that is posted has its cause; an action or a saved result posts none.
LEMMA PostedCause ==
  ASSUME Inv, ResultInv, NEW n \in Node, Other(n), NEW e \in OnEvent,
         Posted(n, e)', ~Posted(n, e)
  PROVE  /\ cur' = cur /\ wire' = wire /\ ln' = ln /\ chain' = chain
         /\ e = "OnAgreementReceived" =>
              <<n, "agreement">> \in net /\ data'[n].agreed /\ ~data[n].agreed
         /\ e = "OnTxOpenedMessage" => <<n, "opening">> \in net
         /\ e = "OnCancelReceived" => <<n, "cancel">> \in net
         /\ e = "OnCoopCloseReceived" => <<n, "coop">> \in net
         /\ e = "OnInvalid_Message" =>
              \/ cur[n] = "Default"
              \/ \E t \in {"agreement", "opening", "coop"} :
                   <<n, t>> \in net /\ ~AlreadyExists(data[n], t)
         /\ e = "OnTxConfirmed" =>
              "conf" \in vol[n].watch /\ Confirmations >= MinConfs
         /\ e = "OnCsvPassed" => CsvPassed \/ "conf" \in vol[n].watch
         /\ e = "OnFeeInvoicePaid" => ln.fee
         /\ e = "OnClaimInvoicePaid" => ln.pay = "settled"
<1>a. TypeOK /\ NodeInv(n)
  BY DEF Inv
<1>b. PcOK /\ EvOK /\ DataOK
  BY <1>a, TypeParts, WorldParts
<1>c. e \in Event /\ e \notin ActionResult
  BY DEF OnEvent
<1>d. pc'[n] = "event" /\ ev'[n] = e
  BY DEF Posted
<1>e. data[n] \in Data
  BY <1>b DEF DataOK
<1>1. CASE StartSwap(n)
  BY <1>1, <1>b, <1>d DEF StartSwap, NewSwap, EvOK
<1>2. CASE ReceiveRequest(n)
  <2>1. e \in {"OnRequestReceived", "OnInvalid_Message"}
    BY <1>2, <1>b, <1>d DEF ReceiveRequest, NewSwap, EvOK
  <2>2. cur[n] = "Default" /\ UNCHANGED <<cur, wire, ln, chain>>
    BY <1>2, <1>a DEF ReceiveRequest, NewSwap, NodeInv, ControlAt
  <2> QED BY <2>1, <2>2
<1>3. CASE \/ RefuseRequest(n) \/ \E t \in MessageType : IgnoreMessage(n, t)
           \/ ResendMessage(n)
  BY <1>3, <1>d DEF RefuseRequest, IgnoreMessage, ResendMessage, Posted
<1>4. ASSUME NEW t \in MessageType, ReceiveMessage(n, t)
      PROVE  /\ UNCHANGED <<cur, wire, ln, chain>> /\ <<n, t>> \in net
             /\ ~AlreadyExists(data[n], t) /\ t # "request"
             /\ \/ e = EventOf(t) /\ data'[n] = ApplyToSwapData(data[n], t)
                \/ e = "OnInvalid_Message" /\ t # "cancel"
  BY <1>4, <1>b, <1>d DEF ReceiveMessage, Post, EvOK, DataOK
<1>5. CASE \E t \in MessageType : ReceiveMessage(n, t)
  <2>1. PICK t \in MessageType : ReceiveMessage(n, t)
    BY <1>5
  <2>2. CASE e = EventOf(t) /\ data'[n] = ApplyToSwapData(data[n], t)
    <3>1. t = "agreement" => data'[n].agreed /\ ~data[n].agreed
      BY <1>e, <1>4, <2>1, <2>2 DEF ApplyToSwapData, Data, AlreadyExists
    <3> QED BY <1>4, <2>1, <2>2, <3>1 DEF EventOf, MessageType
  <2>3. CASE e = "OnInvalid_Message" /\ t # "cancel"
    <3>1. t \in {"agreement", "opening", "coop"}
      BY <1>4, <2>1, <2>3 DEF MessageType
    <3> QED BY <1>4, <2>1, <2>3, <3>1
  <2> QED BY <1>4, <2>1, <2>2, <2>3
<1>6. CASE Save(n)
  BY <1>6, <1>c, <1>d DEF Save, ResultInv
<1>7. CASE Reject(n) \/ Restart(n) \/ Crash(n) \/ PayTimeout(n) \/ PayTick(n) \/ PayReturn(n)
  BY <1>7, <1>b, <1>d
  DEF Reject, Restart, Crash, PayTimeout, PayTick, PayReturn, Return, PcOK
<1>8. CASE Resumes(n)
  BY <1>8, <1>b, <1>c, <1>d DEF Resumes, PcOK, EvOK, ActionResult
<1>9. ASSUME NEW x, Callback(n, x)
      PROVE  x = e /\ UNCHANGED <<cur, wire, ln, chain>>
  BY <1>9, <1>b, <1>d DEF Callback, Post, EvOK
<1>10. CASE Timeout(n) \/ FeeInvoicePaid(n) \/ ClaimInvoicePaid(n) \/ OnCsvPassed(n)
  BY <1>9, <1>10, SMT, SMTT(20) DEF Timeout, FeeInvoicePaid, ClaimInvoicePaid, OnCsvPassed
<1>11. CASE RpcTxConfirmed(n)
  BY <1>9, <1>11, <1>c, SMT, SMTT(20) DEF RpcTxConfirmed, ActionResult
<1>12. CASE LndTxConfirmed(n)
  BY <1>9, <1>12, <1>d, SMT, SMTT(20) DEF LndTxConfirmed, Posted
<1> QED
  BY <1>1, <1>2, <1>3, <1>5, <1>6, <1>7, <1>8, <1>10, <1>11, <1>12 DEF Other

\* Each subscription is made by the action of the state that waits.
LEMMA ExecuteWatch ==
  ASSUME WorldOK, NEW n \in Node, NEW s \in State, NEW locked \in BOOLEAN,
         NEW r \in ActionResult, Execute(n, s, locked, r)
  PROVE  /\ \A m \in Node \ {n} : vol'[m] = vol[m]
         /\ vol[n].watch \subseteq vol'[n].watch
         /\ "conf" \in vol'[n].watch \ vol[n].watch
              => s = "AwaitTxConfirmation" /\ InPaymentWindow(data[n])
         /\ s = "AwaitClaimPayment" => "pay" \in vol'[n].watch
<1>a. VolOK
  BY WorldParts
<1>1. \/ vol' = vol
      \/ vol' = [vol EXCEPT ![n].timer = TRUE]
      \/ vol' = [vol EXCEPT ![n].sender = TRUE]
      \/ vol' = [vol EXCEPT ![n].sender = FALSE]
      \/ vol' = [vol EXCEPT ![n].watch = @ \cup {"fee"}]
      \/ vol' = [vol EXCEPT ![n].watch = @ \cup {"csv"}, ![n].sender = FALSE]
      \/ vol' = [vol EXCEPT ![n].watch = @ \cup {"csv", "pay"}]
      \/ /\ vol' = [vol EXCEPT ![n].watch = @ \cup {"conf"}]
         /\ s = "AwaitTxConfirmation" /\ InPaymentWindow(data[n])
  BY DEF Execute, CreateSwapAction, SendMessageAction,
         SendMessageWithRetryAction, PayFeeInvoiceAction,
         TakerSendPrivkeyAction, SetStartingBlockHeightAction,
         AwaitTxConfirmationAction, ValidateTxAndPayClaimInvoiceAction,
         CreateAndBroadcastOpeningTransaction, AwaitFeeInvoicePayment,
         AwaitCsvAction, Claim, ClaimSwapTransactionWithPreimageAction,
         ClaimSwapTransactionCoop, ClaimSwapTransactionWithCsv, DoneAction, world
<1>2. s = "AwaitClaimPayment" => vol' = [vol EXCEPT ![n].watch = @ \cup {"csv", "pay"}]
  BY DEF Execute, AwaitCsvAction, Finished
<1> QED BY <1>a, <1>1, <1>2, SMT, SMTT(20) DEF VolOK, Volatile

\* Without an action a subscription only ends, the payment's by its callback or
\* a crash, and no sender starts.
LEMMA OtherVol ==
  ASSUME Inv, NEW n \in Node, Other(n)
  PROVE  /\ vol'[n].watch \subseteq vol[n].watch
         /\ vol'[n].sender => vol[n].sender
         /\ "pay" \in vol[n].watch \ vol'[n].watch
              => Crash(n) \/ Posted(n, "OnClaimInvoicePaid")'
<1>a. VolOK /\ EvOK /\ PcOK
  BY TypeParts, WorldParts DEF Inv
<1>1. CASE \/ StartSwap(n) \/ ReceiveRequest(n) \/ RefuseRequest(n)
           \/ \E t \in MessageType : ReceiveMessage(n, t) \/ IgnoreMessage(n, t)
           \/ ResendMessage(n) \/ Reject(n) \/ Restart(n)
           \/ Resumes(n) \/ PayTimeout(n) \/ PayTick(n) \/ PayReturn(n)
  BY <1>1
  DEF StartSwap, ReceiveRequest, NewSwap, RefuseRequest, ReceiveMessage,
      IgnoreMessage, ResendMessage, Reject, Restart, Resumes, PayTimeout, PayTick,
      PayReturn, world
<1>2. CASE Save(n)
  <2>1. vol' = vol \/ \E x : vol' = [vol EXCEPT ![n].retries = x]
    BY <1>2 DEF Save
  <2> QED BY <1>a, <2>1 DEF VolOK, Volatile
<1>3. CASE Crash(n)
  BY <1>3, <1>a DEF Crash, VolOK, NewVolatile
<1>4. CASE Timeout(n)
  BY <1>4, <1>a DEF Timeout, VolOK, Volatile
<1>5. ASSUME NEW w \in Watch, Unwatch(n, w)
      PROVE  vol'[n].watch = vol[n].watch \ {w} /\ vol'[n].sender = vol[n].sender
  BY <1>5, <1>a DEF Unwatch, VolOK, Volatile
<1>6. CASE \/ FeeInvoicePaid(n) \/ OnCsvPassed(n) \/ RpcTxConfirmed(n)
           \/ LndTxConfirmed(n)
  BY <1>5, <1>6
  DEF FeeInvoicePaid, OnCsvPassed, RpcTxConfirmed, LndTxConfirmed, Watch
<1>7. CASE ClaimInvoicePaid(n)
  <2>1. Posted(n, "OnClaimInvoicePaid")'
    BY <1>7, <1>a DEF ClaimInvoicePaid, Callback, Post, Posted, EvOK, PcOK
  <2> QED BY <1>5, <1>7, <2>1 DEF ClaimInvoicePaid, Watch
<1> QED BY <1>1, <1>2, <1>3, <1>4, <1>6, <1>7 DEF Other

\* A block makes the height grow by one and may confirm the opening transaction.
LEMMA TickChain ==
  ASSUME ChainOK, Tick
  PROVE  /\ chain'.height = chain.height + 1 /\ chain'.spent = chain.spent
         /\ chain'.opens = chain.opens
         /\ \/ chain'.open = chain.open /\ chain'.conf = chain.conf
            \/ /\ chain.open = "mempool" /\ chain'.open = "confirmed"
               /\ chain'.conf = chain.height + 1
         /\ UNCHANGED <<cur, data, disk, pc, ev, vol, net, wire, ln, crashes>>
BY DEF Tick, ChainOK

\* The steps outside the nodes change messages in flight, the claim payment or
\* the chain, one of them.
LEMMA WorldStep ==
  ASSUME LnOK, LoseMessage \/ ResolveHtlc \/ Tick
  PROVE  /\ UNCHANGED <<cur, data, disk, pc, ev, vol, wire, crashes>>
         /\ net' \subseteq net
         /\ chain' = chain \/ (Tick /\ ln' = ln)
         /\ \/ ln' = ln
            \/ /\ ln.pay = "inflight" /\ ln'.pay \in {"settled", "failed"}
               /\ ln'.since = ln.since /\ ln'.fee = ln.fee
<1>1. CASE LoseMessage
  BY <1>1 DEF LoseMessage
<1>2. CASE ResolveHtlc
  BY <1>2 DEF ResolveHtlc, LnOK
<1>3. CASE Tick
  BY <1>3 DEF Tick
<1> QED BY <1>1, <1>2, <1>3

\* The step sends m, for the first time or once more.
Sent(m) == m \in wire' \ wire \/ m \in net' \ net

\* A message is sent by the state that is there for it; RefuseRequest cancels,
\* and the redundant sender repeats the opening message.
LEMMA Messages ==
  ASSUME Inv, Next
  PROVE  /\ wire \subseteq wire' /\ net' \subseteq net \cup wire'
         /\ \A n \in Node :
              /\ Sent(<<Peer(n), "cancel">>) => cur'[n] = "SendCancel" \/ RefuseRequest(n)
              /\ Sent(<<Peer(n), "request">>) => Acts(n) /\ cur'[n] = "SendRequest"
              /\ Sent(<<Peer(n), "agreement">>)
                   => Acts(n) /\ cur'[n] \in {"SendAgreement", "SendFeeInvoice"}
              /\ Sent(<<Peer(n), "opening">>) =>
                   \/ /\ Acts(n) /\ cur'[n] = "SendTxBroadcastedMessage"
                      /\ ev'[n] = "ActionSucceeded"
                   \/ vol[n].sender
              /\ Sent(<<Peer(n), "coop">>) => Acts(n) /\ cur'[n] = "SendCoopClose"
<1>a. TypeOK /\ LnOK
  BY TypeParts, WorldParts DEF Inv
<1>b. \A m, n \in Node : Peer(m) = Peer(n) => m = n
  BY DEF Node, Peer
<1>1. CASE LoseMessage \/ ResolveHtlc \/ Tick
  BY <1>1, <1>a, WorldStep DEF Sent
<1>2. ASSUME NEW k \in Node, Other(k)
      PROVE  /\ wire \subseteq wire' /\ net' \subseteq net \cup wire'
             /\ \A m : Sent(m) =>
                  \/ m = <<Peer(k), "cancel">> /\ RefuseRequest(k)
                  \/ m = <<Peer(k), "opening">> /\ vol[k].sender
  <2>1. \/ net' \subseteq net
        \/ RefuseRequest(k) /\ net' \subseteq net \cup {<<Peer(k), "cancel">>}
        \/ ResendMessage(k) /\ net' = net \cup {<<Peer(k), "opening">>}
    <3>1. CASE \/ StartSwap(k) \/ ReceiveRequest(k) \/ RefuseRequest(k)
               \/ \E t \in MessageType : ReceiveMessage(k, t) \/ IgnoreMessage(k, t)
               \/ ResendMessage(k) \/ Reject(k) \/ Save(k) \/ Crash(k) \/ Restart(k)
               \/ Resumes(k)
      BY <3>1
      DEF StartSwap, ReceiveRequest, RefuseRequest, ReceiveMessage,
          IgnoreMessage, ResendMessage, Send, Reject, Save, Crash, Restart,
          Resumes, world
    <3>2. CASE \/ Timeout(k) \/ FeeInvoicePaid(k) \/ ClaimInvoicePaid(k)
               \/ OnCsvPassed(k) \/ RpcTxConfirmed(k) \/ LndTxConfirmed(k)
               \/ PayTimeout(k) \/ PayTick(k) \/ PayReturn(k)
      BY <3>2
      DEF Timeout, FeeInvoicePaid, ClaimInvoicePaid, OnCsvPassed, RpcTxConfirmed,
          LndTxConfirmed, Callback, PayTimeout, PayTick, PayReturn, world
    <3> QED BY <1>2, <3>1, <3>2 DEF Other
  <2>2. ResendMessage(k) => vol[k].sender /\ <<Peer(k), "opening">> \in wire'
    BY DEF ResendMessage, Send
  <2>3. RefuseRequest(k) => <<Peer(k), "cancel">> \in wire'
    BY DEF RefuseRequest
  <2>4. \/ wire' = wire
        \/ RefuseRequest(k) /\ wire' = wire \cup {<<Peer(k), "cancel">>}
        \/ ResendMessage(k) /\ wire' = wire \cup {<<Peer(k), "opening">>}
    BY <1>2, OtherWorld
  <2> QED BY <2>1, <2>2, <2>3, <2>4 DEF Sent
<1>3. ASSUME NEW k \in Node, NEW s \in State, NEW locked \in BOOLEAN,
             NEW r \in ActionResult, Runs(k, s, locked, r)
      PROVE  /\ wire \subseteq wire' /\ net' \subseteq net \cup wire'
             /\ \A m : Sent(m) =>
                  \/ m = <<Peer(k), "cancel">> /\ s = "SendCancel"
                  \/ m = <<Peer(k), "request">> /\ s = "SendRequest"
                  \/ /\ m = <<Peer(k), "agreement">>
                     /\ s \in {"SendAgreement", "SendFeeInvoice"}
                  \/ /\ m = <<Peer(k), "opening">> /\ s = "SendTxBroadcastedMessage"
                     /\ r = "ActionSucceeded"
                  \/ m = <<Peer(k), "coop">> /\ s = "SendCoopClose"
  <2>1. \/ wire' = wire /\ net' = net
        \/ /\ s \in {"SendRequest", "SendAgreement", "SendFeeInvoice",
                     "SendCancel", "SendCoopClose"}
           /\ wire' = wire \cup {<<Peer(k), MessageOf(s)>>}
           /\ net' = net \cup {<<Peer(k), MessageOf(s)>>}
        \/ /\ s = "SendTxBroadcastedMessage" /\ r = "ActionSucceeded"
           /\ wire' = wire \cup {<<Peer(k), "opening">>}
           /\ net' = net \cup {<<Peer(k), "opening">>}
    BY <1>3 DEF Runs, Execute, CreateSwapAction, SendMessageAction,
         SendMessageWithRetryAction, PayFeeInvoiceAction,
         TakerSendPrivkeyAction, SetStartingBlockHeightAction,
         AwaitTxConfirmationAction, ValidateTxAndPayClaimInvoiceAction,
         CreateAndBroadcastOpeningTransaction, AwaitFeeInvoicePayment,
         AwaitCsvAction, ClaimSwapTransactionWithPreimageAction,
         ClaimSwapTransactionCoop, ClaimSwapTransactionWithCsv, DoneAction,
         world, Send
  <2> QED BY <2>1 DEF MessageOf, Sent
<1>4. ASSUME NEW k \in Node, Acts(k)
      PROVE  /\ wire \subseteq wire' /\ net' \subseteq net \cup wire'
             /\ \A m : Sent(m) =>
                  \/ m = <<Peer(k), "cancel">> /\ cur'[k] = "SendCancel"
                  \/ m = <<Peer(k), "request">> /\ cur'[k] = "SendRequest"
                  \/ /\ m = <<Peer(k), "agreement">>
                     /\ cur'[k] \in {"SendAgreement", "SendFeeInvoice"}
                  \/ /\ m = <<Peer(k), "opening">>
                     /\ cur'[k] = "SendTxBroadcastedMessage"
                     /\ ev'[k] = "ActionSucceeded"
                  \/ m = <<Peer(k), "coop">> /\ cur'[k] = "SendCoopClose"
  <2>1. PICK s \in State, locked \in BOOLEAN, r \in ActionResult : Runs(k, s, locked, r)
    BY <1>4 DEF Acts
  <2>2. cur'[k] = s /\ ev'[k] = r
    BY <2>1, RunFacts, SMT, SMTT(20)
  <2>3. /\ wire \subseteq wire' /\ net' \subseteq net \cup wire'
        /\ \A m : Sent(m) =>
             \/ m = <<Peer(k), "cancel">> /\ s = "SendCancel"
             \/ m = <<Peer(k), "request">> /\ s = "SendRequest"
             \/ /\ m = <<Peer(k), "agreement">>
                /\ s \in {"SendAgreement", "SendFeeInvoice"}
             \/ /\ m = <<Peer(k), "opening">> /\ s = "SendTxBroadcastedMessage"
                /\ r = "ActionSucceeded"
             \/ m = <<Peer(k), "coop">> /\ s = "SendCoopClose"
    BY <1>3, <2>1, SMT, SMTT(20)
  <2> HIDE DEF Sent
  <2> QED BY <2>2, <2>3
<1> HIDE DEF Sent
<1>5. CASE \E k \in Node : Other(k)
  BY <1>2, <1>5, <1>b, SMT, SMTT(20)
<1>6. CASE \E k \in Node : Acts(k)
  BY <1>4, <1>6, <1>b, SMT, SMTT(20)
<1> QED BY <1>a, <1>1, <1>5, <1>6, StepKinds
-----------------------------------------------------------------------------
(* The invariant: every message, state, transaction and payment has its cause. *)

\* The message that lets the maker fund the swap, and the opening message.
Commitment == <<"maker", IF SwapType = "out" THEN "request" ELSE "agreement">>
Opening == <<"taker", "opening">>

\* The maker's states from the broadcast on, the taker's from the opening
\* message on and from the confirmation on.
Funded == {"BroadcastOpeningTx", "SendTxBroadcastedMessage", "AwaitClaimPayment",
           "ClaimSwapCoop", "WaitCsv", "ClaimSwapCsv", "ClaimedPreimage",
           "ClaimedCoop", "ClaimedCsv"}
Confirmed == {"ValidateTxAndPayClaimInvoice", "ClaimSwap", "ClaimedPreimage"}
Opened == Confirmed \cup {"AwaitTxConfirmation"}

\* The ways into these states.
LEMMA TableCauses ==
  ASSUME NEW s, NEW e
  PROVE  /\ \A t \in NextStates(SwapType, "maker", s, e) :
              /\ t \in Funded => \/ s \in Funded
                                 \/ /\ t = "BroadcastOpeningTx"
                                    /\ s \in {"AwaitFeeInvoicePayment", "AwaitAgreement"}
                                    /\ e = IF SwapType = "out" THEN "OnFeeInvoicePaid"
                                                               ELSE "OnAgreementReceived"
              /\ s \in Funded => \/ t \in Funded \ {"BroadcastOpeningTx"}
                                 \/ /\ s = "BroadcastOpeningTx" /\ e = "ActionFailed"
                                    /\ t = "SendCancel"
         /\ \A t \in NextStates(SwapType, "taker", s, e) :
              /\ t \in Opened =>
                   \/ s \in Opened
                   \/ s = "AwaitTxBroadcastedMessage" /\ e = "OnTxOpenedMessage"
              /\ t \in Confirmed =>
                   s \in Confirmed \/ (s = "AwaitTxConfirmation" /\ e = "OnTxConfirmed")
<1> DEFINE M(u, cause) ==
      /\ u[3] \in Funded => \/ u[1] \in Funded
                            \/ /\ u[3] = "BroadcastOpeningTx" /\ u[2] = cause
                               /\ u[1] \in {"AwaitFeeInvoicePayment", "AwaitAgreement"}
      /\ u[1] \in Funded => \/ u[3] \in Funded \ {"BroadcastOpeningTx"}
                            \/ /\ u[1] = "BroadcastOpeningTx" /\ u[2] = "ActionFailed"
                               /\ u[3] = "SendCancel"
<1> DEFINE T(u) ==
      /\ u[3] \in Opened =>
           \/ u[1] \in Opened
           \/ u[1] = "AwaitTxBroadcastedMessage" /\ u[2] = "OnTxOpenedMessage"
      /\ u[3] \in Confirmed =>
           u[1] \in Confirmed \/ (u[1] = "AwaitTxConfirmation" /\ u[2] = "OnTxConfirmed")
<1>1. \A u \in SwapOutReceiverStates : M(u, "OnFeeInvoicePaid")
  BY SMT, SMTT(20) DEF SwapOutReceiverStates, MakerRefundEvents, SendCancelEvents, Funded
<1>2. \A u \in SwapInSenderStates : M(u, "OnAgreementReceived")
  BY SMT, SMTT(20) DEF SwapInSenderStates, MakerRefundEvents, SendCancelEvents, Funded
<1>3. \A u \in SwapOutSenderStates : T(u)
  BY SMT, SMTT(20) DEF SwapOutSenderStates, SendCancelEvents, Opened, Confirmed
<1>4. \A u \in SwapInReceiverStates : T(u)
  BY SMT, SMTT(20) DEF SwapInReceiverStates, SendCancelEvents, Opened, Confirmed
<1>5. \A t \in NextStates(SwapType, "maker", s, e) :
        \E u \in States(SwapType, "maker") : u[1] = s /\ u[2] = e /\ u[3] = t
  BY DEF NextStates, Lookup
<1>6. \A t \in NextStates(SwapType, "taker", s, e) :
        \E u \in States(SwapType, "taker") : u[1] = s /\ u[2] = e /\ u[3] = t
  BY DEF NextStates, Lookup
<1>7. \A u \in States(SwapType, "maker") :
        M(u, IF SwapType = "out" THEN "OnFeeInvoicePaid" ELSE "OnAgreementReceived")
  BY <1>1, <1>2 DEF States
<1>8. \A u \in States(SwapType, "taker") : T(u)
  BY <1>3, <1>4 DEF States
<1> HIDE DEF Funded, Opened, Confirmed
<1>9. ASSUME NEW t \in NextStates(SwapType, "maker", s, e)
      PROVE  /\ t \in Funded => \/ s \in Funded
                                \/ /\ t = "BroadcastOpeningTx"
                                   /\ s \in {"AwaitFeeInvoicePayment", "AwaitAgreement"}
                                   /\ e = IF SwapType = "out" THEN "OnFeeInvoicePaid"
                                                              ELSE "OnAgreementReceived"
             /\ s \in Funded => \/ t \in Funded \ {"BroadcastOpeningTx"}
                                \/ /\ s = "BroadcastOpeningTx" /\ e = "ActionFailed"
                                   /\ t = "SendCancel"
  BY <1>5, <1>7, SMT, SMTT(20)
<1>10. ASSUME NEW t \in NextStates(SwapType, "taker", s, e)
       PROVE  /\ t \in Opened =>
                   \/ s \in Opened
                   \/ s = "AwaitTxBroadcastedMessage" /\ e = "OnTxOpenedMessage"
              /\ t \in Confirmed =>
                   s \in Confirmed \/ (s = "AwaitTxConfirmation" /\ e = "OnTxConfirmed")
  BY <1>6, <1>8, SMT, SMTT(20)
<1> QED BY <1>9, <1>10

\* Data comes from messages that were sent, and from the chain.
MessageInv ==
  /\ net \subseteq wire
  /\ ~vol["taker"].sender /\ <<"maker", "opening">> \notin wire
  /\ "conf" \notin vol["maker"].watch
  /\ data["taker"].openTx => Opening \in wire
  /\ data["maker"].coop \/ disk["maker"].data.coop => KeyRevealed
  /\ data["maker"].openTx => chain.open # "none"

\* The maker funds the swap after the taker's commitment.
CommitInv ==
  /\ SwapType = "out" /\ disk["maker"].cur # "Absent" => Commitment \in wire
  /\ SwapType = "in" /\ Posted("maker", "OnAgreementReceived") => Commitment \in wire
  /\ {cur["maker"], disk["maker"].cur} \cap Funded # {} => Commitment \in wire
  /\ chain.open # "none" => Commitment \in wire

\* The taker waits for a transaction it was told of, and pays for one that is
\* confirmed.
ConfirmInv ==
  /\ Posted("taker", "OnTxOpenedMessage") => Opening \in wire
  /\ "conf" \in vol["taker"].watch => Opening \in wire
  /\ {cur["taker"], disk["taker"].cur} \cap Opened # {} => Opening \in wire
  /\ Posted("taker", "OnTxConfirmed") => Opening \in wire /\ chain.open = "confirmed"
  /\ {cur["taker"], disk["taker"].cur} \cap Confirmed # {} => chain.open = "confirmed"
  /\ ln.pay # "none" => Opening \in wire /\ chain.open = "confirmed"

\* The anchor is a height of the past, on Liquid one before the confirmation.
AnchorInv ==
  /\ data["taker"].anchor <= chain.height
  /\ disk["taker"].data.anchor <= chain.height
  /\ Chain = "lbtc" /\ chain.open = "confirmed" => disk["taker"].data.anchor < chain.conf

\* The inductive invariant of the causes.
CauseInv == Inv /\ ResultInv /\ MessageInv /\ CommitInv /\ ConfirmInv /\ AnchorInv

\* Results are what is saved.
LEMMA ResultStep ==
  ASSUME Inv, ResultInv, Next
  PROVE  ResultInv'
<1>a. TypeOK /\ LnOK /\ PcOK /\ EvOK
  BY TypeParts, WorldParts DEF Inv
<1>1. CASE LoseMessage \/ ResolveHtlc \/ Tick
  BY <1>1, <1>a, WorldStep DEF ResultInv
<1>2. ASSUME NEW n \in Node, Acts(n)
      PROVE  ResultInv'
  BY <1>2, RunFacts, SMT, SMTT(20) DEF Acts, ResultInv
<1>3. ASSUME NEW n \in Node, Other(n), pc'[n] \in {"save", "rsave"}
      PROVE  ev'[n] \in ActionResult
  <2>1. CASE \/ StartSwap(n) \/ ReceiveRequest(n) \/ RefuseRequest(n)
             \/ \E t \in MessageType : ReceiveMessage(n, t) \/ IgnoreMessage(n, t)
             \/ ResendMessage(n) \/ Reject(n) \/ Save(n) \/ Crash(n) \/ Restart(n)
             \/ Resumes(n)
    BY <1>3, <1>a, <2>1
    DEF StartSwap, ReceiveRequest, NewSwap, RefuseRequest, ReceiveMessage, Post,
        IgnoreMessage, ResendMessage, Reject, Save, Crash, Restart, Resumes,
        PcOK, ResultInv
  <2>2. CASE \/ Timeout(n) \/ FeeInvoicePaid(n) \/ ClaimInvoicePaid(n)
             \/ OnCsvPassed(n) \/ RpcTxConfirmed(n) \/ LndTxConfirmed(n)
    BY <1>3, <1>a, <2>2
    DEF Timeout, FeeInvoicePaid, ClaimInvoicePaid, OnCsvPassed, RpcTxConfirmed,
        LndTxConfirmed, Callback, Post, PcOK
  <2>3. CASE PayTimeout(n) \/ PayTick(n) \/ PayReturn(n)
    BY <1>3, <1>a, <2>3
    DEF PayTimeout, PayTick, PayReturn, Return, PcOK, EvOK, ActionResult
  <2> QED BY <1>3, <2>1, <2>2, <2>3 DEF Other
<1>4. ASSUME NEW n \in Node, Other(n)
      PROVE  ResultInv'
  <2>1. \A m \in Node \ {n} : pc'[m] = pc[m] /\ ev'[m] = ev[m]
    BY <1>4, OtherControl
  <2> QED BY <1>3, <1>4, <2>1 DEF ResultInv
<1> QED BY <1>a, <1>1, <1>2, <1>4, StepKinds

\* What the chain and the wire never take back: blocks, the opening transaction
\* and, once the taker was told of it, its confirmation.
LEMMA Stable ==
  ASSUME Inv, Next
  PROVE  /\ chain.height <= chain'.height
         /\ chain.open # "none" => chain'.open # "none"
         /\ chain.open = "none" /\ chain'.open # "none"
              => chain'.open = "mempool" /\ cur'["maker"] = "BroadcastOpeningTx"
         /\ Opening \in wire /\ chain.open = "confirmed" => chain'.open = "confirmed"
         /\ chain.open = "confirmed" /\ chain'.open = "confirmed"
              => chain'.conf = chain.conf
         /\ chain.open # "confirmed" /\ chain'.open = "confirmed"
              => chain'.conf = chain.height + 1 /\ disk' = disk
<1>a. TypeOK /\ LnOK /\ ChainOK
  BY TypeParts, WorldParts DEF Inv
<1>1. CASE LoseMessage \/ ResolveHtlc \/ Tick
  <2>1. CASE chain' = chain
    BY <1>a, <2>1, SMT, SMTT(20) DEF ChainOK
  <2>2. CASE Tick
    BY <1>a, <2>2, TickChain, SMT, SMTT(20) DEF ChainOK
  <2> QED BY <1>a, <1>1, <2>1, <2>2, WorldStep
<1>2. ASSUME NEW n \in Node, Other(n)
      PROVE  chain' = chain
  BY <1>2, OtherWorld
<1>3. ASSUME NEW n \in Node, NEW s \in State, NEW locked \in BOOLEAN,
             NEW r \in ActionResult, Runs(n, s, locked, r)
      PROVE  /\ chain'.height = chain.height
             /\ \/ chain'.open = chain.open /\ chain'.conf = chain.conf
                \/ /\ chain'.open = "mempool" /\ cur'["maker"] = "BroadcastOpeningTx"
                   /\ Opening \notin wire
  <2>1. Execute(n, s, locked, r)
    BY <1>3 DEF Runs
  <2>2. /\ n = "maker" => s \in MakerState
        /\ n = "taker" => s \in TakerState
        /\ cur'[n] = s /\ disk[n].data = data[n]
    BY <1>3, RunFacts, SMT, SMTT(20)
  <2>3. s = "BroadcastOpeningTx" => n = "maker"
    BY <2>2 DEF Node, TakerState
  <2>4. s = "BroadcastOpeningTx" /\ ~data[n].openTx => Opening \notin wire
    BY <2>2, <2>3 DEF Inv, WireInv, Opening
  <2>5. \/ chain' = chain \/ \E x : chain' = [chain EXCEPT !.spent = x]
        \/ /\ s = "BroadcastOpeningTx" /\ ~data[n].openTx
           /\ chain' = [chain EXCEPT !.open = "mempool", !.conf = 0, !.opens = @ + 1]
    BY <2>1, ExecuteChain
  <2>6. \/ chain'.height = chain.height /\ chain'.open = chain.open /\ chain'.conf = chain.conf
        \/ /\ s = "BroadcastOpeningTx" /\ ~data[n].openTx
           /\ chain'.height = chain.height /\ chain'.open = "mempool"
    BY <1>a, <2>5 DEF ChainOK
  <2> QED BY <2>2, <2>3, <2>4, <2>6
<1>4. CASE chain' = chain
  BY <1>a, <1>4, SMT, SMTT(20) DEF ChainOK
<1>5. CASE \E n \in Node : Acts(n)
  BY <1>a, <1>3, <1>5, SMT, SMTT(20) DEF Acts, ChainOK
<1> QED BY <1>a, <1>1, <1>2, <1>4, <1>5, StepKinds

\* Nothing of node m changes.
Same(m) ==
  /\ cur'[m] = cur[m] /\ data'[m] = data[m] /\ disk'[m] = disk[m]
  /\ pc'[m] = pc[m] /\ ev'[m] = ev[m] /\ vol'[m] = vol[m]

\* A node acts, takes another step of its own, or stays as it is.
LEMMA NodeKinds ==
  ASSUME Inv, Next, NEW m \in Node
  PROVE  Acts(m) \/ Other(m) \/ Same(m)
<1>a. TypeOK /\ LnOK
  BY TypeParts, WorldParts DEF Inv
<1>1. CASE LoseMessage \/ ResolveHtlc \/ Tick
  BY <1>1, <1>a, WorldStep DEF Same
<1>2. ASSUME NEW n \in Node \ {m}, Other(n)
      PROVE  Same(m)
  BY <1>2, OtherControl DEF Same
<1>3. ASSUME NEW n \in Node \ {m}, Acts(n)
      PROVE  Same(m)
  <2>1. PICK s \in State, locked \in BOOLEAN, r \in ActionResult : Runs(n, s, locked, r)
    BY <1>3 DEF Acts
  <2>2. Execute(n, s, locked, r) /\ WorldOK
    BY <2>1, RunFacts DEF Runs
  <2>3. data'[m] = data[m] /\ vol'[m] = vol[m]
    BY <2>2, ExecuteData, ExecuteWatch
  <2>4. cur'[m] = cur[m] /\ ev'[m] = ev[m] /\ pc'[m] = pc[m] /\ disk' = disk
    BY <2>1, RunFacts, SMT, SMTT(20)
  <2> QED BY <2>3, <2>4 DEF Same
<1> QED BY <1>a, <1>1, <1>2, <1>3, StepKinds

\* What a message brings is what it says.
LEMMA ApplyFields ==
  ASSUME NEW d \in Data, NEW t \in MessageType
  PROVE  /\ ApplyToSwapData(d, t).openTx <=> d.openTx \/ t = "opening"
         /\ ApplyToSwapData(d, t).coop <=> d.coop \/ t = "coop"
         /\ ApplyToSwapData(d, t).agreed <=> d.agreed \/ t = "agreement"
         /\ ApplyToSwapData(d, t).anchor = d.anchor
         /\ ApplyToSwapData(d, t).preimage = d.preimage
         /\ ApplyToSwapData(d, t).claimTx = d.claimTx
BY DEF ApplyToSwapData, Data

\* The data of a node: what can set a field, memory or record.
LEMMA Fields ==
  ASSUME Inv, Next, NEW m \in Node
  PROVE  /\ data'[m].openTx /\ ~data[m].openTx =>
              \/ <<m, "opening">> \in net
              \/ m = "maker" /\ cur'[m] = "BroadcastOpeningTx" /\ chain'.open = "mempool"
         /\ data'[m].coop /\ ~data[m].coop => <<m, "coop">> \in net \/ disk[m].data.coop
         /\ data'[m].anchor \in {data[m].anchor, disk[m].data.anchor, chain.height}
         /\ disk'[m].data \in {disk[m].data, data'[m], NewData}
<1>a. TypeOK /\ DataOK /\ ChainOK /\ DiskOK /\ NodeInv(m)
  BY TypeParts, WorldParts DEF Inv
<1>b. data[m] \in Data /\ disk[m].data \in Data
  BY <1>a DEF DataOK, DiskOK
<1>1. CASE Same(m)
  BY <1>1 DEF Same
<1>2. CASE Acts(m)
  <2>1. PICK s \in State, locked \in BOOLEAN, r \in ActionResult : Runs(m, s, locked, r)
    BY <1>2 DEF Acts
  <2>2. /\ disk' = disk /\ cur'[m] = s
        /\ m = "maker" => s \in MakerState
        /\ m = "taker" => s \in TakerState
    BY <2>1, RunFacts, SMT, SMTT(20)
  <2>3. Execute(m, s, locked, r)
    BY <2>1 DEF Runs
  <2>4. \/ data'[m] = data[m]
        \/ data'[m] = [data[m] EXCEPT !.claimTx = TRUE]
        \/ /\ data'[m] = [data[m] EXCEPT !.openTx = TRUE]
           /\ s = "BroadcastOpeningTx"
           /\ chain' = [chain EXCEPT !.open = "mempool", !.conf = 0, !.opens = @ + 1]
        \/ data'[m] = [data[m] EXCEPT !.anchor = chain.height]
    BY <1>a, <2>3, ActionData, SMT, SMTT(20)
  <2>5. s = "BroadcastOpeningTx" => m = "maker"
    BY <2>2 DEF Node, TakerState
  <2>6. \/ /\ data'[m].openTx = data[m].openTx /\ data'[m].coop = data[m].coop
           /\ data'[m].anchor \in {data[m].anchor, chain.height}
        \/ /\ data'[m].coop = data[m].coop /\ data'[m].anchor = data[m].anchor
           /\ s = "BroadcastOpeningTx" /\ chain'.open = "mempool"
    BY <1>a, <1>b, <2>4 DEF Data, ChainOK
  <2> QED BY <2>2, <2>5, <2>6
<1>3. CASE Other(m)
  <2>1. disk'[m].data \in {disk[m].data, data'[m], NewData}
    <3>1. \/ disk' = disk
          \/ disk' = [disk EXCEPT ![m] = [cur |-> cur[m], data |-> data'[m]]]
          \/ disk' = [disk EXCEPT ![m] = [cur |-> "Default", data |-> NewData]]
      BY <1>3, OtherControl
    <3> QED BY <1>a, <3>1, SMT, SMTT(20) DEF DiskOK
  <2>2. CASE data'[m] = data[m]
    BY <2>1, <2>2
  <2>3. CASE data'[m] = disk[m].data
    BY <1>a, <2>1, <2>3 DEF NodeInv, DataAt
  <2>4. ASSUME NEW t \in MessageType, <<m, t>> \in net,
               data'[m] = ApplyToSwapData(data[m], t)
        PROVE  /\ data'[m].openTx /\ ~data[m].openTx => <<m, "opening">> \in net
               /\ data'[m].coop /\ ~data[m].coop => <<m, "coop">> \in net
               /\ data'[m].anchor = data[m].anchor
    BY <1>b, <2>4, ApplyFields, SMT, SMTT(20)
  <2>5. CASE data'[m] = [data[m] EXCEPT !.preimage = TRUE]
    BY <1>b, <2>1, <2>5 DEF Data
  <2> QED BY <1>3, <2>1, <2>2, <2>3, <2>4, <2>5, OtherData
<1> QED BY <1>1, <1>2, <1>3, NodeKinds

\* MessageInv is preserved.
LEMMA MessageStep ==
  ASSUME Inv, MessageInv, Next, Inv'
  PROVE  MessageInv'
<1>a. TypeOK /\ VolOK /\ "maker" \in Node /\ "taker" \in Node
  BY TypeParts, WorldParts DEF Inv, Node
<1>b. Peer("taker") = "maker" /\ Peer("maker") = "taker"
  BY DEF Peer
<1>1. net' \subseteq wire' /\ wire \subseteq wire'
  BY Messages DEF MessageInv
<1>2. cur'["taker"] # "SendTxBroadcastedMessage" /\ cur'["maker"] # "AwaitTxConfirmation"
  BY <1>a DEF Inv, NodeInv, ControlAt, TakerState, MakerState
<1>3. <<"maker", "opening">> \notin wire'
  BY <1>a, <1>b, <1>2, Messages DEF MessageInv, Sent
<1>4. ASSUME NEW n \in Node, Acts(n)
      PROVE  /\ n = "taker" => ~vol'[n].sender
             /\ n = "maker" => "conf" \notin vol'[n].watch
  <2>1. PICK s \in State, locked \in BOOLEAN, r \in ActionResult : Runs(n, s, locked, r)
    BY <1>4 DEF Acts
  <2>2. Execute(n, s, locked, r) /\ WorldOK /\ cur'[n] = s
    <3>1. Execute(n, s, locked, r)
      BY <2>1 DEF Runs
    <3> QED BY <2>1, <3>1, RunFacts
  <2>3. vol'[n].sender => vol[n].sender \/ s = "SendTxBroadcastedMessage"
    BY <2>2, ExecuteSender
  <2>4. "conf" \in vol'[n].watch \ vol[n].watch => s = "AwaitTxConfirmation"
    BY <2>2, ExecuteWatch
  <2> QED BY <1>2, <2>2, <2>3, <2>4 DEF MessageInv
<1>5. ASSUME NEW n \in Node, Other(n) \/ Same(n)
      PROVE  /\ n = "taker" => ~vol'[n].sender
             /\ n = "maker" => "conf" \notin vol'[n].watch
  BY <1>5, OtherVol DEF MessageInv, Same
<1>6. ~vol'["taker"].sender /\ "conf" \notin vol'["maker"].watch
  BY <1>a, <1>4, <1>5, NodeKinds
<1>7. data'["taker"].openTx => Opening \in wire'
  BY <1>a, <1>1, Fields DEF MessageInv, Opening
<1>8. data'["maker"].coop \/ disk'["maker"].data.coop => KeyRevealed'
  <2>1. KeyRevealed => KeyRevealed'
    BY <1>1 DEF KeyRevealed
  <2>2. data'["maker"].coop => KeyRevealed'
    BY <1>a, <1>1, <2>1, Fields DEF MessageInv, KeyRevealed
  <2>3. disk'["maker"].data \in {disk["maker"].data, data'["maker"], NewData}
    BY <1>a, Fields
  <2>4. ~NewData.coop
    BY DEF NewData
  <2>5. disk["maker"].data.coop => KeyRevealed'
    BY <2>1 DEF MessageInv
  <2> QED BY <2>2, <2>3, <2>4, <2>5
<1>9. data'["maker"].openTx => chain'.open # "none"
  BY <1>a, Fields, Stable DEF MessageInv
<1> QED BY <1>1, <1>3, <1>6, <1>7, <1>8, <1>9 DEF MessageInv

\* The state of a node: where it can come from, in memory and in the record.
LEMMA StateCause ==
  ASSUME Inv, Next, NEW m \in Node
  PROVE  /\ \/ cur'[m] \in {cur[m], disk[m].cur}
            \/ /\ pc[m] = "event" /\ disk[m].cur # "Absent"
               /\ cur'[m] \in NextStates(SwapType, m, cur[m], ev[m])
         /\ disk'[m].cur \in {disk[m].cur, cur[m], "Default"}
         /\ disk[m].cur = "Absent" /\ disk'[m].cur # "Absent"
              => m = Initiator \/ <<m, "request">> \in net
<1>a. TypeOK /\ CurOK /\ DiskOK
  BY TypeParts DEF Inv
<1>1. CASE Same(m)
  BY <1>1 DEF Same
<1>2. CASE Acts(m)
  <2>1. PICK s \in State, locked \in BOOLEAN, r \in ActionResult : Runs(m, s, locked, r)
    BY <1>2 DEF Acts
  <2>2. cur'[m] = s /\ disk' = disk /\ disk[m].cur # "Absent"
    BY <2>1, RunFacts, SMT, SMTT(20)
  <2>3. \/ pc[m] = "event" /\ s \in NextStates(SwapType, m, cur[m], ev[m])
        \/ s = cur[m]
    BY <2>1 DEF Runs
  <2> QED BY <2>2, <2>3
<1>3. CASE Other(m)
  <2>1. cur'[m] \in {cur[m], disk[m].cur}
    BY <1>a, <1>3, OtherControl DEF CurOK
  <2>2. \/ disk' = disk
        \/ /\ disk' = [disk EXCEPT ![m] = [cur |-> cur[m], data |-> data'[m]]]
           /\ disk[m].cur # "Absent"
        \/ /\ disk' = [disk EXCEPT ![m] = [cur |-> "Default", data |-> NewData]]
           /\ m = Initiator \/ <<m, "request">> \in net
    BY <1>3, OtherControl
  <2>3. \/ disk'[m].cur = disk[m].cur
        \/ disk'[m].cur = cur[m] /\ disk[m].cur # "Absent"
        \/ /\ disk'[m].cur = "Default"
           /\ m = Initiator \/ <<m, "request">> \in net
    BY <1>a, <2>2, SMT, SMTT(20) DEF DiskOK
  <2> QED BY <2>1, <2>3
<1> QED BY <1>1, <1>2, <1>3, NodeKinds

\* Only a step without an action posts an event that is no result.
LEMMA PostedNew ==
  ASSUME Inv, Next, NEW m \in Node, NEW e \in OnEvent, Posted(m, e)'
  PROVE  Posted(m, e) \/ Other(m)
<1>1. CASE Same(m)
  BY <1>1 DEF Same, Posted
<1>2. CASE Acts(m)
  <2>1. PICK s \in State, locked \in BOOLEAN, r \in ActionResult : Runs(m, s, locked, r)
    BY <1>2 DEF Acts
  <2>2. ev'[m] = r
    BY <2>1, RunControl, SMT, SMTT(20)
  <2> QED BY <2>2 DEF Posted, OnEvent
<1> QED BY <1>1, <1>2, NodeKinds

\* CommitInv is preserved.
LEMMA CommitStep ==
  ASSUME Inv, ResultInv, MessageInv, CommitInv, Next
  PROVE  CommitInv'
<1>a. "maker" \in Node /\ SwapType \in {"out", "in"} /\ "Default" \notin Funded
  BY SwapAssumption DEF Node, Funded
<1>b. net \subseteq wire /\ wire \subseteq wire'
  BY Messages DEF MessageInv
<1>c. Commitment' = Commitment
  BY DEF Commitment
<1>1. SwapType = "out" /\ disk'["maker"].cur # "Absent" => Commitment \in wire'
  BY <1>a, <1>b, StateCause DEF CommitInv, Commitment, Initiator
<1>2. SwapType = "in" /\ Posted("maker", "OnAgreementReceived")' => Commitment \in wire'
  <2>1. "OnAgreementReceived" \in OnEvent
    BY DEF OnEvent, Event, ActionResult
  <2>2. Posted("maker", "OnAgreementReceived")' /\ ~Posted("maker", "OnAgreementReceived")
          => <<"maker", "agreement">> \in net
    BY <1>a, <2>1, PostedNew, PostedCause
  <2> QED BY <1>b, <2>2 DEF CommitInv, Commitment
<1>3. cur'["maker"] \in Funded => Commitment \in wire'
  <2>1. CASE cur'["maker"] \in {cur["maker"], disk["maker"].cur}
    BY <1>b, <2>1 DEF CommitInv
  <2>2. CASE /\ pc["maker"] = "event" /\ disk["maker"].cur # "Absent"
             /\ cur'["maker"] \in NextStates(SwapType, "maker", cur["maker"], ev["maker"])
    <3>1. cur'["maker"] \in Funded =>
            \/ cur["maker"] \in Funded
            \/ SwapType = "out"
            \/ SwapType = "in" /\ ev["maker"] = "OnAgreementReceived"
      BY <1>a, <2>2, TableCauses, SMT, SMTT(20)
    <3> QED BY <1>b, <2>2, <3>1 DEF CommitInv, Posted
  <2> QED BY <1>a, <2>1, <2>2, StateCause
<1>4. disk'["maker"].cur \in Funded => Commitment \in wire'
  BY <1>a, <1>b, StateCause DEF CommitInv
<1>5. chain'.open # "none" => Commitment \in wire'
  <2>1. chain.open = "none" /\ chain'.open # "none" => cur'["maker"] \in Funded
    BY Stable DEF Funded
  <2> QED BY <1>b, <1>3, <2>1 DEF CommitInv
<1> QED BY <1>c, <1>1, <1>2, <1>3, <1>4, <1>5 DEF CommitInv

\* ConfirmInv is preserved.
LEMMA ConfirmStep ==
  ASSUME Inv, ResultInv, MessageInv, ConfirmInv, Next
  PROVE  ConfirmInv'
<1>a. "taker" \in Node /\ "Default" \notin Opened /\ Confirmed \subseteq Opened
  BY DEF Node, Opened, Confirmed
<1>b. net \subseteq wire /\ wire \subseteq wire'
  BY Messages DEF MessageInv
<1>c. Opening \in wire /\ chain.open = "confirmed" => Opening \in wire' /\ chain'.open = "confirmed"
  BY <1>b, Stable
<1>d. {"OnTxOpenedMessage", "OnTxConfirmed"} \subseteq OnEvent
  BY DEF OnEvent, Event, ActionResult
<1>e. TypeOK /\ LnOK /\ VolOK /\ WorldOK
  BY TypeParts, WorldParts DEF Inv
<1>1. Posted("taker", "OnTxOpenedMessage")' => Opening \in wire'
  <2>1. Posted("taker", "OnTxOpenedMessage")' /\ ~Posted("taker", "OnTxOpenedMessage")
          => <<"taker", "opening">> \in net
    BY <1>a, <1>d, PostedNew, PostedCause
  <2> QED BY <1>b, <2>1 DEF ConfirmInv, Opening
<1>2. cur'["taker"] \in Opened => Opening \in wire'
  <2>1. CASE cur'["taker"] \in {cur["taker"], disk["taker"].cur}
    BY <1>b, <2>1 DEF ConfirmInv
  <2>2. CASE /\ pc["taker"] = "event"
             /\ cur'["taker"] \in NextStates(SwapType, "taker", cur["taker"], ev["taker"])
    <3>1. cur'["taker"] \in Opened =>
            cur["taker"] \in Opened \/ ev["taker"] = "OnTxOpenedMessage"
      BY <2>2, TableCauses, SMT, SMTT(20)
    <3> QED BY <1>b, <2>2, <3>1 DEF ConfirmInv, Posted
  <2> QED BY <1>a, <2>1, <2>2, StateCause
<1>3. cur'["taker"] \in Confirmed => chain'.open = "confirmed"
  <2>1. CASE cur'["taker"] \in {cur["taker"], disk["taker"].cur}
    BY <1>a, <1>c, <2>1 DEF ConfirmInv
  <2>2. CASE /\ pc["taker"] = "event"
             /\ cur'["taker"] \in NextStates(SwapType, "taker", cur["taker"], ev["taker"])
    <3>1. cur'["taker"] \in Confirmed =>
            cur["taker"] \in Confirmed \/ ev["taker"] = "OnTxConfirmed"
      BY <2>2, TableCauses, SMT, SMTT(20)
    <3> QED BY <1>a, <1>c, <2>2, <3>1 DEF ConfirmInv, Posted
  <2> QED BY <1>a, <2>1, <2>2, StateCause
<1>4. disk'["taker"].cur \in Opened => Opening \in wire'
  BY <1>a, <1>b, StateCause DEF ConfirmInv
<1>5. disk'["taker"].cur \in Confirmed => chain'.open = "confirmed"
  BY <1>a, <1>c, StateCause DEF ConfirmInv
<1>6. "conf" \in vol'["taker"].watch => Opening \in wire'
  <2>1. CASE Acts("taker")
    <3>1. PICK s \in State, locked \in BOOLEAN, r \in ActionResult : Runs("taker", s, locked, r)
      BY <2>1 DEF Acts
    <3>2. Execute("taker", s, locked, r)
      BY <3>1 DEF Runs
    <3>3. cur'["taker"] = s
      BY <1>a, <3>1, RunControl
    <3>4. "conf" \in vol'["taker"].watch \ vol["taker"].watch => s \in Opened
      BY <1>a, <1>e, <3>2, ExecuteWatch DEF Opened
    <3> QED BY <1>b, <1>2, <3>3, <3>4 DEF ConfirmInv
  <2>2. CASE Other("taker") \/ Same("taker")
    BY <1>a, <1>b, <2>2, OtherVol DEF ConfirmInv, Same
  <2> QED BY <1>a, <2>1, <2>2, NodeKinds
<1>7. Posted("taker", "OnTxConfirmed")' => Opening \in wire' /\ chain'.open = "confirmed"
  <2>1. Posted("taker", "OnTxConfirmed")' /\ ~Posted("taker", "OnTxConfirmed")
          => "conf" \in vol["taker"].watch /\ Confirmations >= MinConfs
    BY <1>a, <1>d, PostedNew, PostedCause
  <2>2. Confirmations >= MinConfs => chain.open = "confirmed"
    BY SwapAssumption, SMT, SMTT(20) DEF Confirmations
  <2> QED BY <1>c, <2>1, <2>2 DEF ConfirmInv
<1>8. ln'.pay # "none" => Opening \in wire' /\ chain'.open = "confirmed"
  <2>1. CASE ln'.pay = ln.pay \/ ln.pay # "none"
    BY <1>c, <2>1 DEF ConfirmInv
  <2>2. ASSUME NEW n \in Node, Acts(n)
        PROVE  ln'.pay = ln.pay
    BY <1>e, <2>2, ExecutePay, SMT, SMTT(20) DEF Acts, Runs
  <2>3. ASSUME NEW n \in Node, Other(n), ln' # ln
        PROVE  Opening \in wire' /\ chain'.open = "confirmed"
    <3>1. PayTick(n)
      BY <2>3, OtherWorld
    <3>2. cur[n] = "ValidateTxAndPayClaimInvoice"
      BY <3>1 DEF PayTick, Inv, NodeInv, ControlAt
    <3>3. n = "taker"
      BY <3>2 DEF Inv, NodeInv, ControlAt, MakerState, Node
    <3>4. cur["taker"] \in Confirmed
      BY <3>2, <3>3 DEF Confirmed
    <3> QED BY <1>a, <1>c, <3>4 DEF ConfirmInv
  <2>4. CASE LoseMessage \/ ResolveHtlc \/ Tick
    BY <1>e, <2>1, <2>4, WorldStep
  <2> QED BY <1>e, <2>1, <2>2, <2>3, <2>4, StepKinds
<1>9. Opening' = Opening
  BY DEF Opening
<1> QED BY <1>1, <1>2, <1>3, <1>4, <1>5, <1>6, <1>7, <1>8, <1>9
        DEF ConfirmInv, Opened, Confirmed

\* AnchorInv is preserved.
LEMMA AnchorStep ==
  ASSUME CauseInv, Next, Inv', \A n \in Node : Kept(n)
  PROVE  AnchorInv'
<1>a. "taker" \in Node
  BY DEF Node
<1>b. ChainOK /\ DataOK /\ DiskOK /\ ChainOK' /\ DiskOK'
  BY TypeParts, WorldParts DEF CauseInv, Inv
<1>c. Inv
  BY DEF CauseInv
<1>d. /\ data["taker"].anchor \in Nat /\ disk["taker"].data.anchor \in Nat
      /\ disk'["taker"].data.anchor \in Nat
      /\ chain.height \in Nat /\ chain'.height \in Nat
      /\ chain.conf \in Nat
  BY <1>a, <1>b DEF ChainOK, DataOK, DiskOK, Data
<1>1. chain.height <= chain'.height
  BY <1>c, Stable
<1>2. data'["taker"].anchor <= chain'.height
  <2>1. data'["taker"].anchor \in {data["taker"].anchor, disk["taker"].data.anchor, chain.height}
    BY <1>a, <1>c, Fields
  <2>2. data["taker"].anchor <= chain.height /\ disk["taker"].data.anchor <= chain.height
    BY DEF CauseInv, AnchorInv
  <2> QED BY <1>d, <1>1, <2>1, <2>2, SMT, SMTT(20)
<1>3. disk'["taker"].data.anchor <= chain'.height
  <2>1. disk'["taker"].data \in {disk["taker"].data, data'["taker"], NewData}
    BY <1>a, <1>c, Fields
  <2>2. CASE disk'["taker"].data = disk["taker"].data
    <3>1. disk["taker"].data.anchor <= chain.height
      BY DEF CauseInv, AnchorInv
    <3> QED BY <1>d, <1>1, <2>2, <3>1, SMT, SMTT(20)
  <2>3. NewData.anchor = 0
    BY DEF NewData
  <2> QED BY <1>d, <1>2, <2>1, <2>2, <2>3, SMT, SMTT(20)
<1>4. ASSUME Chain = "lbtc", chain'.open = "confirmed"
      PROVE  disk'["taker"].data.anchor < chain'.conf
  <2>1. CASE chain.open # "confirmed"
    BY <1>c, <1>d, <1>4, <2>1, Stable, SMT, SMTT(20) DEF CauseInv, AnchorInv
  <2>2. CASE chain.open = "confirmed"
    <3>1. Commitment \in wire
      BY <2>2 DEF CauseInv, CommitInv
    <3>2. disk["taker"].data.anchor # 0
      BY <1>4, <3>1 DEF CauseInv, Inv, WireInv, AnchorBeforeCommitment, Commitment
    <3>3. disk'["taker"].data.anchor = disk["taker"].data.anchor
      BY <1>a, <3>2 DEF Kept
    <3>4. chain'.conf = chain.conf
      BY <1>c, <1>4, <2>2, Stable
    <3> QED BY <1>4, <2>2, <3>3, <3>4 DEF CauseInv, AnchorInv
  <2> QED BY <2>1, <2>2
<1> QED BY <1>2, <1>3, <1>4 DEF AnchorInv

\* CauseInv holds initially and is inductive.
LEMMA CauseInit ==
  ASSUME Init
  PROVE  CauseInv
<1>1. Inv
  BY InitInv
<1>2. "maker" \in Node /\ "taker" \in Node /\ {"Default", "Absent"} \cap (Funded \cup Opened) = {}
  BY DEF Node, Funded, Opened, Confirmed
<1>3. /\ \A n \in Node : /\ cur[n] = "Default" /\ data[n] = NewData
                         /\ disk[n].cur = "Absent" /\ disk[n].data = NewData
                         /\ pc[n] = "none" /\ vol[n] = NewVolatile
      /\ net = {} /\ wire = {} /\ chain.open = "none" /\ chain.height = 1 /\ ln.pay = "none"
  BY DEF Init
<1>4. /\ ~NewData.openTx /\ ~NewData.coop /\ NewData.anchor = 0
      /\ ~NewVolatile.sender /\ NewVolatile.watch = {}
  BY DEF NewData, NewVolatile
<1>5. ResultInv /\ MessageInv
  BY <1>2, <1>3, <1>4 DEF ResultInv, MessageInv
<1>6. CommitInv /\ ConfirmInv
  BY <1>2, <1>3, <1>4 DEF CommitInv, ConfirmInv, Posted, Opened
<1>7. AnchorInv
  BY <1>2, <1>3, <1>4, SMT, SMTT(20) DEF AnchorInv
<1> QED BY <1>1, <1>5, <1>6, <1>7 DEF CauseInv

\* The invariant is inductive.
LEMMA CauseStep ==
  ASSUME CauseInv, [Next]_vars
  PROVE  CauseInv'
<1>1. CASE Next
  <2>1. Inv' /\ \A n \in Node : Kept(n)
    BY <1>1, InvStep DEF CauseInv
  <2>2. ResultInv' /\ MessageInv' /\ CommitInv' /\ ConfirmInv'
    BY <1>1, <2>1, ResultStep, MessageStep, CommitStep, ConfirmStep DEF CauseInv
  <2>3. AnchorInv'
    BY <1>1, <2>1, AnchorStep
  <2> QED BY <2>1, <2>2, <2>3 DEF CauseInv
<1>2. CASE UNCHANGED vars
  <2>1. Inv'
    BY InvStep DEF CauseInv
  <2>2. ResultInv' /\ MessageInv' /\ CommitInv' /\ ConfirmInv' /\ AnchorInv'
    BY <1>2 DEF vars, CauseInv, ResultInv, MessageInv, CommitInv, ConfirmInv,
                AnchorInv, Posted, KeyRevealed, Commitment, Opening
  <2> QED BY <2>1, <2>2 DEF CauseInv
<1> QED BY <1>1, <1>2

\* On Liquid a payment starts inside the window that the anchor opens, whatever
\* fails and however often the taker is restarted.
LiquidInv == Chain = "lbtc" => PaymentStartsInTime

\* A payment starts within the window of the anchor, which is before the
\* confirmation; a later block moves neither.
LEMMA LiquidStep ==
  ASSUME CauseInv, LiquidInv, [Next]_vars, PaymentWindow <= Csv \div 2
  PROVE  LiquidInv'
<1> SUFFICES ASSUME Chain = "lbtc", ln'.pay \in {"inflight", "settled"}
             PROVE  ln'.since <= chain'.conf + Csv \div 2
  BY DEF LiquidInv, PaymentStartsInTime
<1>a. Inv /\ TypeOK /\ ChainOK /\ LnOK /\ WorldOK /\ DataOK /\ DiskOK
  BY TypeParts, WorldParts DEF CauseInv, Inv
<1>b. /\ chain.height \in Nat /\ chain.conf \in Nat /\ ln.since \in Nat
      /\ PaymentWindow \in Nat /\ Csv \div 2 \in Nat
  BY <1>a, SwapAssumption, SMT, SMTT(20) DEF ChainOK, LnOK
<1>c. ln.pay \in {"inflight", "settled"} => ln.since <= chain.conf + Csv \div 2
  BY DEF LiquidInv, PaymentStartsInTime
<1>1. CASE UNCHANGED vars
  BY <1>1, <1>c DEF vars
<1>2. CASE Next
  <2>1. ln.pay # "none" => chain.open = "confirmed" /\ Opening \in wire
    BY DEF CauseInv, ConfirmInv
  <2>2. ln.pay # "none" => chain'.conf = chain.conf
    BY <1>2, <1>a, <2>1, Stable
  <2>3. CASE ln.pay \in {"inflight", "settled"} /\ ln'.since = ln.since
    BY <1>c, <2>2, <2>3
  <2>4. ASSUME NEW n \in Node, Acts(n)
        PROVE  ln'.pay = ln.pay /\ ln'.since = ln.since
    <3>1. PICK s \in State, locked \in BOOLEAN, r \in ActionResult : Execute(n, s, locked, r)
      BY <2>4 DEF Acts, Runs
    <3> QED BY <1>a, <3>1, ExecutePay
  <2>5. ASSUME NEW n \in Node, Other(n), ln' # ln
        PROVE  ln'.since <= chain'.conf + Csv \div 2
    <3>1. /\ PayTick(n) /\ MayStartPayment(data[n]) /\ chain' = chain
          /\ ln' = [ln EXCEPT !.pay = "inflight", !.since = chain.height]
      BY <2>5, OtherWorld
    <3>2. cur[n] = "ValidateTxAndPayClaimInvoice"
      BY <1>a, <3>1 DEF PayTick, Inv, NodeInv, ControlAt
    <3>3. n = "taker"
      BY <1>a, <3>2 DEF Inv, NodeInv, ControlAt, MakerState, Node
    <3>4. chain.open = "confirmed"
      BY <3>2, <3>3 DEF CauseInv, ConfirmInv, Confirmed
    <3>5. Commitment \in wire
      BY <3>4 DEF CauseInv, CommitInv
    <3>6. disk["taker"].data.anchor # 0
      BY <3>5 DEF CauseInv, Inv, WireInv, AnchorBeforeCommitment, Commitment
    <3>7. data["taker"].anchor = disk["taker"].data.anchor
      BY <1>a, <2>5, <3>3, <3>6 DEF Inv, NodeInv, DataAt
    <3>8. disk["taker"].data.anchor < chain.conf
      BY <3>4 DEF CauseInv, AnchorInv
    <3>9. chain.height < data["taker"].anchor + PaymentWindow
      BY <3>1, <3>3 DEF MayStartPayment, InPaymentWindow
    <3>10. disk["taker"].data.anchor \in Nat
      BY <1>a, <2>5, <3>3 DEF DiskOK, Data
    <3>11. ln'.since = chain.height
      BY <1>a, <3>1 DEF LnOK
    <3> QED BY <1>b, <3>1, <3>7, <3>8, <3>9, <3>10, <3>11, SMT, SMTT(20)
  <2>6. CASE LoseMessage \/ ResolveHtlc \/ Tick
    BY <1>a, <2>3, <2>6, WorldStep
  <2>7. ASSUME ln' = ln
        PROVE  ln'.since <= chain'.conf + Csv \div 2
    BY <2>3, <2>7
  <2> QED BY <1>2, <1>a, <2>3, <2>4, <2>5, <2>6, <2>7, StepKinds
<1> QED BY <1>1, <1>2

\* The payment window of Liquid, measured from an anchor that is older than the
\* confirmation, ends in the first half of the CSV: no crash, lost message,
\* failed call or late block lets checkPaymentWindow start a payment after it.
\* (The hypothesis holds for the code's 60 and 10080 blocks.)
THEOREM LiquidPaysInTime ==
  ASSUME Chain = "lbtc", PaymentWindow <= Csv \div 2
  PROVE  Spec => []PaymentStartsInTime
<1>1. Init => CauseInv /\ LiquidInv
  <2>1. Init => ln.pay = "none"
    BY SMT, SMTT(20) DEF Init
  <2> QED BY <2>1, CauseInit DEF LiquidInv, PaymentStartsInTime
<1>2. CauseInv /\ LiquidInv /\ [Next]_vars => (CauseInv /\ LiquidInv)'
  BY CauseStep, LiquidStep
<1>3. CauseInv /\ LiquidInv => PaymentStartsInTime
  BY DEF LiquidInv
<1> QED BY <1>1, <1>2, <1>3, PTL DEF Spec
-----------------------------------------------------------------------------
(* Nodes at work. *)

\* A node at work in SendEvent goes on with it until it is done, unless it
\* crashes.
LEMMA Busy ==
  ASSUME Inv, NEW n \in Node, Other(n), ~Crash(n),
         pc[n] \in {"event", "save", "rsave"}
  PROVE  /\ cur'[n] = cur[n] /\ data'[n] = data[n] /\ ev'[n] = ev[n]
         /\ vol'[n].watch = vol[n].watch
         /\ \/ pc'[n] = pc[n]
            \/ /\ pc[n] = "event" /\ pc'[n] = "idle"
               /\ NextStates(SwapType, n, cur[n], ev[n]) = {}
            \/ /\ pc[n] \in {"save", "rsave"}
               /\ pc'[n] \in {"none", "idle", "event"}
               /\ ev[n] = "NoOp" => pc'[n] = "idle"
               /\ ev[n] \notin {"NoOp", "Done", "OnRetry"} => pc'[n] = "event"
               /\ disk'[n] = [cur |-> cur[n], data |-> data[n]]
<1>a. PcOK /\ EvOK /\ DataOK /\ VolOK /\ CurOK /\ DiskOK
  BY TypeParts, WorldParts DEF Inv
<1>1. ~Crash(n) /\ ~Restart(n) /\ ~Resumes(n) /\ ~PayTimeout(n) /\ ~PayTick(n) /\ ~PayReturn(n)
  BY DEF Crash, Restart, Resumes, PayTimeout, PayTick, PayReturn
<1>2. ~StartSwap(n) /\ ~ReceiveRequest(n) /\ \A t \in MessageType : ~ReceiveMessage(n, t)
  BY DEF StartSwap, ReceiveRequest, NewSwap, ReceiveMessage, Post
<1>3. ~Timeout(n) /\ ~FeeInvoicePaid(n) /\ ~ClaimInvoicePaid(n) /\ ~OnCsvPassed(n)
      /\ ~RpcTxConfirmed(n) /\ ~LndTxConfirmed(n)
  BY DEF Timeout, FeeInvoicePaid, ClaimInvoicePaid, OnCsvPassed, RpcTxConfirmed,
         LndTxConfirmed, Callback, Post
<1>4. CASE \/ RefuseRequest(n) \/ \E t \in MessageType : IgnoreMessage(n, t)
           \/ ResendMessage(n)
  BY <1>4 DEF RefuseRequest, IgnoreMessage, ResendMessage
<1>5. CASE Reject(n)
  BY <1>5, <1>a DEF Reject, PcOK, world
<1>6. CASE Save(n)
  <2>1. cur' = cur /\ data' = data /\ ev' = ev /\ pc[n] \in {"save", "rsave"}
    BY <1>6 DEF Save
  <2>2. vol' = vol \/ \E x : vol' = [vol EXCEPT ![n].retries = x]
    BY <1>6 DEF Save
  <2>3. vol'[n].watch = vol[n].watch
    BY <1>a, <2>2 DEF VolOK, Volatile
  <2>4. /\ pc'[n] \in {"none", "idle", "event"}
        /\ ev[n] = "NoOp" => pc'[n] = "idle"
        /\ ev[n] \notin {"NoOp", "Done", "OnRetry"} => pc'[n] = "event"
        /\ disk'[n] = [cur |-> cur[n], data |-> data[n]]
    BY <1>6, <1>a DEF Save, PcOK, DiskOK
  <2> QED BY <2>1, <2>3, <2>4
<1> QED BY <1>1, <1>2, <1>3, <1>4, <1>5, <1>6 DEF Other
-----------------------------------------------------------------------------
(* No abandoned opening transaction. *)

\* A maker whose opening transaction is out is in a state that watches it, or
\* about to enter one.
AbandonInv ==
  chain.open # "none" =>
    /\ cur["maker"] \in Funded
    /\ cur["maker"] = "BroadcastOpeningTx" => Returned("maker", "BroadcastOpeningTx")

\* Success in the broadcast, and in the payment, has one way on.
LEMMA BroadcastGoesOn ==
  /\ NextStates(SwapType, "maker", "BroadcastOpeningTx", "ActionSucceeded")
       = {"SendTxBroadcastedMessage"}
  /\ NextStates(SwapType, "taker", "ValidateTxAndPayClaimInvoice", "ActionSucceeded")
       = {"ClaimSwap"}
<1>1. \A u \in MakerRefundEvents : u[1] = "BroadcastOpeningTx" /\ u[2] = "ActionSucceeded"
        => u[3] = "SendTxBroadcastedMessage"
  BY SMT, SMTT(20) DEF MakerRefundEvents
<1>2. \A u \in (SwapOutReceiverStates \cup SwapInSenderStates) \ MakerRefundEvents :
        u[1] # "BroadcastOpeningTx"
  BY SMT, SMTT(20) DEF SwapOutReceiverStates, SwapInSenderStates, SendCancelEvents
<1>3. \A u \in SwapOutSenderStates \cup SwapInReceiverStates :
        u[1] = "ValidateTxAndPayClaimInvoice" /\ u[2] = "ActionSucceeded"
          => u[3] = "ClaimSwap"
  BY SMT, SMTT(20) DEF SwapOutSenderStates, SwapInReceiverStates, SendCancelEvents
<1>4. <<"BroadcastOpeningTx", "ActionSucceeded", "SendTxBroadcastedMessage">>
        \in SwapOutReceiverStates \cap SwapInSenderStates
  BY DEF SwapOutReceiverStates, SwapInSenderStates, MakerRefundEvents
<1>5. <<"ValidateTxAndPayClaimInvoice", "ActionSucceeded", "ClaimSwap">>
        \in SwapOutSenderStates \cap SwapInReceiverStates
  BY DEF SwapOutSenderStates, SwapInReceiverStates
<1>6. States(SwapType, "maker") \in {SwapOutReceiverStates, SwapInSenderStates}
      /\ States(SwapType, "taker") \in {SwapOutSenderStates, SwapInReceiverStates}
  BY DEF States
<1>7. \A u \in States(SwapType, "maker") :
        u[1] = "BroadcastOpeningTx" /\ u[2] = "ActionSucceeded"
          => u[3] = "SendTxBroadcastedMessage"
  BY <1>1, <1>2, <1>6
<1>8. \A u \in States(SwapType, "taker") :
        u[1] = "ValidateTxAndPayClaimInvoice" /\ u[2] = "ActionSucceeded"
          => u[3] = "ClaimSwap"
  BY <1>3, <1>6
<1> QED BY <1>4, <1>5, <1>6, <1>7, <1>8, SMT, SMTT(20) DEF NextStates, Lookup

\* An opening transaction is made by the maker's action only, which records it
\* unless GetBlockHeight fails.
LEMMA OpenCause ==
  ASSUME Inv, Next
  PROVE  \/ /\ chain'.opens = chain.opens
            /\ chain.open = "none" => chain'.open = "none"
         \/ \E locked \in BOOLEAN, r \in ActionResult :
              /\ Runs("maker", "BroadcastOpeningTx", locked, r)
              /\ ~data["maker"].openTx /\ chain'.opens = chain.opens + 1
              /\ \/ r = "ActionSucceeded" /\ data'["maker"].openTx
                 \/ "rpcFails" \in Faults /\ r = "ActionFailed"
<1>a. TypeOK /\ LnOK /\ ChainOK /\ DataOK
  BY TypeParts, WorldParts DEF Inv
<1>1. CASE LoseMessage \/ ResolveHtlc \/ Tick
  <2>1. CASE chain' = chain
    BY <2>1
  <2>2. CASE Tick
    BY <1>a, <2>2, TickChain DEF ChainOK
  <2> QED BY <1>a, <1>1, <2>1, <2>2, WorldStep
<1>2. ASSUME NEW n \in Node, Other(n)
      PROVE  chain' = chain
  BY <1>2, OtherWorld
<1>3. ASSUME NEW n \in Node, NEW s \in State, NEW locked \in BOOLEAN,
             NEW r \in ActionResult, Runs(n, s, locked, r)
      PROVE  \/ chain'.opens = chain.opens /\ chain'.open = chain.open
             \/ /\ n = "maker" /\ s = "BroadcastOpeningTx"
                /\ ~data["maker"].openTx /\ chain'.opens = chain.opens + 1
                /\ \/ r = "ActionSucceeded" /\ data'["maker"].openTx
                   \/ "rpcFails" \in Faults /\ r = "ActionFailed"
  <2>1. Execute(n, s, locked, r)
    BY <1>3 DEF Runs
  <2>2. n = "taker" => s \in TakerState
    BY <1>3, RunFacts, SMT, SMTT(20)
  <2>3. s = "BroadcastOpeningTx" => n = "maker"
    BY <2>2 DEF Node, TakerState
  <2>4. CASE chain' = chain \/ \E x : chain' = [chain EXCEPT !.spent = x]
    BY <1>a, <2>4 DEF ChainOK
  <2>5. CASE /\ s = "BroadcastOpeningTx" /\ ~data[n].openTx
             /\ chain' = [chain EXCEPT !.open = "mempool", !.conf = 0, !.opens = @ + 1]
             /\ \/ r = "ActionSucceeded" /\ data' = [data EXCEPT ![n].openTx = TRUE]
                \/ "rpcFails" \in Faults /\ r = "ActionFailed" /\ data' = data
    <3>1. chain'.opens = chain.opens + 1
      BY <1>a, <2>5 DEF ChainOK
    <3>2. data' = [data EXCEPT ![n].openTx = TRUE] => data'[n].openTx
      BY <1>a DEF DataOK, Data
    <3> QED BY <2>3, <2>5, <3>1, <3>2
  <2> QED BY <2>1, <2>4, <2>5, ExecuteChain
<1>4. CASE \E n \in Node : Acts(n)
  <2>1. PICK n \in Node, s \in State, locked \in BOOLEAN, r \in ActionResult : Runs(n, s, locked, r)
    BY <1>4 DEF Acts
  <2> QED BY <1>3, <2>1, SMT, SMTT(20)
<1> QED BY <1>a, <1>1, <1>2, <1>4, StepKinds

\* AbandonInv is preserved.
LEMMA AbandonStep ==
  ASSUME CauseInv, AbandonInv, Next, Faults \cap {"crash", "rpcFails"} = {}
  PROVE  AbandonInv'
<1> SUFFICES ASSUME chain'.open # "none"
             PROVE  /\ cur'["maker"] \in Funded
                    /\ cur'["maker"] = "BroadcastOpeningTx"
                         => Returned("maker", "BroadcastOpeningTx")'
  BY DEF AbandonInv
<1>a. "maker" \in Node /\ "taker" \in Node /\ Inv /\ ResultInv
  BY DEF Node, CauseInv
<1>b. "BroadcastOpeningTx" \in State /\ "BroadcastOpeningTx" \in Funded
  BY DEF State, MakerState, Funded
<1>1. CASE chain.open = "none"
  <2>1. PICK locked \in BOOLEAN, r \in ActionResult :
          Runs("maker", "BroadcastOpeningTx", locked, r) /\ r = "ActionSucceeded"
    BY <1>a, <1>1, OpenCause
  <2>2. /\ cur'["maker"] = "BroadcastOpeningTx" /\ ev'["maker"] = "ActionSucceeded"
        /\ pc'["maker"] \in {"save", "rsave"}
    BY <1>a, <1>b, <2>1, RunFacts, SMT, SMTT(20) DEF AfterAction
  <2> QED BY <1>b, <2>2 DEF Returned
<1>2. CASE chain.open # "none"
  <2>a. /\ cur["maker"] \in Funded
        /\ cur["maker"] = "BroadcastOpeningTx" =>
             /\ ev["maker"] = "ActionSucceeded" /\ pc["maker"] \in {"event", "save", "rsave"}
    BY <1>2 DEF AbandonInv, Returned
  <2>1. CASE Same("maker")
    BY <2>1, <2>a DEF Same, Returned
  <2>2. CASE Acts("maker")
    <3>1. PICK s \in State, locked \in BOOLEAN, r \in ActionResult : Runs("maker", s, locked, r)
      BY <2>2 DEF Acts
    <3>2. cur'["maker"] = s
      BY <1>a, <3>1, RunFacts, SMT, SMTT(20)
    <3>3. CASE locked
      BY <2>a, <3>1, <3>2, <3>3, TableCauses, SMT, SMTT(20) DEF Runs
    <3>4. CASE ~locked
      BY <2>a, <3>1, <3>2, <3>4 DEF Runs
    <3> QED BY <3>3, <3>4
  <2>3. CASE Other("maker")
    <3>1. cur'["maker"] = cur["maker"]
      BY <1>a, <2>3, OtherControl DEF Crash
    <3>2. CASE cur["maker"] = "BroadcastOpeningTx"
      <4>1. NextStates(SwapType, "maker", cur["maker"], ev["maker"]) # {}
        BY <2>a, <3>2, BroadcastGoesOn
      <4>2. ~Crash("maker")
        BY DEF Crash
      <4> QED BY <1>a, <2>3, <2>a, <3>1, <3>2, <4>1, <4>2, Busy DEF Returned
    <3> QED BY <2>a, <3>1, <3>2
  <2> QED BY <1>a, <2>1, <2>2, <2>3, NodeKinds
<1> QED BY <1>1, <1>2

\* Without crashes and failing RPCs no opening transaction is left behind in
\* SwapCanceled, where nothing watches it: whatever happens after the broadcast
\* leads to the refund or the claim.
THEOREM OpeningNeverAbandoned ==
  ASSUME Faults \cap {"crash", "rpcFails"} = {}
  PROVE  Spec => []NoAbandonedOpening
<1>1. Init => CauseInv /\ AbandonInv
  <2>1. Init => chain.open = "none"
    BY SMT, SMTT(20) DEF Init
  <2> QED BY <2>1, CauseInit DEF AbandonInv
<1>2. CauseInv /\ AbandonInv /\ [Next]_vars => (CauseInv /\ AbandonInv)'
  <2>1. AbandonInv /\ UNCHANGED vars => AbandonInv'
    BY DEF AbandonInv, Returned, vars
  <2> QED BY <2>1, CauseStep, AbandonStep
<1>3. CauseInv /\ AbandonInv => NoAbandonedOpening
  BY DEF AbandonInv, NoAbandonedOpening, Funded
<1> QED BY <1>1, <1>2, <1>3, PTL DEF Spec
-----------------------------------------------------------------------------
(* One opening transaction. *)

\* A node is up: only a crash takes it down.
Up(n) == pc[n] \notin {"down", "recover", "rsave"}

\* A node that is up and does not crash stays up.
LEMMA UpStep ==
  ASSUME Inv, Next, NEW n \in Node, Up(n), ~Crash(n)
  PROVE  Up(n)'
<1>a. PcOK
  BY TypeParts DEF Inv
<1>1. CASE Same(n)
  BY <1>1 DEF Same, Up
<1>2. CASE Acts(n)
  <2>1. PICK s \in State, locked \in BOOLEAN, r \in ActionResult : Runs(n, s, locked, r)
    BY <1>2 DEF Acts
  <2>2. locked
    BY <2>1 DEF Runs, Up
  <2>3. pc'[n] = AfterAction(r, "save")
    BY <2>1, <2>2, RunControl
  <2> QED BY <2>3 DEF AfterAction, Up
<1>3. CASE \/ StartSwap(n) \/ ReceiveRequest(n) \/ RefuseRequest(n)
           \/ \E t \in MessageType : ReceiveMessage(n, t) \/ IgnoreMessage(n, t)
           \/ ResendMessage(n) \/ Reject(n) \/ Save(n)
           \/ PayTimeout(n) \/ PayTick(n) \/ PayReturn(n)
  BY <1>a, <1>3
  DEF StartSwap, ReceiveRequest, NewSwap, RefuseRequest, ReceiveMessage, Post,
      IgnoreMessage, ResendMessage, Reject, Save, PayTimeout, PayTick, PayReturn,
      Return, PcOK, Up
<1>4. CASE \/ Timeout(n) \/ FeeInvoicePaid(n) \/ ClaimInvoicePaid(n)
           \/ OnCsvPassed(n) \/ RpcTxConfirmed(n) \/ LndTxConfirmed(n)
  BY <1>a, <1>4
  DEF Timeout, FeeInvoicePaid, ClaimInvoicePaid, OnCsvPassed, RpcTxConfirmed,
      LndTxConfirmed, Callback, Post, PcOK, Up
<1>5. ~Restart(n) /\ ~Resumes(n)
  BY DEF Restart, Resumes, Up
<1> QED BY <1>1, <1>2, <1>3, <1>4, <1>5, NodeKinds DEF Other

\* Where the broadcast is entered from, and the ways out of the states a failed
\* or forgotten broadcast leaves the maker in.
Waits == IF SwapType = "out" THEN "AwaitFeeInvoicePayment" ELSE "AwaitAgreement"
Trigger == IF SwapType = "out" THEN "OnFeeInvoicePaid" ELSE "OnAgreementReceived"
Canceled == {"SendCancel", "SwapCanceled"}

\* The broadcast has one entry, a canceled swap stays canceled, and a wait that
\* ends without its trigger is canceled.
LEMMA TableOnce ==
  ASSUME NEW s, NEW e
  PROVE  /\ "BroadcastOpeningTx" \in NextStates(SwapType, "maker", s, e)
              => s = Waits /\ e = Trigger
         /\ s \in Canceled => NextStates(SwapType, "maker", s, e) \subseteq Canceled
         /\ s = Waits /\ e # Trigger
              => NextStates(SwapType, "maker", s, e) \subseteq Canceled
         /\ SwapType = "out"
              => NextStates(SwapType, "maker", "AwaitFeeInvoicePayment", "ActionFailed") # {}
<1> DEFINE P(u, waits, trigger) ==
  /\ u[3] = "BroadcastOpeningTx" => u[1] = waits /\ u[2] = trigger
  /\ u[1] \in Canceled => u[3] \in Canceled
  /\ u[1] = waits /\ u[2] # trigger => u[3] \in Canceled
<1>1. \A u \in SwapOutReceiverStates : P(u, "AwaitFeeInvoicePayment", "OnFeeInvoicePaid")
  BY SMT, SMTT(20) DEF SwapOutReceiverStates, MakerRefundEvents, SendCancelEvents, Canceled
<1>2. \A u \in SwapInSenderStates : P(u, "AwaitAgreement", "OnAgreementReceived")
  BY SMT, SMTT(20) DEF SwapInSenderStates, MakerRefundEvents, SendCancelEvents, Canceled
<1>3. \A u \in States(SwapType, "maker") : P(u, Waits, Trigger)
  BY <1>1, <1>2 DEF States, Waits, Trigger
<1>4. SwapType = "out" =>
        <<"AwaitFeeInvoicePayment", "ActionFailed", "SendCancel">> \in States(SwapType, "maker")
  BY DEF States, SwapOutReceiverStates
<1>5. \A t \in NextStates(SwapType, "maker", s, e) :
        \E u \in States(SwapType, "maker") : u[1] = s /\ u[2] = e /\ u[3] = t
  BY DEF NextStates, Lookup
<1>6. SwapType = "out" =>
        "SendCancel" \in NextStates(SwapType, "maker", "AwaitFeeInvoicePayment", "ActionFailed")
  BY <1>4, SMT, SMTT(20) DEF NextStates, Lookup
<1>7. ASSUME NEW t \in NextStates(SwapType, "maker", s, e)
      PROVE  /\ t = "BroadcastOpeningTx" => s = Waits /\ e = Trigger
             /\ s \in Canceled => t \in Canceled
             /\ s = Waits /\ e # Trigger => t \in Canceled
  BY <1>3, <1>5, SMT, SMTT(20)
<1> QED BY <1>6, <1>7

\* Without crashes: a maker that has made an opening transaction is past the
\* state that makes it.
NoCrashOnce ==
  /\ Up("maker")
  /\ chain.opens <= 1
  /\ chain.opens # 0 => cur["maker"] \in Funded \cup Canceled

\* Every step keeps it, since nothing leads from Funded or Canceled back.
LEMMA NoCrashOnceStep ==
  ASSUME CauseInv, NoCrashOnce, Next, "crash" \notin Faults
  PROVE  NoCrashOnce'
<1>a. "maker" \in Node /\ Inv /\ ~Crash("maker") /\ "BroadcastOpeningTx" \in State
  BY DEF Node, CauseInv, Crash, State, MakerState
<1>b. ChainOK
  BY TypeParts, WorldParts DEF CauseInv, Inv
<1>c. "BroadcastOpeningTx" \in Funded /\ Waits \notin Funded \cup Canceled
  BY DEF Funded, Canceled, Waits
<1>1. Up("maker")'
  BY <1>a, UpStep DEF NoCrashOnce
<1>2. ASSUME NEW locked \in BOOLEAN, NEW r \in ActionResult,
             Runs("maker", "BroadcastOpeningTx", locked, r),
             chain'.opens = chain.opens + 1
      PROVE  chain'.opens <= 1 /\ cur'["maker"] \in Funded
  <2>1. locked
    BY <1>2 DEF Runs, NoCrashOnce, Up
  <2>2. cur["maker"] = Waits
    BY <1>2, <2>1, TableOnce DEF Runs
  <2>3. chain.opens = 0
    BY <1>c, <2>2 DEF NoCrashOnce
  <2>4. cur'["maker"] = "BroadcastOpeningTx"
    BY <1>a, <1>2, RunFacts
  <2> QED BY <1>2, <1>c, <2>3, <2>4, SMT, SMTT(20)
<1>3. ASSUME chain'.opens = chain.opens, chain.opens # 0
      PROVE  cur'["maker"] \in Funded \cup Canceled
  <2>a. cur["maker"] \in Funded \cup Canceled
    BY <1>3 DEF NoCrashOnce
  <2>1. CASE Same("maker")
    BY <2>a, <2>1 DEF Same
  <2>2. CASE Acts("maker")
    <3>1. PICK s \in State, locked \in BOOLEAN, r \in ActionResult : Runs("maker", s, locked, r)
      BY <2>2 DEF Acts
    <3>2. cur'["maker"] = s
      BY <1>a, <3>1, RunFacts
    <3>3. s \in NextStates(SwapType, "maker", cur["maker"], ev["maker"])
      BY <3>1 DEF Runs, NoCrashOnce, Up
    <3>4. cur["maker"] \in Funded => s \in Funded \cup Canceled
      BY <3>3, TableCauses DEF Canceled
    <3> QED BY <2>a, <3>2, <3>3, <3>4, TableOnce
  <2>3. CASE Other("maker")
    BY <1>a, <2>a, <2>3, OtherControl
  <2> QED BY <1>a, <2>1, <2>2, <2>3, NodeKinds
<1>4. chain'.opens <= 1 /\ (chain'.opens # 0 => cur'["maker"] \in Funded \cup Canceled)
  BY <1>a, <1>2, <1>3, OpenCause DEF NoCrashOnce
<1> QED BY <1>1, <1>4 DEF NoCrashOnce

\* The data the maker has it keeps, but for a crash.
LEMMA DataKept ==
  ASSUME Inv, Next, NEW m \in Node, ~Crash(m)
  PROVE  /\ data[m].openTx => data'[m].openTx
         /\ data[m].agreed => data'[m].agreed
         /\ data[m].preimage => data'[m].preimage
         /\ data[m].claimTx => data'[m].claimTx
<1>a. DataOK
  BY TypeParts, WorldParts DEF Inv
<1>b. data[m] \in Data
  BY <1>a DEF DataOK
<1>1. CASE Same(m)
  BY <1>1 DEF Same
<1>2. CASE Acts(m)
  <2>1. PICK s \in State, locked \in BOOLEAN, r \in ActionResult : Runs(m, s, locked, r)
    BY <1>2 DEF Acts
  <2>2. Execute(m, s, locked, r)
    BY <2>1 DEF Runs
  <2>3. \/ data'[m] = data[m]
        \/ data'[m] = [data[m] EXCEPT !.claimTx = TRUE]
        \/ data'[m] = [data[m] EXCEPT !.openTx = TRUE]
        \/ data'[m] = [data[m] EXCEPT !.anchor = chain.height]
    BY <1>a, <2>2, ActionData, SMT, SMTT(20)
  <2> QED BY <1>b, <2>3 DEF Data
<1>3. CASE Other(m)
  <2>1. CASE data'[m] = data[m]
    BY <2>1
  <2>2. ASSUME NEW t \in MessageType, data'[m] = ApplyToSwapData(data[m], t)
        PROVE  /\ data[m].openTx => data'[m].openTx
               /\ data[m].agreed => data'[m].agreed
               /\ data[m].preimage => data'[m].preimage
               /\ data[m].claimTx => data'[m].claimTx
    BY <1>b, <2>2, ApplyFields, SMT, SMTT(20)
  <2>3. CASE data'[m] = [data[m] EXCEPT !.preimage = TRUE]
    BY <1>b, <2>3 DEF Data
  <2> QED BY <1>3, <2>1, <2>2, <2>3, OtherData
<1> QED BY <1>1, <1>2, <1>3, NodeKinds

-----------------------------------------------------------------------------
(* The key and the payment. *)

\* A payment in flight or settled holds the taker in the payment call, or in
\* the states after it.
Held == Returned("taker", "ValidateTxAndPayClaimInvoice")
          \/ cur["taker"] \in {"ClaimSwap", "ClaimedPreimage"}

\* The taker is up; a payment in flight is one it waits for, a settled one is
\* one it knows of or is about to; it has the preimage from a payment only.
PayInv ==
  /\ Up("taker")
  /\ ln.pay = "inflight" => pc["taker"] = "rpc"
  /\ ln.pay = "settled" => pc["taker"] = "rpc" \/ (Held /\ data["taker"].preimage)
  /\ data["taker"].preimage => ln.pay = "settled"

\* The claim: only success, or a retry, leads on, but for the timeout entry of
\* the swap-out sender.
LEMMA TableClaim ==
  ASSUME NEW e, NEW t
  PROVE  /\ t \in NextStates(SwapType, "taker", "ClaimSwap", e) =>
              \/ t = "ClaimedPreimage" /\ e = "ActionSucceeded"
              \/ t = "ClaimSwap" /\ e = "OnRetry"
              \/ SwapType = "out" /\ e = "OnTimeout"
         /\ t \notin NextStates(SwapType, "taker", "ClaimedPreimage", e)
         /\ t \notin NextStates(SwapType, "maker", "ClaimedPreimage", e)
<1>1. \A u \in SwapOutSenderStates :
        /\ u[1] = "ClaimSwap" => \/ u[3] = "ClaimedPreimage" /\ u[2] = "ActionSucceeded"
                                 \/ u[3] = "ClaimSwap" /\ u[2] = "OnRetry"
                                 \/ u[2] = "OnTimeout"
        /\ u[1] # "ClaimedPreimage"
  BY SMT, SMTT(20) DEF SwapOutSenderStates, SendCancelEvents
<1>2. \A u \in SwapInReceiverStates :
        /\ u[1] = "ClaimSwap" => \/ u[3] = "ClaimedPreimage" /\ u[2] = "ActionSucceeded"
                                 \/ u[3] = "ClaimSwap" /\ u[2] = "OnRetry"
        /\ u[1] # "ClaimedPreimage"
  BY SMT, SMTT(20) DEF SwapInReceiverStates, SendCancelEvents
<1>3. \A u \in SwapOutReceiverStates \cup SwapInSenderStates : u[1] # "ClaimedPreimage"
  BY SMT, SMTT(20)
  DEF SwapOutReceiverStates, SwapInSenderStates, MakerRefundEvents, SendCancelEvents
<1> QED BY <1>1, <1>2, <1>3 DEF NextStates, Lookup, States

\* PayInv is preserved while no call returns before its HTLC is resolved, unless
\* the timeout of a swap-out ends a claim.
LEMMA PayStep ==
  ASSUME CauseInv, PayInv, Next, Faults \cap {"crash", "payRpcError"} = {},
         ~(SwapType = "out" /\ cur["taker"] = "ClaimSwap" /\ Posted("taker", "OnTimeout"))
  PROVE  PayInv'
<1>a. "taker" \in Node /\ Inv /\ ~Crash("taker")
  BY DEF Node, CauseInv, Crash
<1>b. LnOK /\ PcOK /\ EvOK /\ WorldOK /\ DataOK /\ TypeOK
  BY <1>a, TypeParts, WorldParts DEF Inv
<1>c. pc["taker"] \in {"loop", "rpc", "again"} => cur["taker"] = "ValidateTxAndPayClaimInvoice"
  BY <1>a DEF Inv, NodeInv, ControlAt
<1>1. Up("taker")'
  BY <1>a, UpStep DEF PayInv
<1>2. CASE Same("taker")
  <2>1. ln'.pay = ln.pay \/ (ln.pay = "inflight" /\ ln'.pay \in {"settled", "failed"})
    <3>1. CASE LoseMessage \/ ResolveHtlc \/ Tick
      BY <1>b, <3>1, WorldStep
    <3>2. ASSUME NEW n \in Node, Acts(n)
          PROVE  ln'.pay = ln.pay
      <4>1. PICK s \in State, locked \in BOOLEAN, r \in ActionResult : Execute(n, s, locked, r)
        BY <3>2 DEF Acts, Runs
      <4> QED BY <1>b, <4>1, ExecutePay
    <3>3. ASSUME NEW n \in Node, Other(n)
          PROVE  ln' = ln
      <4>1. SUFFICES ASSUME PayTick(n) PROVE ln' = ln
        BY <3>3, OtherWorld
      <4>2. n = "taker"
        BY <1>a, <4>1 DEF PayTick, Inv, NodeInv, ControlAt, MakerState, Node
      <4>3. pc'["taker"] # "rpc" \/ ln' = ln
        BY <1>2, <4>1, <4>2 DEF Same, PayTick
      <4> QED BY <1>b, <3>3, <4>1, <4>2, <4>3, OtherWorld DEF PcOK
    <3> QED BY <1>b, <3>1, <3>2, <3>3, StepKinds
  <2> QED BY <1>1, <1>2, <2>1 DEF Same, PayInv, Held, Returned
<1>3. CASE Acts("taker")
  <2>1. PICK s \in State, locked \in BOOLEAN, r \in ActionResult : Runs("taker", s, locked, r)
    BY <1>3 DEF Acts
  <2>2. Execute("taker", s, locked, r) /\ pc["taker"] = "event"
        /\ s \in NextStates(SwapType, "taker", cur["taker"], ev["taker"])
    BY <2>1 DEF Runs, PayInv, Up
  <2>3. cur'["taker"] = s
    BY <1>a, <2>1, RunControl, SMT, SMTT(20)
  <2>4. ln'.pay = ln.pay
    BY <1>a, <1>b, <2>2, ExecutePay
  <2>5. data'["taker"].preimage = data["taker"].preimage
    <3>1. data["taker"] \in Data
      BY <1>a, <1>b DEF DataOK
    <3>2. \/ data'["taker"] = data["taker"]
          \/ data'["taker"] = [data["taker"] EXCEPT !.claimTx = TRUE]
          \/ data'["taker"] = [data["taker"] EXCEPT !.openTx = TRUE]
          \/ data'["taker"] = [data["taker"] EXCEPT !.anchor = chain.height]
      BY <1>a, <1>b, <2>2, ActionData, SMT, SMTT(20)
    <3> QED BY <3>1, <3>2 DEF Data
  <2>6. Held => s \in {"ClaimSwap", "ClaimedPreimage"}
    <3>1. CASE Returned("taker", "ValidateTxAndPayClaimInvoice")
      BY <2>2, <3>1, BroadcastGoesOn DEF Returned
    <3>2. CASE cur["taker"] = "ClaimSwap"
      BY <2>2, <3>2, TableClaim DEF Posted
    <3>3. CASE cur["taker"] = "ClaimedPreimage"
      BY <2>2, <3>3, TableClaim
    <3> QED BY <3>1, <3>2, <3>3 DEF Held
  <2>7. ln.pay = "settled" => Held'
    BY <2>2, <2>3, <2>6 DEF PayInv, Held
  <2> QED BY <1>1, <2>2, <2>4, <2>5, <2>7 DEF PayInv
<1>4. CASE Other("taker")
  <2>1. cur'["taker"] = cur["taker"]
    BY <1>a, <1>4, OtherControl
  <2>2. CASE PayTick("taker")
    <3>1. /\ pc["taker"] \in {"loop", "again"} /\ data' = data
      BY <2>2 DEF PayTick
    <3>2. ln.pay \in {"none", "failed"}
      <4>1. ~Held
        BY <1>c, <3>1 DEF Held, Returned
      <4> QED BY <1>b, <3>1, <4>1 DEF PayInv, LnOK
    <3>3. \/ ln' = ln
          \/ ln'.pay = "inflight" /\ pc'["taker"] = "rpc"
      BY <1>a, <1>b, <2>2 DEF PayTick, LnOK, PcOK
    <3> QED BY <1>1, <3>1, <3>2, <3>3 DEF PayInv
  <2>3. CASE PayReturn("taker")
    <3>1. ln' = ln /\ pc["taker"] = "rpc" /\ cur["taker"] = "ValidateTxAndPayClaimInvoice"
      BY <1>c, <2>3 DEF PayReturn
    <3>2. CASE ln.pay = "settled" /\ Return("taker", "ActionSucceeded")
               /\ data' = [data EXCEPT !["taker"].preimage = TRUE]
      <4>1. pc'["taker"] = "save" /\ ev'["taker"] = "ActionSucceeded" /\ data'["taker"].preimage
        BY <1>a, <1>b, <3>2 DEF Return, PcOK, EvOK, DataOK, Data
      <4> QED BY <1>1, <2>1, <3>1, <3>2, <4>1 DEF PayInv, Held, Returned
    <3>3. CASE ln.pay = "failed" /\ UNCHANGED data
      BY <1>1, <3>1, <3>3 DEF PayInv
    <3> QED BY <2>3, <3>2, <3>3 DEF PayReturn
  <2>4. CASE ~PayTick("taker") /\ ~PayReturn("taker")
    <3>1. ln' = ln
      BY <1>a, <1>4, <2>4, OtherWorld
    <3>2. data'["taker"].preimage = data["taker"].preimage
      <4>1. data["taker"] \in Data
        BY <1>a, <1>b DEF DataOK
      <4>2. ASSUME NEW t \in MessageType, data'["taker"] = ApplyToSwapData(data["taker"], t)
            PROVE  data'["taker"].preimage = data["taker"].preimage
        BY <4>1, <4>2, ApplyFields, SMT, SMTT(20)
      <4> QED BY <1>a, <1>4, <2>4, <4>2, OtherData
    <3>3. pc["taker"] = "rpc" => pc'["taker"] = "rpc"
      <4>1. SUFFICES ASSUME pc["taker"] = "rpc" PROVE pc'["taker"] = "rpc"
        OBVIOUS
      <4>2. CASE \/ RefuseRequest("taker") \/ \E t \in MessageType : IgnoreMessage("taker", t)
                 \/ ResendMessage("taker")
        BY <4>1, <4>2 DEF RefuseRequest, IgnoreMessage, ResendMessage
      <4>3. ~StartSwap("taker") /\ ~ReceiveRequest("taker")
            /\ \A t \in MessageType : ~ReceiveMessage("taker", t)
        BY <4>1 DEF StartSwap, ReceiveRequest, NewSwap, ReceiveMessage, Post
      <4>4. ~Timeout("taker") /\ ~FeeInvoicePaid("taker") /\ ~ClaimInvoicePaid("taker")
            /\ ~OnCsvPassed("taker") /\ ~RpcTxConfirmed("taker") /\ ~LndTxConfirmed("taker")
        BY <4>1 DEF Timeout, FeeInvoicePaid, ClaimInvoicePaid, OnCsvPassed,
           RpcTxConfirmed, LndTxConfirmed, Callback, Post
      <4>5. ~Reject("taker") /\ ~Save("taker") /\ ~PayTimeout("taker")
            /\ ~Restart("taker") /\ ~Resumes("taker")
        BY <4>1 DEF Reject, Save, PayTimeout, Restart, Resumes
      <4> QED BY <1>a, <1>4, <2>4, <4>2, <4>3, <4>4, <4>5 DEF Other
    <3>4. Held => Held'
      <4>1. CASE Returned("taker", "ValidateTxAndPayClaimInvoice")
        <5>1. NextStates(SwapType, "taker", cur["taker"], ev["taker"]) # {}
          BY <4>1, BroadcastGoesOn DEF Returned
        <5>2. pc'["taker"] \in {"event", "save", "rsave"} /\ ev'["taker"] = ev["taker"]
          BY <1>a, <1>4, <4>1, <5>1, Busy DEF Returned
        <5> QED BY <2>1, <4>1, <5>2 DEF Held, Returned
      <4> QED BY <2>1, <4>1 DEF Held
    <3> QED BY <1>1, <3>1, <3>2, <3>3, <3>4 DEF PayInv
  <2> QED BY <2>2, <2>3, <2>4
<1> QED BY <1>a, <1>2, <1>3, <1>4, NodeKinds

\* A taker that holds a payment has not closed the swap.
LEMMA PayHoldsKey ==
  ASSUME Inv, PayInv
  PROVE  /\ KeyHeldWhilePaying
         /\ ln.pay \in {"inflight", "settled"} => cur["taker"] \notin Closing
<1>1. pc["taker"] = "rpc" => cur["taker"] = "ValidateTxAndPayClaimInvoice"
  BY DEF Inv, NodeInv, ControlAt, Node
<1>2. ln.pay \in {"inflight", "settled"} => cur["taker"] \notin Closing
  BY <1>1 DEF PayInv, Held, Returned, Closing
<1> QED BY <1>2 DEF KeyHeldWhilePaying, KeyRevealed, Inv, WireInv

\* No swap starts with a payment.
LEMMA PayInit ==
  ASSUME Init
  PROVE  PayInv
<1>1. ln.pay = "none" /\ pc["taker"] = "none" /\ ~data["taker"].preimage
  BY DEF Init, Node, NewData
<1> QED BY <1>1 DEF PayInv, Up

\* In a swap-in the taker holds its key while its payment may still succeed: no
\* lost message, invalid transaction, failed claim, failed RPC or late block
\* makes it reveal the key after a payment that the maker may have.
THEOREM SwapInHoldsKey ==
  ASSUME SwapType = "in", Faults \cap {"crash", "payRpcError"} = {}
  PROVE  Spec => []KeyHeldWhilePaying
<1>1. Init => CauseInv /\ PayInv
  BY CauseInit, PayInit
<1>2. CauseInv /\ PayInv /\ [Next]_vars => (CauseInv /\ PayInv)'
  <2>1. PayInv /\ UNCHANGED vars => PayInv'
    BY DEF PayInv, Up, Held, Returned, vars
  <2> QED BY <2>1, CauseStep, PayStep
<1>3. CauseInv /\ PayInv => KeyHeldWhilePaying
  BY PayHoldsKey DEF CauseInv
<1> QED BY <1>1, <1>2, <1>3, PTL DEF Spec
-----------------------------------------------------------------------------
(* What the taker commits itself with. *)

\* The state in which the taker commits itself, with the agreement of a swap-in
\* or the fee payment of a swap-out.  Its action returns one of two results.
Working == IF SwapType = "in" THEN "SendAgreement" ELSE "PayFeeInvoice"
Result == {"ActionSucceeded", "ActionFailed"}

\* Both results have their entry.
LEMMA TableWork ==
  ASSUME NEW e \in Result
  PROVE  NextStates(SwapType, "taker", Working, e) # {}
<1>1. <<Working, e, IF e = "ActionSucceeded" THEN "AwaitTxBroadcastedMessage"
                                             ELSE "SendCancel">>
        \in States(SwapType, "taker")
  <2>1. CASE SwapType = "in"
    BY <2>1 DEF States, SwapInReceiverStates, Working, Result
  <2>2. CASE SwapType = "out"
    BY <2>2 DEF States, SwapOutSenderStates, Working, Result
  <2> QED BY <2>1, <2>2, SwapAssumption
<1> QED BY <1>1, SMT, SMTT(20) DEF NextStates, Lookup
=============================================================================
