--------------------------- MODULE SwapCrashProofs ---------------------------
(***************************************************************************)
(* What a swap keeps through crashes and recoveries: a final state tells   *)
(* what happened to the payment and to the opening output, whatever fails; *)
(* a maker that was down after its broadcast does not make another one;    *)
(* and on Bitcoin, where the anchor is set late, a taker that was down     *)
(* still starts its payment in time.                                       *)
(***************************************************************************)
EXTENDS SwapCauseProofs

\* A leaf is tried with Zenon, then with Z3; the leaves that need Z3 say so.
USE Zenon, SMT, SMTT(20)

-----------------------------------------------------------------------------
(* What the final states say. *)

\* A node that is down or recovers is woken by Restart and Recover only.
LEMMA Down ==
  ASSUME Inv, NEW n \in Node, Other(n), ~Crash(n), pc[n] \in {"down", "recover"}
  PROVE  /\ data'[n] = data[n]
         /\ \/ pc'[n] = pc[n] /\ ev'[n] = ev[n]
            \/ /\ pc'[n] = (IF cur[n] \in Finished THEN "none" ELSE "recover")
               /\ ev'[n] = ev[n]
            \/ cur[n] = "Default"
            \/ cur[n] \in FailOnrecover(SwapType, n) /\ Posted(n, "ActionFailed")'
<1>a. PcOK /\ EvOK
  BY TypeParts DEF Inv
<1>1. CASE \/ RefuseRequest(n) \/ \E t \in MessageType : IgnoreMessage(n, t)
           \/ ResendMessage(n)
  BY <1>1 DEF RefuseRequest, IgnoreMessage, ResendMessage
<1>2. CASE Restart(n)
  BY <1>a, <1>2 DEF Restart, PcOK, world
<1>3. CASE Resumes(n)
  BY <1>a, <1>3 DEF Resumes, PcOK, EvOK, Posted, world
<1>4. ~StartSwap(n) /\ ~ReceiveRequest(n) /\ \A t \in MessageType : ~ReceiveMessage(n, t)
  BY DEF StartSwap, ReceiveRequest, NewSwap, ReceiveMessage, Post
<1>5. ~Timeout(n) /\ ~FeeInvoicePaid(n) /\ ~ClaimInvoicePaid(n) /\ ~OnCsvPassed(n)
      /\ ~RpcTxConfirmed(n) /\ ~LndTxConfirmed(n)
  BY DEF Timeout, FeeInvoicePaid, ClaimInvoicePaid, OnCsvPassed, RpcTxConfirmed,
         LndTxConfirmed, Callback, Post
<1>6. ~Reject(n) /\ ~Save(n) /\ ~PayTimeout(n) /\ ~PayTick(n) /\ ~PayReturn(n)
  BY DEF Reject, Save, PayTimeout, PayTick, PayReturn
<1> QED BY <1>1, <1>2, <1>3, <1>4, <1>5, <1>6 DEF Other

\* The states that claim the opening output.
ClaimStates == {"ClaimSwap", "ClaimSwapCoop", "ClaimSwapCsv"}

\* What state s with data d of node n says about the payment and the output.
TrueAt(n, s, d, pay, spent) ==
  /\ n = "taker" =>
       /\ d.preimage => pay = "settled"
       /\ d.claimTx => pay = "settled" /\ spent = "preimage"
       /\ s = "ClaimedPreimage" => d.claimTx
  /\ n = "maker" =>
       /\ s = "ClaimedPreimage" => pay = "settled"
       /\ d.claimTx => \/ s \in {"ClaimSwapCoop", "ClaimedCoop"} /\ spent = "coop"
                       \/ s \in {"ClaimSwapCsv", "ClaimedCsv"} /\ spent = "csv"
       /\ s \in {"ClaimedCoop", "ClaimedCsv"} => d.claimTx

\* Memory and record are true, an action that has claimed says so, and a
\* cooperative claim that is made is not taken for one that failed.
OutcomeAt(n) ==
  /\ TrueAt(n, cur[n], data[n], ln.pay, chain.spent)
  /\ TrueAt(n, disk[n].cur, disk[n].data, ln.pay, chain.spent)
  /\ Posted(n, "OnClaimInvoicePaid") => ln.pay = "settled"
  /\ \A s \in ClaimStates : Returned(n, s) => data[n].claimTx
  /\ cur[n] = "ClaimSwapCoop" /\ data[n].claimTx =>
       pc[n] \in {"down", "recover"} \/ Returned(n, "ClaimSwapCoop")

OutcomeInv == \A n \in Node : OutcomeAt(n)

\* A payment that is settled stays so, and an output that is spent stays spent.
LEMMA OutcomeStays ==
  ASSUME Inv, Next
  PROVE  /\ ln.pay = "settled" => ln'.pay = "settled"
         /\ chain.spent # "none" => chain'.spent = chain.spent
<1>a. TypeOK /\ WorldOK /\ LnOK /\ ChainOK
  BY TypeParts, WorldParts DEF Inv
<1>1. CASE LoseMessage \/ ResolveHtlc \/ Tick
  <2>1. /\ chain' = chain \/ Tick
        /\ ln' = ln \/ ln.pay = "inflight"
    BY <1>a, <1>1, WorldStep
  <2> QED BY <1>a, <2>1, TickChain
<1>2. ASSUME NEW n \in Node, Other(n)
      PROVE  chain' = chain /\ (ln' = ln \/ ln.pay # "settled")
  BY <1>2, OtherWorld
<1>3. ASSUME NEW n \in Node, Acts(n)
      PROVE  /\ ln'.pay = ln.pay
             /\ chain.spent # "none" => chain'.spent = chain.spent
  <2>1. PICK s \in State, locked \in BOOLEAN, r \in ActionResult : Execute(n, s, locked, r)
    BY <1>3 DEF Acts, Runs
  <2>2. ln'.pay = ln.pay
    BY <1>a, <2>1, ExecutePay
  <2>3. \/ chain' = chain
        \/ chain' = [chain EXCEPT !.open = "mempool", !.conf = 0, !.opens = @ + 1]
        \/ chain.spent = "none"
    BY <2>1, ExecuteChain
  <2> QED BY <1>a, <2>2, <2>3 DEF ChainOK
<1> QED BY <1>a, <1>1, <1>2, <1>3, StepKinds

\* What was true stays true.
LEMMA TrueStays ==
  ASSUME NEW n, NEW s, NEW d, NEW pay, NEW spent, NEW pay2, NEW spent2,
         TrueAt(n, s, d, pay, spent),
         pay = "settled" => pay2 = "settled", spent # "none" => spent2 = spent
  PROVE  TrueAt(n, s, d, pay2, spent2)
BY DEF TrueAt

\* The claims: a claim is recorded with the broadcast, by success, and is not
\* made by any other state.
LEMMA ExecuteClaim ==
  ASSUME DataOK, ChainOK, NEW n \in Node, NEW s \in State, NEW locked \in BOOLEAN,
         NEW r \in ActionResult, Execute(n, s, locked, r)
  PROVE  /\ data'[n].preimage = data[n].preimage
         /\ data[n].claimTx => data'[n].claimTx
         /\ data'[n].claimTx /\ ~data[n].claimTx =>
              \/ s = "ClaimSwap" /\ data[n].preimage /\ chain'.spent = "preimage"
              \/ s = "ClaimSwapCoop" /\ chain'.spent = "coop"
              \/ s = "ClaimSwapCsv" /\ chain'.spent = "csv"
         /\ s \in ClaimStates /\ r = "ActionSucceeded" => data'[n].claimTx
         /\ s = "ClaimSwapCoop" => /\ r \in {"ActionSucceeded", "ActionFailed"}
                                   /\ data'[n].claimTx => r = "ActionSucceeded"
<1>a. data[n] \in Data
  BY DEF DataOK
<1>1. CASE s \in ClaimStates
  <2>1. \/ /\ data[n].claimTx /\ r = "ActionSucceeded" /\ data' = data
        \/ /\ ~data[n].claimTx /\ r = "ActionSucceeded"
           /\ data' = [data EXCEPT ![n].claimTx = TRUE]
           /\ \/ /\ s = "ClaimSwap" /\ data[n].preimage
                 /\ chain' = [chain EXCEPT !.spent = "preimage"]
              \/ s = "ClaimSwapCoop" /\ chain' = [chain EXCEPT !.spent = "coop"]
              \/ s = "ClaimSwapCsv" /\ chain' = [chain EXCEPT !.spent = "csv"]
        \/ /\ ~data[n].claimTx /\ data' = data
           /\ r = IF s = "ClaimSwapCoop" THEN "ActionFailed" ELSE "OnRetry"
    BY <1>1
    DEF Execute, ClaimSwapTransactionWithPreimageAction, ClaimSwapTransactionCoop,
        ClaimSwapTransactionWithCsv, Claim, Finished, ClaimStates
  <2>2. \/ /\ data[n].claimTx /\ r = "ActionSucceeded" /\ data'[n] = data[n]
        \/ /\ ~data[n].claimTx /\ r = "ActionSucceeded"
           /\ data'[n] = [data[n] EXCEPT !.claimTx = TRUE]
           /\ \/ s = "ClaimSwap" /\ data[n].preimage /\ chain'.spent = "preimage"
              \/ s = "ClaimSwapCoop" /\ chain'.spent = "coop"
              \/ s = "ClaimSwapCsv" /\ chain'.spent = "csv"
        \/ /\ ~data[n].claimTx /\ data'[n] = data[n]
           /\ r = IF s = "ClaimSwapCoop" THEN "ActionFailed" ELSE "OnRetry"
    BY <2>1 DEF DataOK, ChainOK
  <2> QED BY <1>a, <1>1, <2>2 DEF Data
<1>2. CASE s \notin ClaimStates
  <2>1. \/ data' = data
        \/ data' = [data EXCEPT ![n].openTx = TRUE]
        \/ data' = [data EXCEPT ![n].anchor = chain.height]
    BY <1>2
    DEF Execute, CreateSwapAction, SendMessageAction, SendMessageWithRetryAction,
        PayFeeInvoiceAction, TakerSendPrivkeyAction, SetStartingBlockHeightAction,
        AwaitTxConfirmationAction, ValidateTxAndPayClaimInvoiceAction,
        CreateAndBroadcastOpeningTransaction, AwaitFeeInvoicePayment, AwaitCsvAction,
        DoneAction, world, ClaimStates
  <2>2. \/ data'[n] = data[n]
        \/ data'[n] = [data[n] EXCEPT !.openTx = TRUE]
        \/ data'[n] = [data[n] EXCEPT !.anchor = chain.height]
    BY <2>1 DEF DataOK
  <2>3. data'[n].claimTx = data[n].claimTx /\ data'[n].preimage = data[n].preimage
    BY <1>a, <2>2 DEF Data
  <2> QED BY <1>2, <2>3 DEF ClaimStates
<1> QED BY <1>1, <1>2

\* The ways to the final states and out of the claims.
LEMMA TableOutcome ==
  ASSUME NEW s, NEW e
  PROVE  /\ \A t \in NextStates(SwapType, "taker", s, e) :
              /\ t = "ClaimedPreimage" => s = "ClaimSwap" /\ e = "ActionSucceeded"
         /\ \A t \in NextStates(SwapType, "maker", s, e) :
              /\ t = "ClaimedPreimage" => e = "OnClaimInvoicePaid"
              /\ t = "ClaimedCoop" => s = "ClaimSwapCoop" /\ e = "ActionSucceeded"
              /\ t = "ClaimedCsv" => s = "ClaimSwapCsv" /\ e = "ActionSucceeded"
              /\ s = "ClaimSwapCoop" /\ e = "ActionSucceeded" => t = "ClaimedCoop"
              /\ s = "ClaimSwapCsv" => t \in {"ClaimSwapCsv", "ClaimedCsv"}
              /\ s \notin {"ClaimedCoop", "ClaimedCsv"}
         /\ NextStates(SwapType, "maker", "ClaimSwapCoop", "ActionSucceeded") # {}
<1> DEFINE M(u) ==
      /\ u[3] = "ClaimedPreimage" => u[2] = "OnClaimInvoicePaid"
      /\ u[3] = "ClaimedCoop" => u[1] = "ClaimSwapCoop" /\ u[2] = "ActionSucceeded"
      /\ u[3] = "ClaimedCsv" => u[1] = "ClaimSwapCsv" /\ u[2] = "ActionSucceeded"
      /\ u[1] = "ClaimSwapCoop" /\ u[2] = "ActionSucceeded" => u[3] = "ClaimedCoop"
      /\ u[1] = "ClaimSwapCsv" => u[3] \in {"ClaimSwapCsv", "ClaimedCsv"}
      /\ u[1] \notin {"ClaimedCoop", "ClaimedCsv"}
<1> DEFINE T(u) == u[3] = "ClaimedPreimage" => u[1] = "ClaimSwap" /\ u[2] = "ActionSucceeded"
<1>1. \A u \in SwapOutSenderStates : T(u)
  BY SMT, SMTT(20) DEF SwapOutSenderStates, SendCancelEvents
<1>2. \A u \in SwapInReceiverStates : T(u)
  BY SMT, SMTT(20) DEF SwapInReceiverStates, SendCancelEvents
<1>3. \A u \in SwapOutReceiverStates : M(u)
  BY SMT, SMTT(20) DEF SwapOutReceiverStates, MakerRefundEvents, SendCancelEvents
<1>4. \A u \in SwapInSenderStates : M(u)
  BY SMT, SMTT(20) DEF SwapInSenderStates, MakerRefundEvents, SendCancelEvents
<1>5. \A u \in States(SwapType, "taker") : T(u)
  BY <1>1, <1>2 DEF States
<1>6. \A u \in States(SwapType, "maker") : M(u)
  BY <1>3, <1>4 DEF States
<1>7. \A t \in NextStates(SwapType, "taker", s, e) :
        \E u \in States(SwapType, "taker") : u[1] = s /\ u[2] = e /\ u[3] = t
  BY DEF NextStates, Lookup
<1>8. \A t \in NextStates(SwapType, "maker", s, e) :
        \E u \in States(SwapType, "maker") : u[1] = s /\ u[2] = e /\ u[3] = t
  BY DEF NextStates, Lookup
<1>9. "ClaimedCoop" \in NextStates(SwapType, "maker", "ClaimSwapCoop", "ActionSucceeded")
  <2>1. <<"ClaimSwapCoop", "ActionSucceeded", "ClaimedCoop">> \in States(SwapType, "maker")
    BY DEF States, SwapOutReceiverStates, SwapInSenderStates, MakerRefundEvents
  <2> QED BY <2>1, SMT, SMTT(20) DEF NextStates, Lookup
<1> QED BY <1>5, <1>6, <1>7, <1>8, <1>9, SMT, SMTT(20)

\* A step without an action makes no claim.
LEMMA NoNewClaim ==
  ASSUME Inv, NEW n \in Node, Other(n), NEW s \in ClaimStates, Returned(n, s)'
  PROVE  Returned(n, s)
<1>a. PcOK /\ EvOK /\ NodeInv(n)
  BY TypeParts DEF Inv
<1>1. CASE \/ StartSwap(n) \/ ReceiveRequest(n) \/ RefuseRequest(n)
           \/ \E t \in MessageType : ReceiveMessage(n, t) \/ IgnoreMessage(n, t)
           \/ ResendMessage(n)
  BY <1>a, <1>1
  DEF StartSwap, ReceiveRequest, NewSwap, RefuseRequest, ReceiveMessage, Post, EventOf,
      MessageType, IgnoreMessage, ResendMessage, PcOK, EvOK, Returned
<1>2. CASE Reject(n) \/ Save(n) \/ Crash(n) \/ Restart(n) \/ Resumes(n)
  BY <1>a, <1>2 DEF Reject, Save, Crash, Restart, Resumes, PcOK, EvOK, Returned
<1>3. CASE \/ Timeout(n) \/ FeeInvoicePaid(n) \/ ClaimInvoicePaid(n)
           \/ OnCsvPassed(n) \/ RpcTxConfirmed(n) \/ LndTxConfirmed(n)
  BY <1>a, <1>3
  DEF Timeout, FeeInvoicePaid, ClaimInvoicePaid, OnCsvPassed, RpcTxConfirmed,
      LndTxConfirmed, Callback, Post, PcOK, EvOK, Returned
<1>4. CASE PayTimeout(n) \/ PayTick(n) \/ PayReturn(n)
  <2>1. cur[n] = "ValidateTxAndPayClaimInvoice" /\ cur' = cur
    BY <1>a, <1>4 DEF PayTimeout, PayTick, PayReturn, NodeInv, ControlAt
  <2> QED BY <2>1 DEF Returned, ClaimStates
<1> QED BY <1>1, <1>2, <1>3, <1>4 DEF Other

\* OutcomeAt is preserved by the steps that leave the node alone.
LEMMA OutcomeSame ==
  ASSUME Inv, NEW n \in Node, Next, OutcomeAt(n), Same(n)
  PROVE  OutcomeAt(n)'
<1>1. /\ TrueAt(n, cur'[n], data'[n], ln'.pay, chain'.spent)
      /\ TrueAt(n, disk'[n].cur, disk'[n].data, ln'.pay, chain'.spent)
  BY OutcomeStays, TrueStays, SMT, SMTT(20) DEF OutcomeAt, Same
<1>2. Posted(n, "OnClaimInvoicePaid")' => ln'.pay = "settled"
  BY OutcomeStays DEF OutcomeAt, Same, Posted
<1>3. \A s \in ClaimStates : Returned(n, s)' => data'[n].claimTx
  BY DEF OutcomeAt, Same, Returned
<1>4. cur'[n] = "ClaimSwapCoop" /\ data'[n].claimTx =>
        pc'[n] \in {"down", "recover"} \/ Returned(n, "ClaimSwapCoop")'
  BY DEF OutcomeAt, Same, Returned
<1> QED BY <1>1, <1>2, <1>3, <1>4 DEF OutcomeAt, ClaimStates

\* OutcomeAt is preserved by a crash, which goes back to a record that is true.
LEMMA OutcomeCrash ==
  ASSUME Inv, NEW n \in Node, Next, OutcomeAt(n), Crash(n)
  PROVE  OutcomeAt(n)'
<1>1. PcOK /\ CurOK /\ DataOK
  BY TypeParts, WorldParts DEF Inv
<1>2. /\ pc'[n] = "down" /\ disk' = disk
      /\ cur'[n] = disk[n].cur /\ data'[n] = disk[n].data
  BY <1>1 DEF Crash, PcOK, CurOK, DataOK
<1>3. /\ TrueAt(n, cur'[n], data'[n], ln'.pay, chain'.spent)
      /\ TrueAt(n, disk'[n].cur, disk'[n].data, ln'.pay, chain'.spent)
  BY <1>2, OutcomeStays, TrueStays, SMT, SMTT(20) DEF OutcomeAt
<1> QED BY <1>2, <1>3 DEF OutcomeAt, Posted, Returned, ClaimStates

\* OutcomeAt is preserved by the other steps without an action: they set no claim,
\* and the preimage comes from a payment that is settled.
LEMMA OutcomeOther ==
  ASSUME Inv, ResultInv, NEW n \in Node, Next, OutcomeAt(n), Other(n), ~Crash(n)
  PROVE  OutcomeAt(n)'
<1>a. DataOK /\ DiskOK /\ CurOK
  BY TypeParts, WorldParts DEF Inv
<1>b. data[n] \in Data
  BY <1>a DEF DataOK
<1>1. cur' = cur /\ chain' = chain
  BY OtherControl, OtherWorld
<1>2. /\ data'[n].claimTx = data[n].claimTx
      /\ data'[n].preimage => data[n].preimage \/ ln.pay = "settled"
  <2>1. ASSUME NEW t \in MessageType, data'[n] = ApplyToSwapData(data[n], t)
        PROVE  data'[n].claimTx = data[n].claimTx /\ data'[n].preimage = data[n].preimage
    BY <1>b, <2>1, ApplyFields, SMT, SMTT(20)
  <2>2. CASE ln.pay = "settled" /\ data'[n] = [data[n] EXCEPT !.preimage = TRUE]
    BY <1>b, <2>2 DEF Data
  <2> QED BY <2>1, <2>2, OtherData
<1>3. TrueAt(n, cur'[n], data'[n], ln'.pay, chain'.spent)
  BY <1>1, <1>2, OutcomeStays DEF OutcomeAt, TrueAt
<1>4. TrueAt(n, disk'[n].cur, disk'[n].data, ln'.pay, chain'.spent)
  <2>1. \/ disk' = disk
        \/ disk' = [disk EXCEPT ![n] = [cur |-> cur[n], data |-> data'[n]]]
        \/ disk' = [disk EXCEPT ![n] = [cur |-> "Default", data |-> NewData]]
    BY OtherControl
  <2>2. \/ disk'[n] = disk[n]
        \/ disk'[n].cur = cur'[n] /\ disk'[n].data = data'[n]
        \/ disk'[n].cur = "Default" /\ disk'[n].data = NewData
    BY <1>a, <1>1, <2>1, SMT, SMTT(20) DEF DiskOK
  <2>3. CASE disk'[n] = disk[n]
    BY <2>3, OutcomeStays, TrueStays, SMT, SMTT(20) DEF OutcomeAt
  <2>4. CASE disk'[n].cur = cur'[n] /\ disk'[n].data = data'[n]
    BY <1>3, <2>4
  <2>5. CASE disk'[n].cur = "Default" /\ disk'[n].data = NewData
    BY <2>5, SMT, SMTT(20) DEF TrueAt, NewData
  <2> QED BY <2>2, <2>3, <2>4, <2>5
<1>5. Posted(n, "OnClaimInvoicePaid")' => ln'.pay = "settled"
  <2>1. "OnClaimInvoicePaid" \in OnEvent
    BY DEF OnEvent, Event, ActionResult
  <2> QED BY <2>1, PostedCause, OutcomeStays DEF OutcomeAt
<1>6. \A s \in ClaimStates : Returned(n, s)' => data'[n].claimTx
  BY <1>2, NoNewClaim DEF OutcomeAt
<1>7. ASSUME cur[n] = "ClaimSwapCoop", data[n].claimTx
      PROVE  pc'[n] \in {"down", "recover"} \/ Returned(n, "ClaimSwapCoop")'
  <2>1. CASE pc[n] \in {"down", "recover"}
    <3>1. cur[n] \notin Finished /\ cur[n] \notin FailOnrecover(SwapType, n) \cup {"Default"}
      BY <1>7 DEF Finished, FailOnrecover
    <3> QED BY <2>1, <3>1, Down
  <2>2. CASE Returned(n, "ClaimSwapCoop")
    <3>1. NextStates(SwapType, n, cur[n], ev[n]) # {}
      <4>1. n = "maker"
        BY <1>7 DEF Inv, NodeInv, ControlAt, TakerState, Node
      <4> QED BY <1>7, <2>2, <4>1, TableOutcome DEF Returned
    <3>2. pc[n] \in {"event", "save", "rsave"} /\ ev[n] = "ActionSucceeded"
      BY <2>2 DEF Returned
    <3>3. pc'[n] \in {"event", "save", "rsave"} /\ ev'[n] = ev[n]
      BY <3>1, <3>2, Busy
    <3> QED BY <1>1, <1>7, <3>2, <3>3 DEF Returned
  <2> QED BY <1>7, <2>1, <2>2 DEF OutcomeAt
<1> QED BY <1>1, <1>2, <1>3, <1>4, <1>5, <1>6, <1>7 DEF OutcomeAt, ClaimStates

\* OutcomeAt is preserved by an action.
LEMMA OutcomeAct ==
  ASSUME Inv, NEW n \in Node, Next, OutcomeAt(n), NEW s \in State,
         NEW locked \in BOOLEAN, NEW r \in ActionResult, Runs(n, s, locked, r)
  PROVE  OutcomeAt(n)'
<1>a. WorldOK /\ DataOK /\ ChainOK
  BY TypeParts, WorldParts DEF Inv
<1>b. /\ cur'[n] = s /\ ev'[n] = r /\ disk' = disk
      /\ pc'[n] = AfterAction(r, IF locked THEN "save" ELSE "rsave")
      /\ n = "maker" => s \in MakerState
      /\ n = "taker" => s \in TakerState
  BY RunFacts, SMT, SMTT(20)
<1>c. Execute(n, s, locked, r)
  BY DEF Runs
<1>d. /\ data'[n].preimage = data[n].preimage
      /\ data[n].claimTx => data'[n].claimTx
      /\ data'[n].claimTx /\ ~data[n].claimTx =>
           \/ s = "ClaimSwap" /\ data[n].preimage /\ chain'.spent = "preimage"
           \/ s = "ClaimSwapCoop" /\ chain'.spent = "coop"
           \/ s = "ClaimSwapCsv" /\ chain'.spent = "csv"
      /\ s \in ClaimStates /\ r = "ActionSucceeded" => data'[n].claimTx
      /\ s = "ClaimSwapCoop" => /\ r \in {"ActionSucceeded", "ActionFailed"}
                                /\ data'[n].claimTx => r = "ActionSucceeded"
  BY <1>a, <1>c, ExecuteClaim, SMT, SMTT(20)
<1>e. /\ ln.pay = "settled" => ln'.pay = "settled"
      /\ chain.spent # "none" => chain'.spent = chain.spent
  BY OutcomeStays
<1>f. \/ pc[n] = "event" /\ s \in NextStates(SwapType, n, cur[n], ev[n])
      \/ pc[n] = "recover" /\ s = cur[n]
  BY DEF Runs
<1>1. TrueAt(n, disk'[n].cur, disk'[n].data, ln'.pay, chain'.spent)
  BY <1>b, <1>e, TrueStays, SMT, SMTT(20) DEF OutcomeAt
<1>2. TrueAt(n, cur[n], data[n], ln.pay, chain.spent)
  BY DEF OutcomeAt
<1>3. ASSUME n = "taker"
      PROVE  TrueAt(n, cur'[n], data'[n], ln'.pay, chain'.spent)
  <2>1. s = "ClaimedPreimage" => data[n].claimTx
    <3>1. CASE pc[n] = "event" /\ s \in NextStates(SwapType, n, cur[n], ev[n])
      BY <1>3, <3>1, TableOutcome, SMT, SMTT(20) DEF OutcomeAt, ClaimStates, Returned
    <3>2. CASE s = cur[n]
      BY <1>2, <1>3, <3>2 DEF TrueAt
    <3> QED BY <1>f, <3>1, <3>2
  <2>2. s \notin {"ClaimSwapCoop", "ClaimSwapCsv"}
    BY <1>3, <1>b DEF TakerState
  <2> QED BY <1>2, <1>3, <1>b, <1>d, <1>e, <2>1, <2>2 DEF TrueAt
<1>4. ASSUME n = "maker"
      PROVE  TrueAt(n, cur'[n], data'[n], ln'.pay, chain'.spent)
  <2>1. CASE pc[n] = "event" /\ s \in NextStates(SwapType, n, cur[n], ev[n])
    <3>1. /\ s = "ClaimedPreimage" => Posted(n, "OnClaimInvoicePaid")
          /\ s = "ClaimedCoop" => Returned(n, "ClaimSwapCoop")
          /\ s = "ClaimedCsv" => Returned(n, "ClaimSwapCsv")
          /\ cur[n] = "ClaimSwapCsv" => s \in {"ClaimSwapCsv", "ClaimedCsv"}
          /\ Returned(n, "ClaimSwapCoop") => s = "ClaimedCoop"
          /\ cur[n] \notin {"ClaimedCoop", "ClaimedCsv"}
      BY <1>4, <2>1, TableOutcome, SMT, SMTT(20) DEF Posted, Returned
    <3>2. /\ s = "ClaimedPreimage" => ln.pay = "settled"
          /\ s \in {"ClaimedCoop", "ClaimedCsv"} => data[n].claimTx
          /\ cur[n] = "ClaimSwapCoop" /\ data[n].claimTx => s = "ClaimedCoop"
      BY <2>1, <3>1 DEF OutcomeAt, ClaimStates
    <3> QED BY <1>2, <1>4, <1>b, <1>d, <1>e, <3>1, <3>2 DEF TrueAt, MakerState
  <2>2. CASE s = cur[n]
    BY <1>2, <1>4, <1>b, <1>d, <1>e, <2>2 DEF TrueAt, MakerState
  <2> QED BY <1>f, <2>1, <2>2
<1>5. TrueAt(n, cur'[n], data'[n], ln'.pay, chain'.spent)
  BY <1>3, <1>4 DEF Node
<1>6. ~Posted(n, "OnClaimInvoicePaid")'
  BY <1>b DEF Posted, ActionResult
<1>7. \A t \in ClaimStates : Returned(n, t)' => data'[n].claimTx
  BY <1>b, <1>d DEF Returned
<1>8. cur'[n] = "ClaimSwapCoop" /\ data'[n].claimTx => Returned(n, "ClaimSwapCoop")'
  BY <1>b, <1>d DEF Returned, AfterAction
<1> QED BY <1>1, <1>5, <1>6, <1>7, <1>8 DEF OutcomeAt, ClaimStates

\* No swap starts with an outcome.
LEMMA OutcomeInit ==
  ASSUME Init
  PROVE  OutcomeInv
<1> SUFFICES ASSUME NEW n \in Node PROVE OutcomeAt(n)
  BY DEF OutcomeInv
<1>1. /\ cur[n] = "Default" /\ data[n] = NewData /\ pc[n] = "none"
      /\ disk[n].cur = "Absent" /\ disk[n].data = NewData
  BY DEF Init
<1> QED BY <1>1, SMT, SMTT(20) DEF OutcomeAt, TrueAt, NewData, Posted, Returned

\* OutcomeInv is preserved.
LEMMA OutcomeStep ==
  ASSUME Inv, ResultInv, OutcomeInv, Next
  PROVE  OutcomeInv'
<1>1. ASSUME NEW n \in Node
      PROVE  OutcomeAt(n)'
  <2>1. OutcomeAt(n)
    BY DEF OutcomeInv
  <2>2. CASE Acts(n)
    BY <2>1, <2>2, OutcomeAct DEF Acts
  <2>3. CASE Other(n)
    BY <2>1, <2>3, OutcomeCrash, OutcomeOther
  <2>4. CASE Same(n)
    BY <2>1, <2>4, OutcomeSame
  <2> QED BY <2>2, <2>3, <2>4, NodeKinds
<1> QED BY <1>1 DEF OutcomeInv

\* A final state says what happened to the payment and to the opening output,
\* under every fault and however many crashes: a claim is recorded with its
\* broadcast and not made or taken for failed again, so the two sides never both
\* end as the one that has the output.
THEOREM FinalStatesAreTrue == Spec => []OutcomeIsTrue
<1>1. Init => CauseInv /\ OutcomeInv
  BY CauseInit, OutcomeInit
<1>2. CauseInv /\ OutcomeInv /\ [Next]_vars => (CauseInv /\ OutcomeInv)'
  <2>1. OutcomeInv /\ UNCHANGED vars => OutcomeInv'
    BY SMT, SMTT(20) DEF OutcomeInv, OutcomeAt, TrueAt, Posted, Returned, ClaimStates, vars
  <2> QED BY <2>1, CauseStep, OutcomeStep DEF CauseInv
<1>3. CauseInv /\ OutcomeInv => OutcomeIsTrue
  <2>1. OutcomeInv => /\ TrueAt("taker", cur["taker"], data["taker"], ln.pay, chain.spent)
                      /\ TrueAt("maker", cur["maker"], data["maker"], ln.pay, chain.spent)
    BY DEF OutcomeInv, OutcomeAt, Node
  <2> QED BY <2>1 DEF TrueAt, OutcomeIsTrue
<1> QED BY <1>1, <1>2, <1>3, PTL DEF Spec
-----------------------------------------------------------------------------
(* One opening transaction through one crash. *)

\* The record the maker has when it crashes right after the broadcast: it will
\* not make another one, since recovery fails the swap, or ignores the agreement
\* it has already.
Old(s, d) == s = Waits /\ (SwapType = "in" => d.agreed)

\* The maker after such a crash.
Stale ==
  /\ crashes # 0
  /\ \/ cur["maker"] \in Canceled
     \/ /\ SwapType = "out" /\ cur["maker"] = Waits
        /\ pc["maker"] \in {"down", "recover"} \/ Posted("maker", "ActionFailed")
     \/ /\ SwapType = "in" /\ cur["maker"] = Waits /\ data["maker"].agreed
        /\ ~Posted("maker", "OnAgreementReceived")

\* With one crash: the transaction is known, or the maker is past the crash.
OneCrashOnce ==
  /\ chain.opens <= 1
  /\ chain.opens # 0 => data["maker"].openTx \/ Stale
  /\ crashes = 0 /\ data["maker"].openTx /\ ~disk["maker"].data.openTx
       => Old(disk["maker"].cur, disk["maker"].data)
  /\ crashes = 0 => Up("maker")
  /\ SwapType = "in" /\ Posted("maker", "OnAgreementReceived") => data["maker"].agreed

\* Crashes are counted.
LEMMA CrashCount ==
  ASSUME Inv, Next
  PROVE  crashes' = crashes \/ crashes' = crashes + 1
<1>1. ASSUME NEW n \in Node, Other(n)
      PROVE  crashes' = crashes \/ crashes' = crashes + 1
  <2>1. CASE \/ StartSwap(n) \/ ReceiveRequest(n) \/ RefuseRequest(n)
             \/ \E t \in MessageType : ReceiveMessage(n, t) \/ IgnoreMessage(n, t)
             \/ ResendMessage(n) \/ Reject(n) \/ Save(n) \/ Crash(n) \/ Restart(n)
             \/ Resumes(n) \/ PayTimeout(n) \/ PayTick(n) \/ PayReturn(n)
    BY <2>1
    DEF StartSwap, ReceiveRequest, NewSwap, RefuseRequest, ReceiveMessage,
        IgnoreMessage, ResendMessage, Reject, Save, Crash, Restart, Resumes,
        PayTimeout, PayTick, PayReturn
  <2>2. CASE \/ Timeout(n) \/ FeeInvoicePaid(n) \/ ClaimInvoicePaid(n)
             \/ OnCsvPassed(n) \/ RpcTxConfirmed(n) \/ LndTxConfirmed(n)
    BY <2>2
    DEF Timeout, FeeInvoicePaid, ClaimInvoicePaid, OnCsvPassed, RpcTxConfirmed,
        LndTxConfirmed, Callback
  <2> QED BY <1>1, <2>1, <2>2 DEF Other
<1>2. ASSUME NEW n \in Node, Acts(n)
      PROVE  crashes' = crashes
  BY <1>2 DEF Acts, Runs
<1>3. CASE LoseMessage \/ ResolveHtlc \/ Tick
  BY <1>3 DEF LoseMessage, ResolveHtlc, Tick
<1>4. TypeOK
  BY DEF Inv
<1> QED BY <1>1, <1>2, <1>3, <1>4, StepKinds

\* The broadcast with one crash: the first, and the record is the old one.
LEMMA OneCrashBroadcast ==
  ASSUME CauseInv, OneCrashOnce,
         NEW locked \in BOOLEAN, NEW r \in ActionResult,
         Runs("maker", "BroadcastOpeningTx", locked, r),
         ~data["maker"].openTx, r = "ActionSucceeded", data'["maker"].openTx,
         chain'.opens = chain.opens + 1
  PROVE  OneCrashOnce'
<1>a. "maker" \in Node /\ Inv /\ "BroadcastOpeningTx" \in State
  BY DEF Node, CauseInv, State, MakerState
<1>b. ChainOK
  BY TypeParts, WorldParts DEF CauseInv, Inv
<1>c. Waits # "BroadcastOpeningTx" /\ "BroadcastOpeningTx" \notin Canceled
      /\ Trigger # "ActionFailed"
      /\ (SwapType = "in" => Trigger = "OnAgreementReceived")
  BY DEF Waits, Canceled, Trigger
<1>d. /\ ev'["maker"] = r /\ disk' = disk /\ crashes' = crashes
      /\ disk["maker"].cur = cur["maker"] /\ disk["maker"].data = data["maker"]
      /\ pc'["maker"] = AfterAction(r, IF locked THEN "save" ELSE "rsave")
  BY <1>a, RunFacts, SMT, SMTT(20)
<1>1. CASE locked
  <2>1. pc["maker"] = "event" /\ cur["maker"] = Waits /\ ev["maker"] = Trigger
    BY <1>1, TableOnce DEF Runs
  <2>2. ~Stale
    BY <1>c, <2>1, TableOnce DEF Stale, Posted, Canceled, Waits
  <2>3. chain.opens = 0
    BY <2>2 DEF OneCrashOnce
  <2>4. Old(disk["maker"].cur, disk["maker"].data)
    BY <1>c, <1>d, <2>1 DEF OneCrashOnce, Posted, Old
  <2>5. pc'["maker"] = "save"
    BY <1>1, <1>d DEF AfterAction
  <2> QED BY <1>d, <2>3, <2>4, <2>5, SMT, SMTT(20) DEF OneCrashOnce, Up, Posted, Old
<1>2. CASE ~locked
  <2>1. pc["maker"] = "recover" /\ cur["maker"] = "BroadcastOpeningTx"
    BY <1>2 DEF Runs
  <2>2. ~Stale /\ crashes # 0
    BY <1>c, <2>1 DEF Stale, OneCrashOnce, Up
  <2>3. chain.opens = 0
    BY <2>2 DEF OneCrashOnce
  <2>4. pc'["maker"] = "rsave"
    BY <1>2, <1>d DEF AfterAction
  <2> QED BY <1>d, <2>2, <2>3, <2>4, SMT, SMTT(20) DEF OneCrashOnce, Up, Posted
<1> QED BY <1>1, <1>2

\* A maker past its crash makes no other transaction.
LEMMA StaleStep ==
  ASSUME CauseInv, OneCrashOnce, Stale, Next, MaxCrashes <= 1
  PROVE  Stale'
<1>a. "maker" \in Node /\ Inv /\ ResultInv /\ TypeOK
  BY DEF Node, CauseInv, Inv
<1>b. crashes \in 0..MaxCrashes /\ MaxCrashes \in Nat
  BY <1>a, SwapAssumption DEF TypeOK
<1>c. ~Crash("maker")
  BY <1>b, SMT, SMTT(20) DEF Crash, Stale
<1>d. crashes' # 0
  BY <1>a, <1>b, CrashCount, SMT, SMTT(20) DEF Stale
<1>1. CASE Same("maker")
  BY <1>1, <1>d DEF Same, Stale, Posted, Waits
<1>2. CASE Acts("maker")
  <2>1. PICK s \in State, locked \in BOOLEAN, r \in ActionResult : Runs("maker", s, locked, r)
    BY <1>2 DEF Acts
  <2>2. cur'["maker"] = s /\ ev'["maker"] = r
    BY <1>a, <2>1, RunFacts, SMT, SMTT(20)
  <2>3. CASE locked
    <3>1. s \in NextStates(SwapType, "maker", cur["maker"], ev["maker"]) /\ pc["maker"] = "event"
      BY <2>1, <2>3 DEF Runs
    <3>2. cur["maker"] \in Canceled \/ (cur["maker"] = Waits /\ ev["maker"] # Trigger)
      BY <3>1 DEF Stale, Posted, Trigger
    <3>3. s \in Canceled
      BY <3>1, <3>2, TableOnce
    <3> QED BY <1>d, <2>2, <3>3 DEF Stale
  <2>4. CASE ~locked
    <3>1. s = cur["maker"] /\ s \notin FailOnrecover(SwapType, "maker") /\ pc["maker"] = "recover"
      BY <2>1, <2>4 DEF Runs
    <3>2. cur["maker"] \in Canceled \/ (SwapType = "in" /\ cur["maker"] = Waits /\ data["maker"].agreed)
      BY <3>1 DEF Stale, FailOnrecover, Waits
    <3>3. data["maker"].agreed => data'["maker"].agreed
      BY <1>a, <1>c, DataKept
    <3>4. ~Posted("maker", "OnAgreementReceived")'
      BY <2>2 DEF Posted, ActionResult
    <3> QED BY <1>d, <2>2, <3>1, <3>2, <3>3, <3>4 DEF Stale, Waits
  <2> QED BY <2>3, <2>4
<1>3. CASE Other("maker")
  <2>1. cur'["maker"] = cur["maker"]
    BY <1>a, <1>c, <1>3, OtherControl
  <2>2. CASE cur["maker"] \in Canceled
    BY <1>d, <2>1, <2>2 DEF Stale
  <2>3. CASE /\ SwapType = "out" /\ cur["maker"] = Waits
             /\ pc["maker"] \in {"down", "recover"}
    <3>1. cur["maker"] \notin Finished /\ cur["maker"] # "Default"
      BY <2>3 DEF Waits, Finished
    <3>2. pc'["maker"] \in {"down", "recover"} \/ Posted("maker", "ActionFailed")'
      BY <1>a, <1>c, <1>3, <2>3, <3>1, Down
    <3> QED BY <1>d, <2>1, <2>3, <3>2 DEF Stale, Waits
  <2>4. CASE /\ SwapType = "out" /\ cur["maker"] = Waits /\ Posted("maker", "ActionFailed")
    <3>1. NextStates(SwapType, "maker", cur["maker"], ev["maker"]) # {}
      BY <2>4, TableOnce DEF Waits, Posted
    <3>2. Posted("maker", "ActionFailed")'
      BY <1>a, <1>c, <1>3, <2>4, <3>1, Busy DEF Posted
    <3> QED BY <1>d, <2>1, <2>4, <3>2 DEF Stale, Waits
  <2>5. CASE /\ SwapType = "in" /\ cur["maker"] = Waits /\ data["maker"].agreed
             /\ ~Posted("maker", "OnAgreementReceived")
    <3>1. data'["maker"].agreed
      BY <1>a, <1>c, <2>5, DataKept
    <3>2. "OnAgreementReceived" \in OnEvent
      BY DEF OnEvent, Event, ActionResult
    <3>3. ~Posted("maker", "OnAgreementReceived")'
      BY <1>a, <1>3, <2>5, <3>2, PostedCause
    <3> QED BY <1>d, <2>1, <2>5, <3>1, <3>3 DEF Stale, Waits
  <2> QED BY <2>2, <2>3, <2>4, <2>5 DEF Stale
<1> QED BY <1>a, <1>1, <1>2, <1>3, NodeKinds

\* The crash right after the broadcast leaves the old record.
LEMMA OneCrashCrash ==
  ASSUME CauseInv, OneCrashOnce, Next, Crash("maker"), MaxCrashes <= 1
  PROVE  OneCrashOnce'
<1>a. "maker" \in Node /\ Inv /\ TypeOK
  BY DEF Node, CauseInv, Inv
<1>b. PcOK /\ EvOK /\ CurOK /\ DataOK /\ crashes \in 0..MaxCrashes /\ MaxCrashes \in Nat
  BY <1>a, TypeParts, WorldParts, SwapAssumption DEF TypeOK
<1>1. /\ crashes = 0 /\ crashes' # 0 /\ disk' = disk /\ chain' = chain
      /\ pc'["maker"] = "down" /\ cur'["maker"] = disk["maker"].cur
      /\ data'["maker"] = disk["maker"].data
  BY <1>a, <1>b, SMT, SMTT(20) DEF Crash, PcOK, CurOK, DataOK
<1>2. ~Stale
  BY <1>1 DEF Stale
<1>3. chain.opens # 0 => data'["maker"].openTx \/ Stale'
  <2>1. SUFFICES ASSUME chain.opens # 0, ~disk["maker"].data.openTx
                 PROVE  Stale'
    BY <1>1
  <2>2. Old(disk["maker"].cur, disk["maker"].data)
    BY <1>1, <1>2, <2>1 DEF OneCrashOnce
  <2>3. SwapType \in {"out", "in"}
    BY SwapAssumption
  <2> QED BY <1>1, <2>2, <2>3 DEF Stale, Old, Posted, Waits
<1>4. ~Posted("maker", "OnAgreementReceived")'
  BY <1>1 DEF Posted
<1> QED BY <1>1, <1>3, <1>4 DEF OneCrashOnce

\* OneCrashOnce is preserved.
LEMMA OneCrashOnceStep ==
  ASSUME CauseInv, OneCrashOnce, Next, MaxCrashes <= 1, "rpcFails" \notin Faults
  PROVE  OneCrashOnce'
<1>a. "maker" \in Node /\ Inv /\ ResultInv /\ MessageInv
  BY DEF Node, CauseInv
<1>b. DiskOK /\ DataOK /\ ChainOK /\ NodeInv("maker")
  BY <1>a, TypeParts, WorldParts DEF Inv
<1>c. \A n \in Node : Kept(n)
  BY <1>a, InvStep
<1>1. CASE Crash("maker")
  BY <1>1, OneCrashCrash
<1>2. CASE \E locked \in BOOLEAN, r \in ActionResult :
             /\ Runs("maker", "BroadcastOpeningTx", locked, r)
             /\ ~data["maker"].openTx /\ chain'.opens = chain.opens + 1
             /\ r = "ActionSucceeded" /\ data'["maker"].openTx
  BY <1>2, OneCrashBroadcast
<1>3. CASE ~Crash("maker") /\ chain'.opens = chain.opens
  <2>1. chain'.opens # 0 => data'["maker"].openTx \/ Stale'
    BY <1>a, <1>3, DataKept, StaleStep DEF OneCrashOnce
  <2>2. crashes' = 0 => crashes = 0
    <3>1. crashes \in Nat
      BY <1>a, SMT, SMTT(20) DEF Inv, TypeOK
    <3> QED BY <1>a, <3>1, CrashCount, SMT, SMTT(20)
  <2>3. data'["maker"].openTx => data["maker"].openTx
    <3>1. CASE Same("maker")
      BY <3>1 DEF Same
    <3>2. CASE Acts("maker")
      <4>1. PICK s \in State, locked \in BOOLEAN, r \in ActionResult : Runs("maker", s, locked, r)
        BY <3>2 DEF Acts
      <4>2. Execute("maker", s, locked, r)
        BY <4>1 DEF Runs
      <4>3. chain.opens + 1 # chain.opens
        BY <1>b, SMT, SMTT(20) DEF ChainOK
      <4>4. chain' # [chain EXCEPT !.open = "mempool", !.conf = 0, !.opens = @ + 1]
        BY <1>3, <1>b, <4>3 DEF ChainOK
      <4>5. \/ data'["maker"] = data["maker"]
            \/ data'["maker"] = [data["maker"] EXCEPT !.claimTx = TRUE]
            \/ data'["maker"] = [data["maker"] EXCEPT !.anchor = chain.height]
        <5>1. \/ data'["maker"] = data["maker"]
              \/ data'["maker"] = [data["maker"] EXCEPT !.claimTx = TRUE]
              \/ /\ data'["maker"] = [data["maker"] EXCEPT !.openTx = TRUE]
                 /\ s = "BroadcastOpeningTx"
                 /\ chain' = [chain EXCEPT !.open = "mempool", !.conf = 0, !.opens = @ + 1]
              \/ /\ data'["maker"] = [data["maker"] EXCEPT !.anchor = chain.height]
                 /\ \/ s = "CreateSwap" /\ Chain = "lbtc"
                    \/ /\ s = "AwaitTxBroadcastedMessage" /\ Chain = "btc"
                       /\ data["maker"].anchor = 0
          BY <1>a, <1>b, <4>2, ActionData
        <5> QED BY <4>4, <5>1
      <4>6. data["maker"] \in Data
        BY <1>a, <1>b DEF DataOK
      <4> QED BY <4>5, <4>6 DEF Data
    <3>3. CASE Other("maker")
      <4>1. data["maker"] \in Data
        BY <1>a, <1>b DEF DataOK
      <4>2. CASE data'["maker"] = [data["maker"] EXCEPT !.preimage = TRUE]
        BY <4>1, <4>2 DEF Data
      <4>3. ASSUME NEW t \in MessageType, <<"maker", t>> \in net,
                   data'["maker"] = ApplyToSwapData(data["maker"], t)
            PROVE  data'["maker"].openTx => data["maker"].openTx
        BY <1>a, <4>1, <4>3, ApplyFields DEF MessageInv
      <4> QED BY <1>a, <1>3, <3>3, <4>2, <4>3, OtherData
    <3> QED BY <1>a, <3>1, <3>2, <3>3, NodeKinds
  <2>4. crashes' = 0 /\ data'["maker"].openTx /\ ~disk'["maker"].data.openTx
          => Old(disk'["maker"].cur, disk'["maker"].data)
    <3>1. SUFFICES ASSUME crashes' = 0, data'["maker"].openTx, ~disk'["maker"].data.openTx
                   PROVE  Old(disk'["maker"].cur, disk'["maker"].data)
      OBVIOUS
    <3>2. data["maker"].openTx /\ ~disk["maker"].data.openTx
      BY <1>a, <1>c, <2>3, <3>1 DEF Kept
    <3>3. Old(disk["maker"].cur, disk["maker"].data)
      BY <2>2, <3>1, <3>2 DEF OneCrashOnce
    <3>4. CASE disk'["maker"] = disk["maker"]
      BY <3>3, <3>4
    <3>5. CASE disk'["maker"] # disk["maker"]
      <4>1. Other("maker")
        BY <1>a, <3>5, NodeKinds, RunFacts DEF Same, Acts
      <4>2. CASE disk' = [disk EXCEPT !["maker"] = [cur |-> cur["maker"], data |-> data'["maker"]]]
        BY <1>a, <1>b, <3>1, <4>2 DEF DiskOK
      <4>3. disk["maker"].cur # "Absent"
        BY <3>3 DEF Old, Waits
      <4> QED BY <1>a, <3>5, <4>1, <4>2, <4>3, OtherControl
    <3> QED BY <3>4, <3>5
  <2>5. crashes' = 0 => Up("maker")'
    BY <1>a, <1>3, <2>2, UpStep DEF OneCrashOnce
  <2>6. SwapType = "in" /\ Posted("maker", "OnAgreementReceived")' => data'["maker"].agreed
    <3>1. "OnAgreementReceived" \in OnEvent
      BY DEF OnEvent, Event, ActionResult
    <3>2. Posted("maker", "OnAgreementReceived")' /\ ~Posted("maker", "OnAgreementReceived")
            => data'["maker"].agreed
      BY <1>a, <3>1, PostedNew, PostedCause
    <3> QED BY <1>a, <1>3, <3>2, DataKept DEF OneCrashOnce
  <2>7. Waits' = Waits
    BY DEF Waits
  <2> QED BY <1>3, <2>1, <2>4, <2>5, <2>6, <2>7 DEF OneCrashOnce, Old
<1> QED BY <1>a, <1>1, <1>2, <1>3, OpenCause

\* The maker funds the swap once: without crashes whatever else fails, and
\* through one crash at any point if GetBlockHeight does not fail.  A crash
\* between the broadcast and the write of the record is the hard case: the
\* record is the one from before, which FailOnrecover, or the agreement that is
\* in it, keeps from leading to a second broadcast.
THEOREM FundedOnce ==
  ASSUME "crash" \notin Faults \/ (MaxCrashes <= 1 /\ "rpcFails" \notin Faults)
  PROVE  Spec => []OneOpeningTx
<1> DEFINE Once == IF "crash" \notin Faults THEN NoCrashOnce ELSE OneCrashOnce
<1>1. Init => CauseInv /\ Once
  <2>1. Init => /\ chain.opens = 0 /\ pc["maker"] = "none" /\ ~data["maker"].openTx
    BY SMT, SMTT(20) DEF Init, Node, NewData
  <2> QED BY <2>1, CauseInit, SMT, SMTT(20) DEF NoCrashOnce, OneCrashOnce, Up, Posted
<1>2. CauseInv /\ Once /\ [Next]_vars => (CauseInv /\ Once)'
  <2>1. NoCrashOnce /\ UNCHANGED vars => NoCrashOnce'
    BY DEF NoCrashOnce, Up, vars
  <2>2. OneCrashOnce /\ UNCHANGED vars => OneCrashOnce'
    BY SMT, SMTT(20) DEF OneCrashOnce, Up, Posted, Stale, Old, Waits, vars
  <2> QED BY <2>1, <2>2, CauseStep, NoCrashOnceStep, OneCrashOnceStep
<1>3. CauseInv /\ Once => OneOpeningTx
  BY DEF NoCrashOnce, OneCrashOnce, OneOpeningTx
<1> QED BY <1>1, <1>2, <1>3, PTL DEF Spec
-----------------------------------------------------------------------------
(* The payment window of Bitcoin. *)

\* The states before it, all with FailOnrecover, and the taker's states until it
\* has set its anchor.
Failing == {"CreateSwap"} \cup
             (IF SwapType = "out" THEN {"SendRequest", "AwaitAgreement"} ELSE {})
Early == Failing \cup {Working, "AwaitTxBroadcastedMessage"}

\* What the maker waits for before it opens the swap.
Committed == IF SwapType = "out" THEN ln.fee ELSE Commitment \in wire

\* The early states follow each other, a failure leads out of those before the
\* commitment, and none leads to a state whose action does not return.
LEMMA TableEarly ==
  ASSUME NEW s, NEW e, NEW t \in NextStates(SwapType, "taker", s, e)
  PROVE  /\ t # "Default"
         /\ t \in Early => s \in Early \cup {"Default"}
         /\ t \in Failing => s = "Default" \/ (s \in Failing /\ e # "ActionFailed")
         /\ t = Working => s \in Failing
         /\ t = "AwaitTxBroadcastedMessage" => s = Working
         /\ s \in Early => t # "ValidateTxAndPayClaimInvoice"
<1> DEFINE Before(type) ==
      {"CreateSwap"} \cup (IF type = "out" THEN {"SendRequest", "AwaitAgreement"} ELSE {})
    P(u, type, working) ==
      /\ u[3] # "Default"
      /\ u[3] \in Before(type) \cup {working, "AwaitTxBroadcastedMessage"}
           => u[1] \in Before(type) \cup {working, "AwaitTxBroadcastedMessage", "Default"}
      /\ u[3] \in Before(type) =>
           u[1] = "Default" \/ (u[1] \in Before(type) /\ u[2] # "ActionFailed")
      /\ u[3] = working => u[1] \in Before(type)
      /\ u[3] = "AwaitTxBroadcastedMessage" => u[1] = working
      /\ u[1] \in Before(type) \cup {working, "AwaitTxBroadcastedMessage"}
           => u[3] # "ValidateTxAndPayClaimInvoice"
<1>1. \A u \in SwapOutSenderStates : P(u, "out", "PayFeeInvoice")
  BY SMT, SMTT(20) DEF SwapOutSenderStates, SendCancelEvents
<1>2. \A u \in SwapInReceiverStates : P(u, "in", "SendAgreement")
  BY SMT, SMTT(20) DEF SwapInReceiverStates, SendCancelEvents
<1>3. \A u \in States(SwapType, "taker") : P(u, SwapType, Working)
  BY <1>1, <1>2, SwapAssumption DEF States, Working
<1>4. PICK u \in States(SwapType, "taker") : u[1] = s /\ u[2] = e /\ u[3] = t
  BY DEF NextStates, Lookup
<1>5. P(u, SwapType, Working)
  BY <1>3
<1> QED BY <1>4, <1>5 DEF Early, Failing

\* Each of them has an entry for failure.
LEMMA EarlyFails ==
  ASSUME NEW s \in Early
  PROVE  NextStates(SwapType, "taker", s, "ActionFailed") # {}
<1>1. \E t : <<s, "ActionFailed", t>> \in States(SwapType, "taker")
  <2>1. CASE SwapType = "in"
    BY <2>1 DEF States, SwapInReceiverStates, Early, Failing, Working
  <2>2. CASE SwapType = "out"
    BY <2>2 DEF States, SwapOutSenderStates, Early, Failing, Working
  <2> QED BY <2>1, <2>2, SwapAssumption
<1> QED BY <1>1, SMT, SMTT(20) DEF NextStates, Lookup

\* What the taker's actions return.
LEMMA EarlyResult ==
  ASSUME WorldOK, Chain = "btc", NEW s \in TakerState, NEW locked \in BOOLEAN,
         NEW r \in ActionResult, Execute("taker", s, locked, r)
  PROVE  /\ s = Working => r \in Result
         /\ s = "AwaitTxBroadcastedMessage" /\ data'["taker"].anchor = 0
              => r = "ActionFailed"
         /\ r = "Loop" => s = "ValidateTxAndPayClaimInvoice"
         /\ r # "Block"
<1>a. /\ DataOK /\ chain.height # 0 /\ "taker" \in Node /\ s \in State
      /\ s \notin {"AwaitClaimPayment", "WaitCsv"}
  BY WorldParts DEF WorldOK, Node, State, TakerState
<1>1. s = Working => r \in Result
  BY DEF Working, Execute, SendMessageAction, PayFeeInvoiceAction, Result, Finished
<1>2. s = "AwaitTxBroadcastedMessage" /\ data'["taker"].anchor = 0 => r = "ActionFailed"
  BY <1>a DEF Execute, SetStartingBlockHeightAction, InPaymentWindow, DataOK, Data, Finished
<1>3. r = "Loop" => s = "ValidateTxAndPayClaimInvoice"
  BY <1>a, ExecutePay
<1>4. r # "Block"
  BY <1>a
  DEF Execute, CreateSwapAction, SendMessageAction,
      SendMessageWithRetryAction, PayFeeInvoiceAction,
      TakerSendPrivkeyAction, SetStartingBlockHeightAction,
      AwaitTxConfirmationAction, ValidateTxAndPayClaimInvoiceAction,
      CreateAndBroadcastOpeningTransaction,
      AwaitFeeInvoicePayment, Claim, ClaimSwapTransactionWithPreimageAction,
      ClaimSwapTransactionCoop, ClaimSwapTransactionWithCsv, DoneAction
<1> QED BY <1>1, <1>2, <1>3, <1>4

\* The fee is paid in PayFeeInvoice, by the taker, once and for all.
LEMMA FeeCause ==
  ASSUME Inv, Next
  PROVE  /\ ln.fee => ln'.fee
         /\ ln'.fee /\ ~ln.fee => Acts("taker") /\ cur'["taker"] = "PayFeeInvoice"
<1>a. TypeOK /\ WorldOK /\ LnOK
  BY TypeParts, WorldParts DEF Inv
<1>1. CASE LoseMessage \/ ResolveHtlc \/ Tick
  BY <1>1, <1>a, WorldStep
<1>2. ASSUME NEW n \in Node, Other(n)
      PROVE  ln'.fee = ln.fee
  BY <1>2, <1>a, OtherWorld DEF LnOK
<1>3. ASSUME NEW n \in Node, Acts(n)
      PROVE  /\ ln.fee => ln'.fee
             /\ ln'.fee /\ ~ln.fee => Acts("taker") /\ cur'["taker"] = "PayFeeInvoice"
  <2>1. PICK s \in State, locked \in BOOLEAN, r \in ActionResult : Runs(n, s, locked, r)
    BY <1>3 DEF Acts
  <2>2. Execute(n, s, locked, r)
    BY <2>1 DEF Runs
  <2>3. (ln.fee => ln'.fee) /\ (ln'.fee /\ ~ln.fee => s = "PayFeeInvoice")
    BY <1>a, <2>2, ExecutePay
  <2>4. cur'[n] = s /\ (n = "maker" => s \in MakerState)
    BY <2>1, RunFacts, SMT, SMTT(20)
  <2>5. s = "PayFeeInvoice" => n = "taker"
    BY <2>4 DEF MakerState, Node
  <2> QED BY <1>3, <2>3, <2>4, <2>5
<1> QED BY <1>a, <1>1, <1>2, <1>3, StepKinds

\* The taker commits itself in the state that is there for it, for good.
LEMMA CommitCause ==
  ASSUME Inv, Next
  PROVE  /\ Committed => Committed'
         /\ Committed' /\ ~Committed => Acts("taker") /\ cur'["taker"] = Working
<1>1. CASE SwapType = "out"
  BY <1>1, FeeCause DEF Committed, Working
<1>2. CASE SwapType = "in"
  <2>1. Commitment = <<Peer("taker"), "agreement">> /\ Commitment' = Commitment
    BY <1>2 DEF Commitment, Peer
  <2>2. "taker" \in Node /\ cur'["taker"] # "SendFeeInvoice"
    <3>1. Inv'
      BY InvStep
    <3> QED BY <3>1 DEF Inv, NodeInv, ControlAt, TakerState, Node
  <2>3. Commitment \in wire' \ wire => Acts("taker") /\ cur'["taker"] = "SendAgreement"
    BY <2>1, <2>2, Messages DEF Sent
  <2>4. wire \subseteq wire'
    BY Messages
  <2> QED BY <1>2, <2>1, <2>3, <2>4 DEF Committed, Working
<1> QED BY <1>1, <1>2, SwapAssumption

\* The maker of a swap-out funds it after the fee payment.
FeeInv ==
  SwapType = "out" =>
    /\ Posted("maker", "OnFeeInvoicePaid") => ln.fee
    /\ {cur["maker"], disk["maker"].cur} \cap Funded # {} => ln.fee
    /\ chain.open # "none" => ln.fee

\* FeeInv is preserved.
LEMMA FeeStep ==
  ASSUME Inv, ResultInv, FeeInv, Next
  PROVE  FeeInv'
<1> SUFFICES ASSUME SwapType = "out"
             PROVE  /\ Posted("maker", "OnFeeInvoicePaid")' => ln'.fee
                    /\ {cur'["maker"], disk'["maker"].cur} \cap Funded # {} => ln'.fee
                    /\ chain'.open # "none" => ln'.fee
  BY DEF FeeInv
<1>a. "maker" \in Node /\ "Default" \notin Funded
  BY DEF Node, Funded
<1>b. ln.fee => ln'.fee
  BY FeeCause
<1>1. Posted("maker", "OnFeeInvoicePaid")' => ln'.fee
  <2>1. "OnFeeInvoicePaid" \in OnEvent
    BY DEF OnEvent, Event, ActionResult
  <2>2. Posted("maker", "OnFeeInvoicePaid")' /\ ~Posted("maker", "OnFeeInvoicePaid")
          => ln.fee
    BY <1>a, <2>1, PostedNew, PostedCause
  <2> QED BY <1>b, <2>2 DEF FeeInv
<1>2. cur'["maker"] \in Funded => ln'.fee
  <2>1. CASE cur'["maker"] \in {cur["maker"], disk["maker"].cur}
    BY <1>b, <2>1 DEF FeeInv
  <2>2. CASE /\ pc["maker"] = "event" /\ disk["maker"].cur # "Absent"
             /\ cur'["maker"] \in NextStates(SwapType, "maker", cur["maker"], ev["maker"])
    <3>1. cur'["maker"] \in Funded =>
            cur["maker"] \in Funded \/ ev["maker"] = "OnFeeInvoicePaid"
      BY <1>a, <2>2, TableCauses, SMT, SMTT(20)
    <3> QED BY <1>b, <2>2, <3>1 DEF FeeInv, Posted
  <2> QED BY <1>a, <2>1, <2>2, StateCause
<1>3. disk'["maker"].cur \in Funded => ln'.fee
  <2>1. disk'["maker"].cur \in {disk["maker"].cur, cur["maker"], "Default"}
    BY <1>a, StateCause
  <2> QED BY <1>a, <1>b, <2>1 DEF FeeInv
<1>4. chain'.open # "none" => ln'.fee
  <2>1. chain.open = "none" /\ chain'.open # "none" => cur'["maker"] \in Funded
    BY Stable DEF Funded
  <2> QED BY <1>b, <1>2, <2>1 DEF FeeInv
<1> QED BY <1>1, <1>2, <1>3, <1>4

\* The opening transaction is there only when the taker is committed.
LEMMA OpenCommitted ==
  ASSUME CommitInv, FeeInv, chain.open # "none"
  PROVE  Committed
BY SwapAssumption DEF CommitInv, FeeInv, Committed

\* A state before the anchor is set, in the memory or in the record.
Unanchored(s, d) == s \in Early /\ d.anchor = 0
NoAnchor == \/ Unanchored(cur["taker"], data["taker"])
            \/ Unanchored(disk["taker"].cur, disk["taker"].data)

\* The taker has run the action that commits it, or that failed to set the anchor.
Undecided == \/ cur["taker"] = Working
             \/ cur["taker"] = "AwaitTxBroadcastedMessage" /\ data["taker"].anchor = 0

\* The taker has work to do, or is down: unless blocks are slow none comes.
AtWork == pc["taker"] \in {"event", "save", "rsave", "down", "recover"}

\* A taker that is committed has no rest before it has an anchor, so that the
\* opening transaction does not confirm before.  It is past its start, it fails
\* if a crash took it back to before the commitment, and it has the result of the
\* action that commits it, or that failed to set the anchor.
EarlyInv ==
  /\ Committed /\ NoAnchor => AtWork /\ chain.open # "confirmed"
  /\ Committed => disk["taker"].cur \notin {"Absent", "Default"} /\ cur["taker"] # "Default"
  /\ Committed /\ cur["taker"] \in Failing =>
       pc["taker"] \in {"down", "recover"} \/ Posted("taker", "ActionFailed")
  /\ Undecided => \/ pc["taker"] \in {"down", "recover"}
                  \/ /\ pc["taker"] \in {"event", "save", "rsave"}
                     /\ ev["taker"] \in Result
                     /\ cur["taker"] # Working => ev["taker"] = "ActionFailed"
  /\ chain.open = "confirmed" =>
       data["taker"].anchor < chain.conf /\ disk["taker"].data.anchor < chain.conf

\* A transaction is confirmed by a block, which comes when both nodes are quiet.
LEMMA QuietConfirm ==
  ASSUME Inv, Next, "slow" \notin Faults,
         chain.open # "confirmed", chain'.open = "confirmed"
  PROVE  ~AtWork
<1>a. TypeOK /\ ChainOK /\ LnOK
  BY TypeParts, WorldParts DEF Inv
<1>1. ASSUME NEW n \in Node
      PROVE  ~Acts(n) /\ ~Other(n)
  <2>1. ASSUME Other(n)
        PROVE  FALSE
    <3>1. chain' = chain
      BY <2>1, OtherWorld
    <3> QED BY <3>1
  <2>2. ASSUME NEW s \in State, NEW locked \in BOOLEAN, NEW r \in ActionResult,
               Execute(n, s, locked, r)
        PROVE  FALSE
    <3>1. \/ chain' = chain \/ \E x : chain' = [chain EXCEPT !.spent = x]
          \/ chain' = [chain EXCEPT !.open = "mempool", !.conf = 0, !.opens = @ + 1]
      BY <2>2, ExecuteChain
    <3>2. chain'.open \in {chain.open, "mempool"}
      BY <1>a, <3>1 DEF ChainOK
    <3> QED BY <3>2
  <2> QED BY <2>1, <2>2 DEF Acts, Runs
<1>2. Tick
  BY <1>a, <1>1, StepKinds, WorldStep
<1> QED BY <1>2 DEF Tick, Quiet, Node, AtWork

\* EarlyInv is preserved by the steps that leave the taker alone.
LEMMA EarlySame ==
  ASSUME CauseInv, EarlyInv, Next, "slow" \notin Faults,
         Same("taker"), Committed' => Committed
  PROVE  EarlyInv'
<1>a. Inv /\ ChainOK /\ DataOK /\ DiskOK /\ "taker" \in Node
  BY TypeParts, WorldParts DEF CauseInv, Inv, Node
<1>b. /\ data["taker"].anchor \in Nat /\ disk["taker"].data.anchor \in Nat
      /\ chain.height \in Nat /\ chain.conf \in Nat
  BY <1>a DEF ChainOK, DataOK, DiskOK, Data
<1>1. (Committed /\ NoAnchor)' => AtWork' /\ chain'.open # "confirmed"
  <2> SUFFICES ASSUME (Committed /\ NoAnchor)'
               PROVE  AtWork' /\ chain'.open # "confirmed"
    OBVIOUS
  <2>1. NoAnchor
    BY DEF Same, NoAnchor, Unanchored, Early, Failing, Working
  <2>2. AtWork /\ chain.open # "confirmed"
    BY <2>1 DEF EarlyInv
  <2>3. AtWork'
    BY <2>2 DEF Same, AtWork
  <2> QED BY <1>a, <2>2, <2>3, QuietConfirm
<1>2. chain'.open = "confirmed" =>
        data'["taker"].anchor < chain'.conf /\ disk'["taker"].data.anchor < chain'.conf
  <2>1. CASE chain.open = "confirmed" /\ chain'.open = "confirmed"
    <3>1. chain'.conf = chain.conf
      BY <1>a, <2>1, Stable
    <3> QED BY <2>1, <3>1 DEF Same, EarlyInv
  <2>2. CASE chain.open # "confirmed" /\ chain'.open = "confirmed"
    <3>1. chain'.conf = chain.height + 1
      BY <1>a, <2>2, Stable
    <3>2. data["taker"].anchor <= chain.height /\ disk["taker"].data.anchor <= chain.height
      BY DEF CauseInv, AnchorInv
    <3> QED BY <1>b, <3>1, <3>2, SMT, SMTT(20) DEF Same
  <2> QED BY <2>1, <2>2
<1> QED BY <1>1, <1>2 DEF Same, EarlyInv, Posted, Undecided, Working, Failing

\* The record after a step of the taker without an action.
LEMMA OtherRecord ==
  ASSUME Inv, Other("taker")
  PROVE  \/ disk'["taker"] = disk["taker"]
         \/ disk'["taker"] = [cur |-> cur["taker"], data |-> data'["taker"]]
         \/ /\ disk'["taker"] = [cur |-> "Default", data |-> NewData]
            /\ disk["taker"].cur = "Absent"
<1>1. DiskOK /\ "taker" \in Node
  BY TypeParts DEF Inv, Node
<1>2. \/ disk' = disk
      \/ disk' = [disk EXCEPT !["taker"] = [cur |-> cur["taker"], data |-> data'["taker"]]]
      \/ /\ disk' = [disk EXCEPT !["taker"] = [cur |-> "Default", data |-> NewData]]
         /\ disk["taker"].cur = "Absent"
  BY <1>1, OtherControl
<1> QED BY <1>1, <1>2 DEF DiskOK

\* EarlyInv is preserved by a crash of the taker.
LEMMA EarlyCrash ==
  ASSUME CauseInv, EarlyInv, Crash("taker"), Committed' => Committed
  PROVE  EarlyInv'
<1>1. PcOK /\ CurOK /\ DataOK /\ DiskOK /\ "taker" \in Node
  BY TypeParts, WorldParts DEF CauseInv, Inv, Node
<1>2. /\ pc'["taker"] = "down" /\ disk' = disk /\ chain' = chain
      /\ cur'["taker"] = disk["taker"].cur /\ data'["taker"] = disk["taker"].data
  BY <1>1 DEF Crash, PcOK, CurOK, DataOK
<1>3. NoAnchor' => NoAnchor
  BY <1>2 DEF NoAnchor, Unanchored, Early, Failing, Working
<1> QED BY <1>2, <1>3 DEF EarlyInv, AtWork, Working, Failing, Posted

\* EarlyInv is preserved when SendEvent goes on.
LEMMA EarlyBusy ==
  ASSUME CauseInv, EarlyInv, Other("taker"), ~Crash("taker"),
         pc["taker"] \in {"event", "save", "rsave"}, Committed' => Committed
  PROVE  EarlyInv'
<1>a. Inv /\ "taker" \in Node /\ DiskOK
  BY TypeParts DEF CauseInv, Inv, Node
<1>b. /\ disk["taker"].cur # "Absent" /\ cur["taker"] # "Absent"
      /\ pc["taker"] = "event" => disk["taker"].cur = cur["taker"] /\ disk["taker"].data = data["taker"]
  BY <1>a DEF Inv, NodeInv, ControlAt, TakerState
<1>1. /\ cur'["taker"] = cur["taker"] /\ data'["taker"] = data["taker"]
      /\ ev'["taker"] = ev["taker"]
      /\ \/ pc'["taker"] = pc["taker"]
         \/ /\ pc["taker"] = "event"
            /\ NextStates(SwapType, "taker", cur["taker"], ev["taker"]) = {}
         \/ /\ pc["taker"] \in {"save", "rsave"}
            /\ ev["taker"] \notin {"NoOp", "Done", "OnRetry"} => pc'["taker"] = "event"
            /\ disk'["taker"] = [cur |-> cur["taker"], data |-> data["taker"]]
  BY <1>a, Busy
<1>2. chain' = chain
  BY <1>a, OtherWorld
<1>3. \/ disk'["taker"] = disk["taker"]
      \/ disk'["taker"] = [cur |-> cur["taker"], data |-> data["taker"]]
  BY <1>a, <1>b, <1>1, OtherRecord
<1>4. NoAnchor' => NoAnchor
  BY <1>1, <1>3, SMT, SMTT(20) DEF NoAnchor, Unanchored, Early, Failing, Working
<1>5. ASSUME Undecided
      PROVE  /\ pc'["taker"] \in {"event", "save", "rsave"}
             /\ ev["taker"] \in Result
             /\ cur["taker"] # Working => ev["taker"] = "ActionFailed"
  <2>1. /\ ev["taker"] \in Result
        /\ cur["taker"] # Working => ev["taker"] = "ActionFailed"
    BY <1>5 DEF EarlyInv
  <2>2. NextStates(SwapType, "taker", cur["taker"], ev["taker"]) # {}
    <3>1. CASE cur["taker"] = Working
      BY <2>1, <3>1, TableWork
    <3>2. CASE cur["taker"] # Working
      BY <1>5, <2>1, <3>2, EarlyFails DEF Early, Undecided
    <3> QED BY <3>1, <3>2
  <2> QED BY <1>1, <2>1, <2>2 DEF Result
<1>6. ASSUME Committed, cur["taker"] \in Failing
      PROVE  pc'["taker"] = "event" /\ ev["taker"] = "ActionFailed"
  <2>1. pc["taker"] = "event" /\ ev["taker"] = "ActionFailed"
    BY <1>6 DEF EarlyInv, Posted
  <2>2. NextStates(SwapType, "taker", cur["taker"], ev["taker"]) # {}
    BY <1>6, <2>1, EarlyFails DEF Early
  <2> QED BY <1>1, <2>1, <2>2
<1>7. ASSUME Committed, NoAnchor'
      PROVE  AtWork'
  <2>1. CASE Unanchored(cur["taker"], data["taker"])
    <3>1. Undecided \/ cur["taker"] \in Failing
      BY <2>1 DEF Unanchored, Early, Undecided
    <3> QED BY <1>5, <1>6, <1>7, <3>1 DEF AtWork
  <2>2. CASE ~Unanchored(cur["taker"], data["taker"])
    <3>1. disk'["taker"] # [cur |-> cur["taker"], data |-> data["taker"]]
      BY <1>1, <1>7, <2>2, SMT, SMTT(20) DEF NoAnchor, Unanchored, Early, Failing, Working
    <3>2. pc["taker"] # "event"
      BY <1>b, <1>1, <1>3, <1>7, <2>2, <3>1 DEF NoAnchor, Unanchored, Early, Failing, Working
    <3> QED BY <1>1, <3>1, <3>2 DEF AtWork
  <2> QED BY <2>1, <2>2
<1>8. (Committed /\ NoAnchor)' => AtWork' /\ chain'.open # "confirmed"
  BY <1>2, <1>4, <1>7 DEF EarlyInv
<1>9. /\ Committed' => disk'["taker"].cur \notin {"Absent", "Default"} /\ cur'["taker"] # "Default"
      /\ chain'.open = "confirmed" =>
           data'["taker"].anchor < chain'.conf /\ disk'["taker"].data.anchor < chain'.conf
  BY <1>b, <1>1, <1>2, <1>3, SMT, SMTT(20) DEF EarlyInv
<1>10. Undecided' => Undecided
  BY <1>1 DEF Undecided, Working
<1> QED BY <1>1, <1>5, <1>6, <1>8, <1>9, <1>10 DEF EarlyInv, Posted, Working, Failing

\* EarlyInv is preserved while the taker is down or recovers without an action.
LEMMA EarlyDown ==
  ASSUME CauseInv, EarlyInv, Other("taker"), ~Crash("taker"),
         pc["taker"] \in {"down", "recover"}, Committed' => Committed
  PROVE  EarlyInv'
<1>a. Inv /\ CurOK /\ "taker" \in Node
  BY TypeParts DEF CauseInv, Inv, Node
<1>b. /\ disk["taker"].cur = cur["taker"] /\ disk["taker"].data = data["taker"]
      /\ disk["taker"].cur # "Absent"
  BY <1>a DEF Inv, NodeInv, ControlAt
<1>1. /\ data'["taker"] = data["taker"]
      /\ \/ pc'["taker"] = pc["taker"]
         \/ pc'["taker"] = (IF cur["taker"] \in Finished THEN "none" ELSE "recover")
         \/ cur["taker"] = "Default"
         \/ Posted("taker", "ActionFailed")'
  BY <1>a, Down
<1>2. chain' = chain /\ cur' = cur
  BY <1>a, OtherWorld, OtherControl
<1>3. \/ disk'["taker"] = disk["taker"]
      \/ disk'["taker"] = [cur |-> cur["taker"], data |-> data["taker"]]
  BY <1>a, <1>b, <1>1, OtherRecord
<1>4. disk'["taker"].cur = cur["taker"] /\ disk'["taker"].data = data["taker"]
  BY <1>b, <1>3, SMT, SMTT(20)
<1>5. NoAnchor' => NoAnchor
  BY <1>1, <1>2, <1>4 DEF NoAnchor, Unanchored, Early, Failing, Working
<1>6. Undecided' => Undecided
  BY <1>1, <1>2 DEF Undecided, Working
<1>7. ASSUME cur["taker"] \in Early
      PROVE  pc'["taker"] \in {"down", "recover"} \/ Posted("taker", "ActionFailed")'
  <2>1. cur["taker"] # "Default" /\ cur["taker"] \notin Finished
    BY <1>7 DEF Early, Failing, Working, Finished
  <2> QED BY <1>1, <2>1
<1>8. NoAnchor => cur["taker"] \in Early
  BY <1>b DEF NoAnchor, Unanchored
<1>9. /\ cur["taker"] \in Failing => cur["taker"] \in Early
      /\ Undecided => cur["taker"] \in Early
  BY DEF Early, Undecided
<1>10. (Committed /\ NoAnchor)' => AtWork' /\ chain'.open # "confirmed"
  BY <1>2, <1>5, <1>7, <1>8 DEF EarlyInv, AtWork, Posted
<1>11. Undecided' => \/ pc'["taker"] \in {"down", "recover"}
                     \/ /\ pc'["taker"] \in {"event", "save", "rsave"}
                        /\ ev'["taker"] \in Result
                        /\ cur'["taker"] # Working => ev'["taker"] = "ActionFailed"
  BY <1>6, <1>7, <1>9 DEF Posted, Result
<1>12. (Committed /\ cur["taker"] \in Failing)'
         => pc'["taker"] \in {"down", "recover"} \/ Posted("taker", "ActionFailed")'
  BY <1>2, <1>7, <1>9 DEF Failing
<1>13. /\ Committed' => disk'["taker"].cur \notin {"Absent", "Default"} /\ cur'["taker"] # "Default"
       /\ chain'.open = "confirmed" =>
            data'["taker"].anchor < chain'.conf /\ disk'["taker"].data.anchor < chain'.conf
  BY <1>b, <1>1, <1>2, <1>4 DEF EarlyInv
<1> QED BY <1>10, <1>11, <1>12, <1>13 DEF EarlyInv, Working

\* EarlyInv is preserved by every other step of the taker without an action: a
\* committed taker that takes it is past the early states.
LEMMA EarlyRest ==
  ASSUME CauseInv, FeeInv, EarlyInv, Other("taker"), ~Crash("taker"), ~AtWork,
         Committed' => Committed
  PROVE  EarlyInv'
<1>a. Inv /\ DataOK /\ "taker" \in Node
  BY TypeParts, WorldParts DEF CauseInv, Inv, Node
<1>b. cur["taker"] # "Absent"
  BY <1>a DEF Inv, NodeInv, ControlAt, TakerState
<1>1. chain' = chain /\ cur' = cur
  BY <1>a, OtherWorld, OtherControl
<1>2. data'["taker"].anchor = data["taker"].anchor
  <2>1. \/ data'["taker"] = data["taker"]
        \/ \E t \in MessageType : data'["taker"] = ApplyToSwapData(data["taker"], t)
        \/ data'["taker"] = [data["taker"] EXCEPT !.preimage = TRUE]
    BY <1>a, OtherData
  <2>2. data["taker"] \in Data
    BY <1>a DEF DataOK
  <2> QED BY <2>1, <2>2, ApplyFields, SMT, SMTT(20) DEF Data
<1>3. ~Undecided'
  BY <1>1, <1>2 DEF EarlyInv, AtWork, Undecided, Working
<1>4. ASSUME Committed
      PROVE  /\ ~NoAnchor' /\ cur'["taker"] \notin Failing'
             /\ disk'["taker"].cur \notin {"Absent", "Default"} /\ cur'["taker"] # "Default"
             /\ disk'["taker"].data.anchor \in {disk["taker"].data.anchor, data["taker"].anchor}
  <2>1. ~NoAnchor /\ cur["taker"] \notin Failing
    BY <1>4 DEF EarlyInv, AtWork, Posted
  <2>2. disk["taker"].cur \notin {"Absent", "Default"} /\ cur["taker"] # "Default"
    BY <1>4 DEF EarlyInv
  <2>3. \/ disk'["taker"] = disk["taker"]
        \/ disk'["taker"] = [cur |-> cur["taker"], data |-> data'["taker"]]
    BY <1>a, <2>2, OtherRecord
  <2>4. ~NoAnchor'
    BY <1>1, <1>2, <2>1, <2>3, SMT, SMTT(20) DEF NoAnchor, Unanchored, Early, Failing, Working
  <2> QED BY <1>b, <1>1, <1>2, <2>1, <2>2, <2>3, <2>4, SMT, SMTT(20) DEF Failing
<1>5. chain'.open = "confirmed" =>
        data'["taker"].anchor < chain'.conf /\ disk'["taker"].data.anchor < chain'.conf
  <2>1. chain.open = "confirmed" => Committed
    BY OpenCommitted DEF CauseInv
  <2> QED BY <1>1, <1>2, <1>4, <2>1 DEF EarlyInv
<1> QED BY <1>3, <1>4, <1>5 DEF EarlyInv

\* EarlyInv is preserved by the taker's actions: the one that commits it has its
\* result at once, and the anchor is set before the confirmation.
LEMMA EarlyAct ==
  ASSUME CauseInv, FeeInv, EarlyInv, Next, Chain = "btc",
         NEW s \in State, NEW locked \in BOOLEAN, NEW r \in ActionResult,
         Runs("taker", s, locked, r)
  PROVE  EarlyInv'
<1>a. Inv /\ WorldOK /\ DataOK /\ ChainOK /\ "taker" \in Node
  BY TypeParts, WorldParts DEF CauseInv, Inv, Node
<1>b. /\ cur'["taker"] = s /\ ev'["taker"] = r /\ disk' = disk /\ s \in TakerState
      /\ pc'["taker"] = AfterAction(r, IF locked THEN "save" ELSE "rsave")
      /\ disk["taker"].cur = cur["taker"] /\ disk["taker"].data = data["taker"]
  BY <1>a, RunFacts, SMT, SMTT(20)
<1>c. Execute("taker", s, locked, r)
  BY DEF Runs
<1>d. data["taker"].anchor \in Nat /\ chain.height \in Nat \ {0}
  BY <1>a DEF DataOK, Data, ChainOK
<1>1. chain'.open = chain.open /\ chain'.conf = chain.conf
  <2>1. chain' = chain \/ \E x : chain' = [chain EXCEPT !.spent = x]
    BY <1>a, <1>b, <1>c, ExecuteChain DEF TakerState
  <2> QED BY <1>a, <2>1 DEF ChainOK
<1>2. \/ data'["taker"].anchor = data["taker"].anchor
      \/ /\ data'["taker"].anchor = chain.height /\ data["taker"].anchor = 0
         /\ s = "AwaitTxBroadcastedMessage"
  <2>1. \/ data'["taker"] = data["taker"]
        \/ data'["taker"] = [data["taker"] EXCEPT !.claimTx = TRUE]
        \/ data'["taker"] = [data["taker"] EXCEPT !.openTx = TRUE]
        \/ /\ data'["taker"] = [data["taker"] EXCEPT !.anchor = chain.height]
           /\ s = "AwaitTxBroadcastedMessage" /\ data["taker"].anchor = 0
    BY <1>a, <1>c, ActionData, SMT, SMTT(20)
  <2>2. data["taker"] \in Data
    BY <1>a DEF DataOK
  <2> QED BY <2>1, <2>2 DEF Data
<1>3. /\ s # "Default"
      /\ s \in Early => cur["taker"] \in Early \cup {"Default"}
      /\ s \in Failing => \/ cur["taker"] = "Default"
                          \/ /\ cur["taker"] \in Failing
                             /\ pc["taker"] = "event" /\ ev["taker"] # "ActionFailed"
      /\ s = Working => cur["taker"] \in Failing \cup {Working}
      /\ s = "AwaitTxBroadcastedMessage" => cur["taker"] \in {Working, s}
      /\ cur["taker"] \in Early => s # "ValidateTxAndPayClaimInvoice"
  <2>1. CASE locked
    <3>1. pc["taker"] = "event" /\ s \in NextStates(SwapType, "taker", cur["taker"], ev["taker"])
      BY <2>1 DEF Runs
    <3> QED BY <3>1, TableEarly
  <2>2. CASE ~locked
    <3>1. s = cur["taker"] /\ s \notin FailOnrecover(SwapType, "taker") \cup {"Default"}
      BY <2>2 DEF Runs
    <3>2. s \notin Failing
      BY <3>1 DEF FailOnrecover, Failing
    <3>3. "ValidateTxAndPayClaimInvoice" \notin Early
      BY DEF Early, Failing, Working
    <3> QED BY <3>1, <3>2, <3>3
  <2> QED BY <2>1, <2>2
<1>4. Committed' => Committed \/ s = Working
  BY <1>a, <1>b, CommitCause
<1>5. /\ s = Working => r \in Result
      /\ s = "AwaitTxBroadcastedMessage" /\ data'["taker"].anchor = 0 => r = "ActionFailed"
      /\ r = "Loop" => s = "ValidateTxAndPayClaimInvoice"
      /\ r # "Block"
  BY <1>a, <1>b, <1>c, EarlyResult, SMT, SMTT(20)
<1>6. s \in Early \/ cur["taker"] \in Early => pc'["taker"] \in {"save", "rsave"}
  <2>1. "ValidateTxAndPayClaimInvoice" \notin Early
    BY DEF Early, Failing, Working
  <2> QED BY <1>b, <1>3, <1>5, <2>1 DEF AfterAction
<1>7. Committed' => disk'["taker"].cur \notin {"Absent", "Default"} /\ cur'["taker"] # "Default"
  <2>1. {"Absent", "Default"} \cap (Failing \cup {Working}) = {}
    BY DEF Failing, Working
  <2> QED BY <1>b, <1>3, <1>4, <2>1 DEF EarlyInv
<1>8. ASSUME chain.open = "confirmed", data["taker"].anchor = 0
      PROVE  s \notin Early /\ cur["taker"] \notin Early
  <2>1. Committed
    BY <1>8, OpenCommitted DEF CauseInv
  <2>2. cur["taker"] # "Default" /\ ~NoAnchor
    BY <1>8, <2>1 DEF EarlyInv
  <2> QED BY <1>8, <1>3, <2>2 DEF NoAnchor, Unanchored
<1>9. ASSUME (Committed /\ NoAnchor)'
      PROVE  AtWork' /\ chain'.open # "confirmed"
  <2>1. (s \in Early \/ cur["taker"] \in Early) /\ data["taker"].anchor = 0
    BY <1>b, <1>d, <1>2, <1>9 DEF NoAnchor, Unanchored, Early, Failing, Working
  <2> QED BY <1>1, <1>6, <1>8, <2>1 DEF AtWork
<1>10. (Committed /\ cur["taker"] \in Failing)' => FALSE
  <2>1. Working \notin Failing
    BY DEF Working, Failing
  <2>2. s \in Failing /\ Committed => FALSE
    BY <1>3 DEF EarlyInv, Posted
  <2> QED BY <1>b, <1>4, <2>1, <2>2 DEF Failing
<1>11. Undecided' => /\ pc'["taker"] \in {"event", "save", "rsave"}
                     /\ ev'["taker"] \in Result
                     /\ cur'["taker"] # Working => ev'["taker"] = "ActionFailed"
  <2>1. Undecided' => \/ s = Working
                      \/ s = "AwaitTxBroadcastedMessage" /\ data'["taker"].anchor = 0
    BY <1>b DEF Undecided, Working
  <2>2. {Working, "AwaitTxBroadcastedMessage"} \subseteq Early
    BY DEF Early
  <2> QED BY <1>b, <1>5, <1>6, <2>1, <2>2 DEF Result
<1>12. chain'.open = "confirmed" =>
         data'["taker"].anchor < chain'.conf /\ disk'["taker"].data.anchor < chain'.conf
  <2>1. chain.open = "confirmed" => data'["taker"].anchor = data["taker"].anchor
    BY <1>2, <1>8 DEF Early
  <2> QED BY <1>b, <1>1, <2>1 DEF EarlyInv
<1> QED BY <1>7, <1>9, <1>10, <1>11, <1>12 DEF EarlyInv, Working

\* EarlyInv is inductive.
LEMMA EarlyStep ==
  ASSUME CauseInv, FeeInv, EarlyInv, Next, Chain = "btc", "slow" \notin Faults
  PROVE  EarlyInv'
<1>a. Inv /\ "taker" \in Node
  BY DEF CauseInv, Node
<1>1. CASE Acts("taker")
  BY <1>1, EarlyAct DEF Acts
<1>2. CASE ~Acts("taker")
  <2>1. Committed' => Committed
    BY <1>a, <1>2, CommitCause
  <2>2. CASE Same("taker")
    BY <2>1, <2>2, EarlySame
  <2>3. CASE Other("taker")
    BY <2>1, <2>3, EarlyCrash, EarlyBusy, EarlyDown, EarlyRest DEF AtWork
  <2> QED BY <1>a, <1>2, <2>2, <2>3, NodeKinds
<1> QED BY <1>1, <1>2

\* A payment starts within half the CSV of the anchor, which is before the
\* confirmation.
LEMMA BitcoinStep ==
  ASSUME CauseInv, EarlyInv, PaymentStartsInTime, Next, Chain = "btc"
  PROVE  PaymentStartsInTime'
<1>a. Inv /\ TypeOK /\ WorldOK /\ ChainOK /\ LnOK /\ DataOK
  BY TypeParts, WorldParts DEF CauseInv, Inv
<1>b. /\ chain.height \in Nat /\ chain.conf \in Nat /\ ln.since \in Nat
      /\ data["taker"].anchor \in Nat
      /\ PaymentWindow = Csv \div 2 /\ PaymentWindow \in Nat
  BY <1>a, SwapAssumption DEF ChainOK, LnOK, DataOK, Data, Node
<1>1. ln.pay # "none" => chain'.conf = chain.conf
  BY <1>a, Stable DEF CauseInv, ConfirmInv
<1>2. CASE ln'.pay = ln.pay /\ ln'.since = ln.since
  BY <1>1, <1>2 DEF PaymentStartsInTime
<1>3. ASSUME NEW n \in Node, Acts(n)
      PROVE  ln'.pay = ln.pay /\ ln'.since = ln.since
  <2>1. PICK s \in State, locked \in BOOLEAN, r \in ActionResult : Execute(n, s, locked, r)
    BY <1>3 DEF Acts, Runs
  <2> QED BY <1>a, <2>1, ExecutePay
<1>4. ASSUME NEW n \in Node, Other(n), ln' # ln
      PROVE  PaymentStartsInTime'
  <2>1. /\ PayTick(n) /\ MayStartPayment(data[n]) /\ chain' = chain
        /\ ln' = [ln EXCEPT !.pay = "inflight", !.since = chain.height]
    BY <1>4, OtherWorld
  <2>2. cur[n] = "ValidateTxAndPayClaimInvoice"
    BY <1>a, <2>1 DEF PayTick, Inv, NodeInv, ControlAt
  <2>3. n = "taker"
    BY <1>a, <2>2 DEF Inv, NodeInv, ControlAt, MakerState, Node
  <2>4. chain.open = "confirmed"
    BY <2>2, <2>3 DEF CauseInv, ConfirmInv, Confirmed
  <2>5. data["taker"].anchor < chain.conf
    BY <2>4 DEF EarlyInv
  <2>6. chain.height - data["taker"].anchor <= PaymentWindow
    BY <2>1, <2>3 DEF MayStartPayment
  <2>7. ln'.since = chain.height
    BY <1>a, <2>1 DEF LnOK
  <2> QED BY <1>b, <2>1, <2>5, <2>6, <2>7, SMT, SMTT(20) DEF PaymentStartsInTime
<1>5. CASE LoseMessage \/ ResolveHtlc \/ Tick
  BY <1>a, <1>1, <1>5, WorldStep DEF PaymentStartsInTime
<1> QED BY <1>a, <1>2, <1>3, <1>4, <1>5, StepKinds

\* Initially nobody is committed and nothing is confirmed or paid.
LEMMA BitcoinInit ==
  ASSUME Init
  PROVE  CauseInv /\ FeeInv /\ EarlyInv /\ PaymentStartsInTime
<1>1. /\ cur["taker"] = "Default" /\ cur["maker"] = "Default"
      /\ disk["maker"].cur = "Absent" /\ pc["maker"] = "none" /\ pc["taker"] = "none"
      /\ ~ln.fee /\ ln.pay = "none" /\ wire = {} /\ chain.open = "none"
  BY DEF Init, Node
<1>2. {"Default", "Absent"} \cap Funded = {} /\ Working # "Default"
  BY DEF Funded, Working
<1>3. FeeInv
  BY <1>1, <1>2 DEF FeeInv, Posted
<1>4. EarlyInv
  BY <1>1, <1>2 DEF EarlyInv, Committed, Undecided
<1> QED BY <1>1, <1>3, <1>4, CauseInit DEF PaymentStartsInTime

\* On Bitcoin the anchor is set only when the taker waits for the opening message,
\* and the check in the payment loop lets one block more pass than the others.
\* Even so a payment starts in the first half of the CSV, whatever messages are
\* lost, RPCs, sends, claims or payment calls fail and however often the nodes
\* crash, as long as no block comes while a node is down or at work: a crash that
\* forgets the anchor of a committed taker comes too early for the confirmation.
THEOREM BitcoinPaysInTime ==
  ASSUME Chain = "btc", "slow" \notin Faults
  PROVE  Spec => []PaymentStartsInTime
<1> DEFINE Time == CauseInv /\ FeeInv /\ EarlyInv /\ PaymentStartsInTime
<1>1. Init => Time
  BY BitcoinInit
<1>2. Time /\ [Next]_vars => Time'
  <2>1. ASSUME Time, Next
        PROVE  Time'
    BY <2>1, CauseStep, FeeStep, EarlyStep, BitcoinStep DEF CauseInv
  <2>2. ASSUME Time, UNCHANGED vars
        PROVE  Time'
    <3>1. CauseInv'
      BY <2>2, CauseStep
    <3>2. FeeInv' /\ EarlyInv' /\ PaymentStartsInTime'
      BY <2>2 DEF vars, FeeInv, EarlyInv, PaymentStartsInTime, Posted, Committed,
                  Commitment, NoAnchor, Unanchored, Undecided, AtWork, Early,
                  Failing, Working
    <3> QED BY <3>1, <3>2
  <2> QED BY <2>1, <2>2
<1> QED BY <1>1, <1>2, PTL DEF Spec
=============================================================================
