------------------------- MODULE SwapAtomicityProofs -------------------------
(***************************************************************************)
(* A calm swap is atomic: no crash, no failing pay call, no step that      *)
(* takes longer than the timelocks allow.  CalmInv says where the two      *)
(* nodes, the messages, the chain and the payment can be at the same time; *)
(* from it the maker is paid or refunded, the taker's key is its own while *)
(* it pays, and Swap implements AtomicSwap, which is atomic.               *)
(***************************************************************************)
EXTENDS SwapCauseProofs

\* A leaf is tried with Zenon, then with Z3; the leaves that need Z3 say so.
USE Zenon, SMT, SMTT(20)
-----------------------------------------------------------------------------
(* Without crashes. *)

\* A node that is up enters a state of its table and runs its action, takes
\* another step in the state it is in, or stays as it is.
LEMMA CalmKinds ==
  ASSUME Inv, Next, NEW m \in Node, Up(m), "crash" \notin Faults
  PROVE  \/ \E s \in State, r \in ActionResult : Runs(m, s, TRUE, r)
         \/ Other(m) /\ ~Crash(m) /\ cur' = cur
         \/ Same(m)
<1>1. CASE Acts(m)
  <2>1. PICK s \in State, locked \in BOOLEAN, r \in ActionResult : Runs(m, s, locked, r)
    BY <1>1 DEF Acts
  <2>2. locked = TRUE
    BY <2>1 DEF Runs, Up
  <2> QED BY <2>1, <2>2
<1>2. CASE Other(m)
  <2>1. ~Crash(m)
    BY DEF Crash
  <2> QED BY <1>2, <2>1, OtherControl
<1> QED BY <1>1, <1>2, NodeKinds

\* What entering a state changes.
LEMMA EnterFacts ==
  ASSUME Inv, NEW n \in Node, NEW s \in State, NEW r \in ActionResult,
         Runs(n, s, TRUE, r)
  PROVE  /\ pc[n] = "event" /\ s \in NextStates(SwapType, n, cur[n], ev[n])
         /\ cur'[n] = s /\ ev'[n] = r /\ pc'[n] = AfterAction(r, "save")
         /\ disk' = disk /\ disk[n].cur # "Absent"
         /\ Execute(n, s, TRUE, r) /\ WorldOK
         /\ \A m \in Node \ {n} : Same(m)
<1>1. Execute(n, s, TRUE, r) /\ pc[n] = "event"
      /\ s \in NextStates(SwapType, n, cur[n], ev[n])
  BY DEF Runs
<1>2. /\ WorldOK /\ cur'[n] = s /\ ev'[n] = r /\ pc'[n] = AfterAction(r, "save")
      /\ \A m \in Node \ {n} : cur'[m] = cur[m] /\ ev'[m] = ev[m] /\ pc'[m] = pc[m]
      /\ disk' = disk /\ disk[n].cur # "Absent"
  <2>1. cur'[n] = s /\ ev'[n] = r /\ pc'[n] = AfterAction(r, "save") /\ disk' = disk
    BY RunControl
  <2>2. WorldOK /\ disk[n].cur # "Absent"
    BY RunFacts
  <2>3. \A m \in Node \ {n} : cur'[m] = cur[m] /\ ev'[m] = ev[m] /\ pc'[m] = pc[m]
    BY RunFacts
  <2> QED BY <2>1, <2>2, <2>3
<1>3. \A m \in Node \ {n} : data'[m] = data[m]
  BY <1>1, <1>2, ExecuteData
<1>4. \A m \in Node \ {n} : vol'[m] = vol[m]
  BY <1>1, <1>2, ExecuteWatch
<1> QED BY <1>1, <1>2, <1>3, <1>4 DEF Same

\* Without crashes there is one opening transaction, and no broadcast after it.
OnceInv == NoCrashOnce /\ (chain.opens = 0 => chain.open = "none")

\* Every step keeps it.
LEMMA OnceStep ==
  ASSUME CauseInv, OnceInv, Next, "crash" \notin Faults
  PROVE  OnceInv'
<1>1. NoCrashOnce'
  BY NoCrashOnceStep DEF OnceInv
<1>2. chain.opens \in Nat
  BY TypeParts, WorldParts DEF CauseInv, Inv, ChainOK
<1>3. chain'.opens = 0 => chain'.open = "none"
  BY <1>2, OpenCause, SMT, SMTT(20) DEF OnceInv, CauseInv
<1> QED BY <1>1, <1>3 DEF OnceInv

\* The claim that spends the opening output, by the node and state made for it.
Claims(n, s, path) ==
  /\ Runs(n, s, TRUE, "ActionSucceeded")
  /\ chain.spent = "none" /\ chain' = [chain EXCEPT !.spent = path]
  /\ data' = [data EXCEPT ![n].claimTx = TRUE]

\* The steps of the chain without crashes: a block, the broadcast, a claim.
LEMMA ChainSteps ==
  ASSUME CauseInv, OnceInv, Next, "crash" \notin Faults, Up("taker")
  PROVE  \/ chain' = chain
         \/ Tick
         \/ /\ \E r \in ActionResult : Runs("maker", "BroadcastOpeningTx", TRUE, r)
            /\ chain.open = "none" /\ ~data["maker"].openTx
            /\ chain' = [chain EXCEPT !.open = "mempool", !.conf = 0, !.opens = @ + 1]
         \/ Claims("taker", "ClaimSwap", "preimage") /\ data["taker"].preimage
         \/ /\ Claims("maker", "ClaimSwapCoop", "coop")
            /\ data["maker"].coop /\ data["maker"].openTx
         \/ Claims("maker", "ClaimSwapCsv", "csv") /\ CsvPassed
<1> USE DEF CauseInv
<1>a. TypeOK /\ ChainOK /\ LnOK /\ Up("maker")
  BY TypeParts, WorldParts DEF Inv, OnceInv, NoCrashOnce
<1>1. CASE LoseMessage \/ ResolveHtlc \/ Tick
  BY <1>1, <1>a, WorldStep
<1>2. CASE \E n \in Node : Other(n)
  BY <1>2, OtherWorld
<1>3. ASSUME NEW n \in Node, Acts(n)
      PROVE  \/ chain' = chain
             \/ /\ \E r \in ActionResult : Runs("maker", "BroadcastOpeningTx", TRUE, r)
                /\ chain.open = "none" /\ ~data["maker"].openTx
                /\ chain' = [chain EXCEPT !.open = "mempool", !.conf = 0, !.opens = @ + 1]
             \/ Claims("taker", "ClaimSwap", "preimage") /\ data["taker"].preimage
             \/ /\ Claims("maker", "ClaimSwapCoop", "coop")
                /\ data["maker"].coop /\ data["maker"].openTx
             \/ Claims("maker", "ClaimSwapCsv", "csv") /\ CsvPassed
  <2>1. PICK s \in State, locked \in BOOLEAN, r \in ActionResult : Runs(n, s, locked, r)
    BY <1>3 DEF Acts
  <2>2. locked = TRUE
    BY <1>a, <2>1 DEF Runs, Up, Node
  <2>3. Runs(n, s, TRUE, r) /\ Execute(n, s, TRUE, r)
    BY <2>1, <2>2 DEF Runs
  <2>4. (n = "maker" => s \in MakerState) /\ (n = "taker" => s \in TakerState)
    BY <2>3, RunFacts
  <2> DEFINE B == /\ s = "BroadcastOpeningTx" /\ ~data[n].openTx
                  /\ chain' = [chain EXCEPT !.open = "mempool", !.conf = 0,
                                            !.opens = @ + 1]
             C == /\ chain.spent = "none" /\ r = "ActionSucceeded"
                  /\ data' = [data EXCEPT ![n].claimTx = TRUE]
                  /\ \/ /\ s = "ClaimSwap" /\ data[n].preimage
                        /\ chain' = [chain EXCEPT !.spent = "preimage"]
                     \/ /\ s = "ClaimSwapCoop" /\ data[n].coop /\ data[n].openTx
                        /\ chain' = [chain EXCEPT !.spent = "coop"]
                     \/ /\ s = "ClaimSwapCsv" /\ CsvPassed
                        /\ chain' = [chain EXCEPT !.spent = "csv"]
  <2>5. chain' = chain \/ B \/ C
    BY <2>3, ExecuteChain
  <2>6. CASE B
    <3>1. n = "maker"
      BY <2>4, <2>6 DEF Node, TakerState
    <3>2. chain'.opens = chain.opens + 1 /\ chain.opens \in Nat
      BY <1>a, <2>6 DEF ChainOK
    <3>3. NoCrashOnce'
      BY NoCrashOnceStep DEF OnceInv
    <3>4. chain.opens = 0
      BY <3>2, <3>3, SMT, SMTT(20) DEF NoCrashOnce
    <3> QED BY <2>3, <2>6, <3>1, <3>4 DEF OnceInv
  <2>7. CASE C
    <3>1. /\ s = "ClaimSwap" => n = "taker"
          /\ s \in {"ClaimSwapCoop", "ClaimSwapCsv"} => n = "maker"
      BY <2>4 DEF Node, TakerState, MakerState
    <3> QED BY <2>3, <2>7, <3>1 DEF Claims
  <2> HIDE DEF B, C
  <2> QED BY <2>5, <2>6, <2>7
<1> QED BY <1>a, <1>1, <1>2, <1>3, StepKinds

\* What the chain does not take back, without crashes.
LEMMA ChainKept ==
  ASSUME CauseInv, OnceInv, Next, "crash" \notin Faults, Up("taker")
  PROVE  /\ chain.height <= chain'.height /\ chain.height \in Nat \ {0} /\ chain.conf \in Nat
         /\ chain.open # "none" => chain'.open # "none"
         /\ chain.open = "confirmed" => chain'.open = "confirmed" /\ chain'.conf = chain.conf
         /\ chain.open = "mempool" => chain'.open = "mempool" \/ Tick
         /\ chain.open # "confirmed" /\ chain'.open = "confirmed"
              => /\ Tick /\ chain.open = "mempool"
                 /\ chain'.conf = chain.height + 1 /\ chain'.height = chain.height + 1
         /\ chain.height # chain'.height => Tick
         /\ CsvPassed => CsvPassed'
         /\ CsvPassed' /\ ~CsvPassed => Tick
<1>a. ChainOK /\ {Csv} \subseteq Nat
  BY TypeParts, WorldParts, SwapAssumption DEF CauseInv, Inv
<1>1. CASE chain' = chain
  BY <1>1, <1>a, SMT, SMTT(20) DEF ChainOK, CsvPassed, Confirmations
<1>2. CASE Tick
  BY <1>2, <1>a, TickChain, SMT, SMTT(20) DEF ChainOK, CsvPassed, Confirmations
<1>3. CASE chain.open = "none" /\ chain' = [chain EXCEPT !.open = "mempool", !.conf = 0, !.opens = @ + 1]
  <2>1. chain'.open = "mempool" /\ chain'.height = chain.height
    BY <1>3, <1>a DEF ChainOK
  <2> QED BY <1>3, <1>a, <2>1, SMT, SMTT(20) DEF ChainOK, CsvPassed
<1>4. CASE \E p \in {"preimage", "coop", "csv"} : chain' = [chain EXCEPT !.spent = p]
  <2>1. chain'.open = chain.open /\ chain'.height = chain.height /\ chain'.conf = chain.conf
    BY <1>4, <1>a DEF ChainOK
  <2> QED BY <1>a, <2>1, SMT, SMTT(20) DEF ChainOK, CsvPassed, Confirmations
<1> QED BY <1>1, <1>2, <1>3, <1>4, ChainSteps DEF Claims

\* Without crashes a state changes by its table only.
LEMMA CurStep ==
  ASSUME Inv, Next, NEW m \in Node, Up(m), "crash" \notin Faults
  PROVE  \/ cur'[m] = cur[m]
         \/ /\ pc[m] = "event"
            /\ cur'[m] \in NextStates(SwapType, m, cur[m], ev[m])
BY CalmKinds, EnterFacts DEF Same

\* A swap is started by its initiator, or by the request, which is used up.
LEMMA StartCause ==
  ASSUME Inv, Next, NEW m \in Node, disk[m].cur = "Absent", disk'[m].cur # "Absent"
  PROVE  m = Initiator \/ <<m, "request">> \in net \ net'
<1>1. CASE Acts(m)
  BY <1>1, RunFacts DEF Acts
<1>2. CASE Other(m)
  <2>1. pc[m] = "none"
    BY DEF Inv, NodeInv, ControlAt
  <2>2. disk' # disk
    OBVIOUS
  <2>3. StartSwap(m) \/ ReceiveRequest(m)
    <3>1. ~\/ Timeout(m) \/ FeeInvoicePaid(m) \/ ClaimInvoicePaid(m)
           \/ OnCsvPassed(m) \/ RpcTxConfirmed(m) \/ LndTxConfirmed(m)
           \/ PayTimeout(m) \/ PayTick(m) \/ PayReturn(m)
      BY <2>1
      DEF Timeout, FeeInvoicePaid, ClaimInvoicePaid, OnCsvPassed, RpcTxConfirmed,
          LndTxConfirmed, Callback, Post, PayTimeout, PayTick, PayReturn
    <3>2. ~\/ RefuseRequest(m) \/ ResendMessage(m) \/ Reject(m) \/ Save(m)
           \/ Crash(m) \/ Restart(m) \/ Resumes(m)
           \/ \E t \in MessageType : ReceiveMessage(m, t) \/ IgnoreMessage(m, t)
      BY <2>1, <2>2
      DEF RefuseRequest, ReceiveMessage, Post, IgnoreMessage, ResendMessage,
          Reject, Save, Crash, Restart, Resumes
    <3> QED BY <1>2, <3>1, <3>2 DEF Other
  <2> QED BY <2>3 DEF StartSwap, ReceiveRequest
<1> QED BY <1>1, <1>2, NodeKinds DEF Same
-----------------------------------------------------------------------------
(* The request and the cancel message. *)

\* States only one of the two swap types has.
LEMMA TableTypes ==
  ASSUME NEW s, NEW e
  PROVE  /\ SwapType = "out" =>
              /\ "SendRequest" \notin NextStates(SwapType, "maker", s, e)
              /\ "SendAgreement" \notin NextStates(SwapType, "taker", s, e)
         /\ SwapType = "in" =>
              NextStates(SwapType, "taker", s, e)
                \cap {"SendRequest", "AwaitAgreement", "PayFeeInvoice"} = {}
BY SMT, SMTT(20) DEF NextStates, Lookup, States, SendCancelEvents, SwapOutSenderStates,
     SwapInReceiverStates, MakerRefundEvents, SwapOutReceiverStates

\* The swap-in request.
Request == <<"taker", "request">>

\* In a swap-in the request is sent once and starts the taker's swap; nothing
\* else does.
RequestInv ==
  /\ SwapType = "out" =>
       /\ Request \notin wire /\ <<"maker", "agreement">> \notin wire
       /\ cur["maker"] # "SendRequest" /\ cur["taker"] # "SendAgreement"
  /\ SwapType = "in" =>
       /\ cur["taker"] \notin {"SendRequest", "AwaitAgreement", "PayFeeInvoice"}
       /\ cur["maker"] \in {"Default", "CreateSwap"} => Request \notin wire
       /\ Request \in net => disk["taker"].cur = "Absent"
       /\ disk["taker"].cur # "Absent" => Request \in wire
       /\ Commitment \in wire => disk["taker"].cur # "Absent"

\* A swap-in's request is not sent twice.
LEMMA RequestOnce ==
  ASSUME Inv, Up("maker"), RequestInv, Next, SwapType = "in", Sent(Request)
  PROVE  Request \notin wire
<1>a. "maker" \in Node /\ Peer("maker") = "taker"
  BY DEF Node, Peer
<1>1. Acts("maker") /\ cur'["maker"] = "SendRequest"
  <2>1. Sent(<<Peer("maker"), "request">>)
    BY <1>a DEF Request
  <2> HIDE DEF Sent
  <2> QED BY <1>a, <2>1, Messages
<1>2. PICK s \in State, locked \in BOOLEAN, r \in ActionResult :
        Runs("maker", s, locked, r)
  BY <1>1 DEF Acts
<1>3. locked = TRUE
  BY <1>2 DEF Runs, Up
<1>4. cur'["maker"] = s /\ s \in NextStates(SwapType, "maker", cur["maker"], ev["maker"])
  BY <1>a, <1>2, <1>3, EnterFacts
<1>5. cur["maker"] = "CreateSwap"
  BY <1>a, <1>1, <1>4, TablePaths, SMT, SMTT(20)
<1> QED BY <1>5 DEF RequestInv

\* RequestInv is preserved.
LEMMA RequestStep ==
  ASSUME CauseInv, Up("maker"), Up("taker"), RequestInv, Next, Inv',
         "crash" \notin Faults
  PROVE  RequestInv'
<1> USE DEF CauseInv
<1>a. "maker" \in Node /\ "taker" \in Node /\ Peer("maker") = "taker" /\ Peer("taker") = "maker"
  BY DEF Node, Peer
<1>b. net \subseteq wire
  BY DEF MessageInv
<1>1. /\ Sent(<<"taker", "request">>) => Acts("maker") /\ cur'["maker"] = "SendRequest"
      /\ Sent(<<"maker", "agreement">>) => cur'["taker"] \in {"SendAgreement", "SendFeeInvoice"}
      /\ wire \subseteq wire' /\ net' \subseteq net \cup wire'
  <2> HIDE DEF Sent
  <2> QED BY <1>a, Messages
<1>2. /\ \/ cur'["maker"] = cur["maker"]
         \/ cur'["maker"] \in NextStates(SwapType, "maker", cur["maker"], ev["maker"])
      /\ \/ cur'["taker"] = cur["taker"]
         \/ cur'["taker"] \in NextStates(SwapType, "taker", cur["taker"], ev["taker"])
  BY <1>a, CurStep
<1>3. cur'["taker"] \in TakerState
  BY <1>a DEF Inv, NodeInv, ControlAt
<1>4. "SendFeeInvoice" \notin TakerState
  BY DEF TakerState
<1>5. CASE SwapType = "out"
  <2>1. cur'["maker"] # "SendRequest" /\ cur'["taker"] # "SendAgreement"
    BY <1>2, <1>5, TableTypes DEF RequestInv
  <2>2. Request \notin wire' /\ <<"maker", "agreement">> \notin wire'
    BY <1>1, <1>3, <1>4, <1>5, <2>1 DEF RequestInv, Request, Sent
  <2> QED BY <1>5, <2>1, <2>2 DEF RequestInv
<1>6. CASE SwapType = "in"
  <2>1. cur'["taker"] \notin {"SendRequest", "AwaitAgreement", "PayFeeInvoice"}
    BY <1>2, <1>6, TableTypes DEF RequestInv
  <2>2. cur'["maker"] \in {"Default", "CreateSwap"} => cur["maker"] \in {"Default", "CreateSwap"}
    BY <1>2, <1>a, TablePaths, SMT, SMTT(20)
  <2>3. cur'["maker"] \in {"Default", "CreateSwap"} => Request \notin wire'
    BY <1>1, <1>6, <2>2 DEF RequestInv, Request, Sent
  <2>4. Sent(Request) => Request \notin wire
    BY <1>6, RequestOnce
  <2>5. disk["taker"].cur = "Absent" /\ disk'["taker"].cur # "Absent"
          => Request \in net \ net'
    BY <1>6, <1>a, StartCause DEF Initiator, Request
  <2>6. disk["taker"].cur # "Absent" => disk'["taker"].cur # "Absent"
    <3>1. disk'["taker"].cur \in {disk["taker"].cur, cur["taker"], "Default"}
      BY <1>a, StateCause
    <3>2. cur["taker"] # "Absent"
      BY <1>a DEF Inv, NodeInv, ControlAt, TakerState
    <3> QED BY <3>1, <3>2
  <2>7. Request \in net' => disk'["taker"].cur = "Absent"
    BY <1>6, <2>4, <2>5 DEF RequestInv, Sent
  <2>8. disk'["taker"].cur # "Absent" => Request \in wire'
    BY <1>1, <1>6, <1>b, <2>5 DEF RequestInv
  <2>9. Commitment \in wire' => disk'["taker"].cur # "Absent"
    <3>1. Commitment = <<"maker", "agreement">>
      BY <1>6 DEF Commitment
    <3>2. cur'["taker"] = "SendAgreement" => disk'["taker"].cur # "Absent"
      BY <1>a DEF Inv, NodeInv, ControlAt
    <3>3. CASE Commitment \in wire
      BY <1>6, <2>6, <3>3 DEF RequestInv
    <3>4. CASE Commitment \in wire' \ wire
      BY <1>1, <1>3, <1>4, <3>1, <3>2, <3>4 DEF Sent
    <3> QED BY <3>3, <3>4
  <2> QED BY <1>6, <2>1, <2>3, <2>7, <2>8, <2>9 DEF RequestInv, Commitment, Request
<1> QED BY <1>5, <1>6, SwapAssumption

\* The taker cancels a swap it has closed, or one it never started.
CancelInv ==
  <<"maker", "cancel">> \in wire =>
    \/ cur["taker"] \in Closing
    \/ disk["taker"].cur = "Absent" /\ SwapType = "in" /\ Request \in wire \ net

\* CancelInv is preserved.
LEMMA CancelStep ==
  ASSUME CauseInv, Up("maker"), Up("taker"), RequestInv, CancelInv, Next,
         "crash" \notin Faults
  PROVE  CancelInv'
<1> USE DEF CauseInv
<1>a. "maker" \in Node /\ "taker" \in Node /\ Peer("maker") = "taker" /\ Peer("taker") = "maker"
  BY DEF Node, Peer
<1>b. net \subseteq wire
  BY DEF MessageInv
<1>1. /\ Sent(<<"maker", "cancel">>) => cur'["taker"] = "SendCancel" \/ RefuseRequest("taker")
      /\ wire \subseteq wire'
  <2> HIDE DEF Sent
  <2> QED BY <1>a, Messages
<1>2. CASE <<"maker", "cancel">> \in wire /\ cur["taker"] \in Closing
  <2>1. cur'["taker"] \in Closing
    BY <1>a, <1>2, CurStep, TablePaths, SMT, SMTT(20) DEF Closing
  <2> QED BY <2>1 DEF CancelInv
<1>3. CASE /\ <<"maker", "cancel">> \in wire
           /\ disk["taker"].cur = "Absent" /\ SwapType = "in" /\ Request \in wire \ net
  <2>1. ~Sent(Request)
    BY <1>3, RequestOnce
  <2>2. disk'["taker"].cur = "Absent"
    BY <1>3, <1>a, StartCause DEF Initiator, Request
  <2> QED BY <1>1, <1>3, <2>1, <2>2 DEF CancelInv, Sent, Request
<1>4. CASE <<"maker", "cancel">> \in wire' \ wire
  <2>1. CASE cur'["taker"] = "SendCancel"
    BY <2>1 DEF CancelInv, Closing
  <2>2. CASE RefuseRequest("taker")
    <3>1. /\ Request \in net /\ Request \notin net' /\ Request \in wire' /\ disk' = disk
      BY <1>b, <2>2 DEF RefuseRequest, Request, Peer
    <3>2. SwapType = "in" /\ disk["taker"].cur = "Absent"
      BY <1>b, <3>1, SwapAssumption DEF RequestInv
    <3> QED BY <3>1, <3>2 DEF CancelInv, Request
  <2> QED BY <1>1, <1>4, <2>1, <2>2 DEF Sent
<1>5. CASE <<"maker", "cancel">> \notin wire'
  BY <1>5 DEF CancelInv
<1> QED BY <1>2, <1>3, <1>4, <1>5 DEF CancelInv
-----------------------------------------------------------------------------
(* The payments, and the events of the maker. *)

\* How the two payments move.
LEMMA LnStep ==
  ASSUME Inv, Next
  PROVE  /\ ln.fee => ln'.fee
         /\ ln'.fee /\ ~ln.fee => cur'["taker"] = "PayFeeInvoice"
         /\ \/ ln'.pay = ln.pay /\ ln'.since = ln.since
            \/ /\ PayTick("taker") /\ MayStartPayment(data["taker"])
               /\ cur["taker"] = "ValidateTxAndPayClaimInvoice"
               /\ cur' = cur /\ wire' = wire /\ data' = data
               /\ ln.pay \in {"none", "failed"} /\ ln'.pay = "inflight"
               /\ ln'.since = chain.height /\ chain' = chain
            \/ /\ ResolveHtlc
               /\ ln.pay = "inflight" /\ ln'.pay \in {"settled", "failed"}
               /\ ln'.since = ln.since /\ chain' = chain /\ cur' = cur
<1>a. TypeOK /\ LnOK
  BY TypeParts, WorldParts DEF Inv
<1>1. CASE LoseMessage \/ Tick
  BY <1>1 DEF LoseMessage, Tick
<1>2. CASE ResolveHtlc
  BY <1>2, <1>a DEF ResolveHtlc, LnOK
<1>3. ASSUME NEW n \in Node, Other(n)
      PROVE  \/ ln' = ln
             \/ /\ PayTick("taker") /\ MayStartPayment(data["taker"])
                /\ cur["taker"] = "ValidateTxAndPayClaimInvoice"
                /\ cur' = cur /\ wire' = wire /\ data' = data
                /\ ln.pay \in {"none", "failed"} /\ ln'.pay = "inflight"
                /\ ln'.since = chain.height /\ chain' = chain /\ ln'.fee = ln.fee
  <2>1. CASE ln' = ln
    BY <2>1
  <2>2. CASE /\ PayTick(n) /\ MayStartPayment(data[n]) /\ ln.pay \in {"none", "failed"}
             /\ ln' = [ln EXCEPT !.pay = "inflight", !.since = chain.height]
    <3>1. pc[n] \in {"loop", "again"} /\ UNCHANGED <<cur, data, wire, chain>>
      BY <2>2 DEF PayTick
    <3>2. cur[n] = "ValidateTxAndPayClaimInvoice"
      BY <3>1 DEF Inv, NodeInv, ControlAt
    <3>3. n = "taker"
      BY <3>2 DEF Inv, NodeInv, ControlAt, MakerState, Node
    <3>4. ln'.pay = "inflight" /\ ln'.since = chain.height /\ ln'.fee = ln.fee
      BY <1>a, <2>2 DEF LnOK
    <3> QED BY <2>2, <3>1, <3>2, <3>3, <3>4
  <2> QED BY <1>3, <2>1, <2>2, OtherWorld
<1>4. ASSUME NEW n \in Node, Acts(n)
      PROVE  /\ ln.fee => ln'.fee
             /\ ln'.fee /\ ~ln.fee => cur'["taker"] = "PayFeeInvoice"
             /\ ln'.pay = ln.pay /\ ln'.since = ln.since
  <2>1. PICK s \in State, locked \in BOOLEAN, r \in ActionResult : Runs(n, s, locked, r)
    BY <1>4 DEF Acts
  <2>2. Execute(n, s, locked, r)
    BY <2>1 DEF Runs
  <2>3. /\ WorldOK /\ cur'[n] = s /\ (n = "maker" => s \in MakerState)
    BY <2>1, RunFacts, SMT, SMTT(20)
  <2>4. s = "PayFeeInvoice" => n = "taker"
    BY <2>3 DEF MakerState, Node
  <2> QED BY <2>2, <2>3, <2>4, ExecutePay
<1> QED BY <1>a, <1>1, <1>2, <1>3, <1>4, StepKinds

\* An event that is posted was posted before, or is posted by this step.
LEMMA PostedStep ==
  ASSUME Inv, Next, NEW m \in Node, Up(m), "crash" \notin Faults,
         NEW e \in OnEvent, Posted(m, e)'
  PROVE  \/ Posted(m, e) /\ cur'[m] = cur[m]
         \/ ~Posted(m, e) /\ Other(m) /\ cur'[m] = cur[m]
<1>1. cur'[m] = cur[m]
  <2>1. ASSUME NEW s \in State, NEW r \in ActionResult, Runs(m, s, TRUE, r)
        PROVE  FALSE
    <3>1. ev'[m] = r
      BY <2>1, EnterFacts
    <3>2. ev'[m] = e
      BY DEF Posted
    <3> QED BY <3>1, <3>2 DEF OnEvent
  <2> QED BY <2>1, CalmKinds DEF Same
<1> QED BY <1>1, PostedNew

\* What the maker's events say is so.
EventInv ==
  /\ Posted("maker", "OnCancelReceived") => <<"maker", "cancel">> \in wire
  /\ Posted("maker", "OnCoopCloseReceived") => KeyRevealed
  /\ Posted("maker", "OnInvalid_Message") /\ cur["maker"] \in Funded => KeyRevealed
  /\ Posted("maker", "OnCsvPassed") => CsvPassed
  /\ Posted("maker", "OnFeeInvoicePaid") => ln.fee
  /\ Posted("maker", "OnClaimInvoicePaid") => ln.pay = "settled"
  /\ SwapType = "in" /\ Posted("maker", "OnAgreementReceived") => data["maker"].agreed
  /\ SwapType = "in" /\ cur["maker"] \in Funded => data["maker"].agreed
  /\ SwapType = "out" /\ cur["maker"] \in Funded => ln.fee

\* EventInv is preserved.
LEMMA EventStep ==
  ASSUME CauseInv, OnceInv, Up("taker"), RequestInv, EventInv, Next,
         "crash" \notin Faults
  PROVE  EventInv'
<1> USE DEF CauseInv
<1>a. "maker" \in Node /\ Up("maker") /\ net \subseteq wire
  BY DEF Node, OnceInv, NoCrashOnce, MessageInv
<1>b. /\ wire \subseteq wire' /\ (ln.fee => ln'.fee) /\ (CsvPassed => CsvPassed')
      /\ ln.pay = "settled" => ln'.pay = "settled"
  BY Messages, LnStep, ChainKept
<1>c. {"OnCancelReceived", "OnCoopCloseReceived", "OnInvalid_Message", "OnCsvPassed",
       "OnFeeInvoicePaid", "OnClaimInvoicePaid", "OnAgreementReceived"} \subseteq OnEvent
  BY DEF OnEvent, Event, ActionResult
<1>1. Posted("maker", "OnCancelReceived")' => <<"maker", "cancel">> \in wire'
  BY <1>a, <1>b, <1>c, PostedStep, PostedCause DEF EventInv
<1>2. Posted("maker", "OnCoopCloseReceived")' => KeyRevealed'
  BY <1>a, <1>b, <1>c, PostedStep, PostedCause DEF EventInv, KeyRevealed
<1>3. Posted("maker", "OnCsvPassed")' => CsvPassed'
  BY <1>a, <1>b, <1>c, PostedStep, PostedCause DEF EventInv, MessageInv
<1>4. Posted("maker", "OnFeeInvoicePaid")' => ln'.fee
  BY <1>a, <1>b, <1>c, PostedStep, PostedCause DEF EventInv
<1>5. Posted("maker", "OnClaimInvoicePaid")' => ln'.pay = "settled"
  BY <1>a, <1>b, <1>c, PostedStep, PostedCause DEF EventInv
<1>6. Posted("maker", "OnInvalid_Message")' /\ cur'["maker"] \in Funded => KeyRevealed'
  <2> SUFFICES ASSUME Posted("maker", "OnInvalid_Message")', cur'["maker"] \in Funded
               PROVE  KeyRevealed'
    OBVIOUS
  <2>1. CASE Posted("maker", "OnInvalid_Message") /\ cur'["maker"] = cur["maker"]
    BY <1>b, <2>1 DEF EventInv, KeyRevealed
  <2>2. CASE /\ ~Posted("maker", "OnInvalid_Message") /\ Other("maker")
             /\ cur'["maker"] = cur["maker"]
    <3>1. cur["maker"] # "Default"
      BY <2>2 DEF Funded
    <3>2. PICK t \in {"agreement", "opening", "coop"} :
            <<"maker", t>> \in net /\ ~AlreadyExists(data["maker"], t)
      BY <1>a, <1>c, <2>2, <3>1, PostedCause
    <3>3. t # "opening"
      BY <1>a, <3>2 DEF MessageInv
    <3>4. t # "agreement"
      BY <1>a, <2>2, <3>2, SwapAssumption DEF RequestInv, EventInv, AlreadyExists
    <3> QED BY <1>a, <1>b, <3>2, <3>3, <3>4 DEF KeyRevealed
  <2> QED BY <1>a, <1>c, <2>1, <2>2, PostedStep
<1>7. data["maker"].agreed => data'["maker"].agreed
  BY <1>a, DataKept DEF Crash
<1>8. SwapType = "in" /\ Posted("maker", "OnAgreementReceived")' => data'["maker"].agreed
  BY <1>7, <1>a, <1>b, <1>c, PostedStep, PostedCause DEF EventInv
<1>9. cur'["maker"] \in Funded =>
        \/ cur["maker"] \in Funded
        \/ Posted("maker", IF SwapType = "out" THEN "OnFeeInvoicePaid" ELSE "OnAgreementReceived")
  BY <1>a, CurStep, TableCauses, SMT, SMTT(20) DEF Posted
<1>10. SwapType = "in" /\ cur'["maker"] \in Funded => data'["maker"].agreed
  BY <1>7, <1>9 DEF EventInv
<1>11. SwapType = "out" /\ cur'["maker"] \in Funded => ln'.fee
  BY <1>b, <1>9 DEF EventInv
<1> QED BY <1>1, <1>2, <1>3, <1>4, <1>5, <1>6, <1>8, <1>10, <1>11 DEF EventInv
-----------------------------------------------------------------------------
(* In the state that commits it the taker is at work. *)

WorkInv ==
  cur["taker"] = Working => pc["taker"] \in {"save", "event"} /\ ev["taker"] \in Result

\* WorkInv is preserved.
LEMMA WorkStep ==
  ASSUME Inv, Next, Up("taker"), WorkInv, "crash" \notin Faults
  PROVE  WorkInv'
<1>a. "taker" \in Node
  BY DEF Node
<1>1. CASE Same("taker")
  BY <1>1 DEF Same, WorkInv, Working
<1>2. ASSUME NEW s \in State, NEW r \in ActionResult, Runs("taker", s, TRUE, r)
      PROVE  WorkInv'
  <2>1. /\ cur'["taker"] = s /\ ev'["taker"] = r /\ pc'["taker"] = AfterAction(r, "save")
        /\ Execute("taker", s, TRUE, r)
    BY <1>2, <1>a, EnterFacts
  <2>2. s = Working => r \in Result
    BY <2>1 DEF Working, Execute, SendMessageAction, PayFeeInvoiceAction, Result, Finished
  <2> QED BY <2>1, <2>2 DEF WorkInv, Working, AfterAction, Result
<1>3. CASE Other("taker") /\ ~Crash("taker") /\ cur' = cur
  <2> SUFFICES ASSUME cur["taker"] = Working
               PROVE  pc'["taker"] \in {"save", "event"} /\ ev'["taker"] \in Result
    BY <1>3 DEF WorkInv, Working
  <2>1. pc["taker"] \in {"save", "event"} /\ ev["taker"] \in Result
    BY DEF WorkInv
  <2>2. NextStates(SwapType, "taker", cur["taker"], ev["taker"]) # {}
    BY <2>1, TableWork
  <2> QED BY <1>3, <1>a, <2>1, <2>2, Busy DEF Result
<1> QED BY <1>1, <1>2, <1>3, <1>a, CalmKinds

\* No block arrives while a node is at work.
LEMMA NoTick ==
  ASSUME "slow" \notin Faults, NEW m \in Node, pc[m] \in {"save", "event"}
  PROVE  ~Tick
BY DEF Tick, Quiet
-----------------------------------------------------------------------------
(* The maker. *)

\* A sender has sent.
LEMMA ExecuteSends ==
  ASSUME WorldOK, NEW n \in Node, NEW s \in State, NEW locked \in BOOLEAN,
         NEW r \in ActionResult, Execute(n, s, locked, r),
         vol'[n].sender, ~vol[n].sender
  PROVE  <<Peer(n), "opening">> \in wire'
<1>1. s = "SendTxBroadcastedMessage"
  BY ExecuteSender
<1>2. SendMessageWithRetryAction(n, r)
  BY <1>1 DEF Execute, Finished
<1> QED BY <1>2 DEF SendMessageWithRetryAction, Send, world

\* The maker that has sent the opening message is in the states that end with a
\* claim; the maker of a swap-out has its fee.
MakerInv ==
  /\ vol["maker"].sender => Opening \in wire
  /\ Opening \in wire => cur["maker"] \in Funded \ {"BroadcastOpeningTx"}
  /\ SwapType = "out" /\ chain.open # "none" => ln.fee

\* MakerInv is preserved.
LEMMA MakerStep ==
  ASSUME CauseInv, OnceInv, MakerInv, Next, "crash" \notin Faults, EventInv'
  PROVE  MakerInv'
<1> USE DEF CauseInv
<1>a. /\ "maker" \in Node /\ Up("maker") /\ "crash" \notin Faults
      /\ Peer("maker") = "taker"
  BY DEF Node, Peer, OnceInv, NoCrashOnce
<1>b. /\ wire \subseteq wire'
      /\ Sent(Opening) => \/ /\ Acts("maker") /\ cur'["maker"] = "SendTxBroadcastedMessage"
                             /\ ev'["maker"] = "ActionSucceeded"
                          \/ vol["maker"].sender
  <2> HIDE DEF Sent
  <2>1. Opening = <<Peer("maker"), "opening">>
    BY <1>a DEF Opening
  <2> QED BY <1>a, <2>1, Messages
<1>1. vol'["maker"].sender => Opening \in wire'
  <2> SUFFICES ASSUME vol'["maker"].sender PROVE Opening \in wire'
    OBVIOUS
  <2>1. CASE vol["maker"].sender
    BY <1>b, <2>1 DEF MakerInv, Opening
  <2>2. ASSUME ~vol["maker"].sender, NEW s \in State, NEW r \in ActionResult,
               Runs("maker", s, TRUE, r)
        PROVE  Opening \in wire'
    BY <1>a, <2>2, EnterFacts, ExecuteSends DEF Opening
  <2> QED BY <1>a, <2>1, <2>2, CalmKinds, OtherVol DEF Same
<1>2. Opening \in wire' => cur'["maker"] \in Funded \ {"BroadcastOpeningTx"}
  <2>1. CASE Opening \in wire
    <3>1. cur["maker"] \in Funded \ {"BroadcastOpeningTx"}
      BY <2>1 DEF MakerInv
    <3> QED BY <1>a, <3>1, CurStep, TableCauses, SMT, SMTT(20)
  <2>2. CASE Opening \in wire' \ wire
    BY <1>b, <2>2 DEF MakerInv, Sent, Funded
  <2> QED BY <2>1, <2>2
<1>3. SwapType = "out" /\ chain'.open # "none" => ln'.fee
  BY Stable, LnStep DEF MakerInv, EventInv, Funded
<1> QED BY <1>1, <1>2, <1>3 DEF MakerInv, Opening
-----------------------------------------------------------------------------
(* The taker. *)

\* The states in which a Bitcoin taker has no anchor yet.
PreAnchor == {"Default", "CreateSwap", "SendRequest", "SendAgreement",
              "AwaitAgreement", "PayFeeInvoice"}

\* A state without an anchor is left for good, and ClaimSwap is entered after a
\* payment or a failed claim only.
LEMMA TableTaker ==
  ASSUME NEW s, NEW e, NEW t \in NextStates(SwapType, "taker", s, e)
  PROVE  /\ t \in PreAnchor => s \in PreAnchor
         /\ t \in PreAnchor \ {"PayFeeInvoice"} => s \in PreAnchor \ {"PayFeeInvoice"}
         /\ t = "AwaitTxBroadcastedMessage" => s \in PreAnchor
         /\ t = "ClaimSwap" => \/ /\ s = "ValidateTxAndPayClaimInvoice"
                                  /\ e = "ActionSucceeded"
                               \/ s = "ClaimSwap" /\ e = "OnRetry"
BY SMT, SMTT(20) DEF NextStates, Lookup, States, SendCancelEvents, SwapOutSenderStates,
     SwapInReceiverStates, PreAnchor

\* An anchor is set in two states and not lost.
LEMMA AnchorChange ==
  ASSUME Inv, Next, NEW m \in Node, Up(m), "crash" \notin Faults
  PROVE  \/ data'[m].anchor = data[m].anchor
         \/ /\ data'[m].anchor = chain.height /\ chain' = chain
            /\ cur'[m] \in {"CreateSwap", "AwaitTxBroadcastedMessage"}
            /\ cur'[m] \in NextStates(SwapType, m, cur[m], ev[m])
<1>a. DataOK /\ data[m] \in Data
  BY TypeParts, WorldParts DEF Inv, DataOK
<1>1. CASE Same(m)
  BY <1>1 DEF Same
<1>2. CASE Other(m) /\ ~Crash(m)
  <2>1. CASE \E t \in MessageType : data'[m] = ApplyToSwapData(data[m], t)
    BY <1>a, <2>1, ApplyFields
  <2>2. CASE data'[m] = [data[m] EXCEPT !.preimage = TRUE]
    BY <1>a, <2>2 DEF Data
  <2> QED BY <1>2, <2>1, <2>2, OtherData
<1>3. ASSUME NEW s \in State, NEW r \in ActionResult, Runs(m, s, TRUE, r)
      PROVE  \/ data'[m].anchor = data[m].anchor
             \/ /\ data'[m].anchor = chain.height /\ chain' = chain
                /\ cur'[m] \in {"CreateSwap", "AwaitTxBroadcastedMessage"}
                /\ cur'[m] \in NextStates(SwapType, m, cur[m], ev[m])
  <2>1. /\ Execute(m, s, TRUE, r) /\ cur'[m] = s
        /\ s \in NextStates(SwapType, m, cur[m], ev[m])
    BY <1>3, EnterFacts
  <2>2. CASE data'[m] = [data[m] EXCEPT !.claimTx = TRUE] \/ data'[m] = [data[m] EXCEPT !.openTx = TRUE]
    BY <1>a, <2>2 DEF Data
  <2>3. CASE /\ data'[m] = [data[m] EXCEPT !.anchor = chain.height]
             /\ s \in {"CreateSwap", "AwaitTxBroadcastedMessage"}
    <3>1. data'[m].anchor = chain.height
      BY <1>a, <2>3 DEF Data
    <3>2. chain' = chain
      BY <2>1, <2>3, ExecuteChain
    <3> QED BY <2>1, <2>3, <3>1, <3>2
  <2> QED BY <1>a, <2>1, <2>2, <2>3, ActionData
<1> QED BY <1>1, <1>2, <1>3, CalmKinds

\* The payment loop succeeds with the preimage.
LEMMA LoopSucceeds ==
  ASSUME Inv, NEW n \in Node, Other(n), ~Crash(n), Up(n), NEW s \in Confirmed,
         Returned(n, s)', pc[n] \notin {"event", "save"}, cur'[n] = cur[n]
  PROVE  data'[n].preimage
<1>a. PcOK /\ EvOK /\ DataOK
  BY TypeParts, WorldParts DEF Inv
<1>b. pc'[n] \in {"event", "save", "rsave"} /\ ev'[n] = "ActionSucceeded" /\ cur[n] = s
  BY DEF Returned
<1>c. disk[n].cur # "Absent"
  BY <1>b DEF Inv, NodeInv, ControlAt, Confirmed
<1>1. ~\/ StartSwap(n) \/ ReceiveRequest(n) \/ RefuseRequest(n)
       \/ \E t \in MessageType : IgnoreMessage(n, t)
       \/ ResendMessage(n) \/ Reject(n) \/ Save(n) \/ Restart(n) \/ Resumes(n)
  BY <1>a, <1>b, <1>c
  DEF StartSwap, ReceiveRequest, NewSwap, RefuseRequest, IgnoreMessage, ResendMessage,
      Reject, Save, Restart, Resumes, PcOK, Up
<1>2. ASSUME NEW e \in Event \ {"ActionSucceeded"}, NEW d, Post(n, e, d)
      PROVE  FALSE
  BY <1>2, <1>a, <1>b DEF Post, EvOK
<1>3. ~\E t \in MessageType : ReceiveMessage(n, t)
  <2>1. \A t \in MessageType : EventOf(t) \in Event \ {"ActionSucceeded"}
    BY DEF EventOf, Event
  <2>2. "OnInvalid_Message" \in Event \ {"ActionSucceeded"}
    BY DEF Event
  <2> QED BY <1>2, <2>1, <2>2 DEF ReceiveMessage
<1>4. ~\/ Timeout(n) \/ FeeInvoicePaid(n) \/ ClaimInvoicePaid(n)
       \/ OnCsvPassed(n) \/ RpcTxConfirmed(n) \/ LndTxConfirmed(n)
  <2>1. {"OnTimeout", "OnFeeInvoicePaid", "OnClaimInvoicePaid", "OnCsvPassed",
         "OnTxConfirmed", "ActionFailed"} \subseteq Event \ {"ActionSucceeded"}
    BY DEF Event
  <2>2. pc' # pc
    BY <1>b DEF Up
  <2> QED BY <1>2, <2>1, <2>2
      DEF Timeout, FeeInvoicePaid, ClaimInvoicePaid, OnCsvPassed, RpcTxConfirmed,
          LndTxConfirmed, Callback
<1>5. ~(PayTimeout(n) \/ PayTick(n))
  BY <1>a, <1>b DEF PayTimeout, PayTick, Return, PcOK, EvOK
<1>6. PayReturn(n)
  BY <1>1, <1>3, <1>4, <1>5 DEF Other
<1> QED BY <1>a, <1>b, <1>6, SMT, SMTT(20) DEF PayReturn, Return, PcOK, DataOK, Data

\* The taker has its anchor before the confirmation, a payment that is through
\* has its preimage, and a swap-out's claim does not fail.
TakerInv ==
  /\ SwapType = "in" /\ cur["taker"] \in {"Default", "CreateSwap"} => Commitment \notin wire
  /\ SwapType = "out" /\ cur["taker"] \in PreAnchor \ {"PayFeeInvoice"} => ~ln.fee
  /\ cur["taker"] \in PreAnchor => chain.open # "confirmed"
  /\ cur["taker"] \in Confirmed => data["taker"].anchor # 0
  /\ Posted("taker", "OnTxConfirmed") => data["taker"].anchor # 0
  /\ "conf" \in vol["taker"].watch => data["taker"].anchor # 0
  /\ Returned("taker", "ValidateTxAndPayClaimInvoice") => data["taker"].preimage
  /\ SwapType = "out" /\ cur["taker"] = "ClaimSwap" => Returned("taker", "ClaimSwap")

\* What an HTLC that has its time relates: the anchor, the confirmation, the
\* start of the payment, its resolution and the CSV.
TimeInv ==
  /\ chain.open = "confirmed" /\ data["taker"].anchor # 0
       => data["taker"].anchor < chain.conf
  /\ ln.pay \in {"inflight", "settled"} => ln.since < chain.conf + PaymentWindow
  /\ ln.pay = "inflight" => chain.height < ln.since + CltvDelta
  /\ ln.pay = "settled" /\ CsvPassed => cur["maker"] = "ClaimedPreimage"

\* What the claims leave behind.
SpentInv ==
  /\ chain.spent = "csv" => CsvPassed /\ cur["maker"] \in {"ClaimSwapCsv", "ClaimedCsv"}
  /\ chain.spent = "coop" => KeyRevealed /\ chain.open # "none"
  /\ chain.spent = "preimage" => ln.pay = "settled" /\ data["taker"].claimTx

\* The taker enters ClaimSwap with a payment that is through, and the output is
\* there for it.
LEMMA ClaimWorks ==
  ASSUME CauseInv, PayInv, TakerInv, TimeInv, SpentInv, SwapType = "out",
         "claimFails" \notin Faults, NEW r \in ActionResult,
         Runs("taker", "ClaimSwap", TRUE, r)
  PROVE  r = "ActionSucceeded"
<1> USE DEF CauseInv
<1>a. "taker" \in Node /\ "ClaimSwap" \in State
  BY DEF Node, State, TakerState
<1>b. DataOK /\ LnOK /\ ChainOK
  BY TypeParts, WorldParts DEF Inv
<1>1. /\ pc["taker"] = "event"
      /\ "ClaimSwap" \in NextStates(SwapType, "taker", cur["taker"], ev["taker"])
      /\ Execute("taker", "ClaimSwap", TRUE, r)
  BY <1>a, EnterFacts
<1>2. cur["taker"] = "ValidateTxAndPayClaimInvoice" /\ ev["taker"] = "ActionSucceeded"
  BY <1>1, TableTaker DEF TakerInv, Returned
<1>3. data["taker"].preimage /\ ln.pay = "settled"
  BY <1>1, <1>2 DEF TakerInv, Returned, PayInv
<1>4. chain.spent # "csv"
  BY <1>3 DEF SpentInv, TimeInv
<1>5. chain.spent # "coop"
  BY <1>2 DEF SpentInv, Inv, WireInv, KeyRevealed, Closing
<1>6. chain.spent = "none" \/ data["taker"].claimTx
  BY <1>b, <1>4, <1>5 DEF SpentInv, ChainOK
<1>7. Claim("taker", "preimage", data["taker"].preimage, "OnRetry", r)
  BY <1>1 DEF Execute, ClaimSwapTransactionWithPreimageAction, Finished
<1> QED BY <1>3, <1>6, <1>7 DEF Claim

\* TakerInv is preserved.
LEMMA TakerStep ==
  ASSUME CauseInv, OnceInv, PayInv, RequestInv, WorkInv, MakerInv,
         TakerInv, TimeInv, SpentInv, Next, Inv',
         Faults \cap {"crash", "slow"} = {},
         SwapType = "out" => "claimFails" \notin Faults
  PROVE  TakerInv'
<1> USE DEF CauseInv
<1>a. /\ "taker" \in Node /\ Peer("taker") = "maker" /\ Up("taker")
      /\ "crash" \notin Faults /\ "slow" \notin Faults
  BY DEF Node, Peer, PayInv
<1>b. DataOK /\ LnOK /\ ChainOK /\ data["taker"] \in Data
  BY TypeParts, WorldParts DEF Inv, DataOK, Node
<1>c. /\ Sent(<<"maker", "agreement">>) => cur'["taker"] \in {"SendAgreement", "SendFeeInvoice"}
      /\ wire \subseteq wire'
  <2> HIDE DEF Sent
  <2> QED BY <1>a, Messages
<1>d. \/ cur'["taker"] = cur["taker"]
      \/ /\ cur'["taker"] \in NextStates(SwapType, "taker", cur["taker"], ev["taker"])
         /\ pc["taker"] = "event"
  BY <1>a, CurStep
<1>1. SwapType = "in" /\ cur'["taker"] \in {"Default", "CreateSwap"} => Commitment \notin wire'
  <2> SUFFICES ASSUME SwapType = "in", cur'["taker"] \in {"Default", "CreateSwap"}
               PROVE  Commitment \notin wire'
    OBVIOUS
  <2>1. cur["taker"] \in {"Default", "CreateSwap"}
    BY <1>a, <1>d, TablePaths, SMT, SMTT(20)
  <2>2. Commitment = <<"maker", "agreement">>
    BY DEF Commitment
  <2> QED BY <1>c, <2>1, <2>2 DEF TakerInv, Sent
<1>2. SwapType = "out" /\ cur'["taker"] \in PreAnchor \ {"PayFeeInvoice"} => ~ln'.fee
  <2> SUFFICES ASSUME SwapType = "out", cur'["taker"] \in PreAnchor \ {"PayFeeInvoice"}
               PROVE  ~ln'.fee
    OBVIOUS
  <2>1. cur["taker"] \in PreAnchor \ {"PayFeeInvoice"}
    BY <1>d, TableTaker
  <2> QED BY <2>1, LnStep DEF TakerInv
<1>3. cur'["taker"] \in PreAnchor => chain'.open # "confirmed"
  <2> SUFFICES ASSUME cur'["taker"] \in PreAnchor, chain'.open = "confirmed" PROVE FALSE
    OBVIOUS
  <2>1. cur["taker"] \in PreAnchor /\ chain.open # "confirmed"
    BY <1>d, TableTaker DEF TakerInv
  <2>2. Tick /\ chain.open = "mempool"
    BY <1>a, <2>1, ChainKept
  <2>3. cur["taker"] # Working
    BY <1>a, <2>2, NoTick DEF WorkInv
  <2>4. CASE SwapType = "in"
    <3>1. cur["taker"] \in {"Default", "CreateSwap"}
      BY <2>1, <2>3, <2>4 DEF PreAnchor, Working, RequestInv
    <3> QED BY <2>2, <2>4, <3>1 DEF TakerInv, CommitInv
  <2>5. CASE SwapType = "out"
    <3>1. cur["taker"] \in PreAnchor \ {"PayFeeInvoice"}
      BY <2>1, <2>3, <2>5 DEF PreAnchor, Working
    <3> QED BY <2>2, <2>5, <3>1 DEF TakerInv, MakerInv
  <2> QED BY <2>4, <2>5, SwapAssumption
<1>4. data["taker"].anchor # 0 => data'["taker"].anchor # 0
  BY <1>a, <1>b, AnchorChange DEF ChainOK
<1>5. "conf" \in vol'["taker"].watch \ vol["taker"].watch => data'["taker"].anchor # 0
  <2>1. ASSUME NEW s \in State, NEW r \in ActionResult, Runs("taker", s, TRUE, r),
               "conf" \in vol'["taker"].watch \ vol["taker"].watch
        PROVE  data["taker"].anchor # 0
    <3>1. Execute("taker", s, TRUE, r) /\ WorldOK
      BY <1>a, <2>1, EnterFacts
    <3> QED BY <1>a, <2>1, <3>1, ExecuteWatch DEF InPaymentWindow
  <2>2. Other("taker") \/ Same("taker") => ~("conf" \in vol'["taker"].watch \ vol["taker"].watch)
    BY <1>a, OtherVol DEF Same
  <2> QED BY <1>4, <1>a, <2>1, <2>2, CalmKinds
<1>6. Posted("taker", "OnTxConfirmed")' => data'["taker"].anchor # 0
  <2>1. "OnTxConfirmed" \in OnEvent
    BY DEF OnEvent, Event, ActionResult
  <2> QED BY <1>4, <1>a, <2>1, PostedStep, PostedCause DEF TakerInv
<1>7. cur'["taker"] \in Confirmed => data'["taker"].anchor # 0
  <2>1. cur'["taker"] \in Confirmed =>
          cur["taker"] \in Confirmed \/ Posted("taker", "OnTxConfirmed")
    BY <1>d, TableCauses, SMT, SMTT(20) DEF Posted
  <2> QED BY <1>4, <2>1 DEF TakerInv
<1>8. "conf" \in vol'["taker"].watch => data'["taker"].anchor # 0
  BY <1>4, <1>5 DEF TakerInv
<1>9. Returned("taker", "ValidateTxAndPayClaimInvoice")' => data'["taker"].preimage
  <2> SUFFICES ASSUME Returned("taker", "ValidateTxAndPayClaimInvoice")'
               PROVE  data'["taker"].preimage
    OBVIOUS
  <2>a. data["taker"].preimage => data'["taker"].preimage
    BY <1>a, DataKept DEF Crash
  <2>1. CASE Same("taker")
    BY <2>1, <2>a DEF Same, Returned, TakerInv
  <2>2. CASE Other("taker") /\ ~Crash("taker") /\ cur' = cur
    <3>1. CASE pc["taker"] \in {"event", "save"}
      <4>1. ev'["taker"] = ev["taker"]
        BY <1>a, <2>2, <3>1, Busy
      <4> QED BY <2>2, <2>a, <3>1, <4>1 DEF Returned, TakerInv
    <3>2. CASE pc["taker"] \notin {"event", "save"}
      <4>1. "ValidateTxAndPayClaimInvoice" \in Confirmed
        BY DEF Confirmed
      <4> QED BY <1>a, <2>2, <3>2, <4>1, LoopSucceeds
    <3> QED BY <3>1, <3>2
  <2>3. ASSUME NEW s \in State, NEW r \in ActionResult, Runs("taker", s, TRUE, r)
        PROVE  FALSE
    <3>1. Execute("taker", s, TRUE, r) /\ cur'["taker"] = s /\ ev'["taker"] = r
      BY <1>a, <2>3, EnterFacts
    <3>2. s = "ValidateTxAndPayClaimInvoice" /\ r = "ActionSucceeded"
      BY <3>1 DEF Returned
    <3> QED BY <3>1, <3>2 DEF Execute, ValidateTxAndPayClaimInvoiceAction, Finished
  <2> QED BY <1>a, <2>1, <2>2, <2>3, CalmKinds
<1>10. SwapType = "out" /\ cur'["taker"] = "ClaimSwap" => Returned("taker", "ClaimSwap")'
  <2> SUFFICES ASSUME SwapType = "out", cur'["taker"] = "ClaimSwap"
               PROVE  Returned("taker", "ClaimSwap")'
    OBVIOUS
  <2>1. CASE Same("taker")
    BY <2>1 DEF Same, Returned, TakerInv
  <2>2. CASE Other("taker") /\ ~Crash("taker") /\ cur' = cur
    <3>1. pc["taker"] \in {"event", "save", "rsave"} /\ ev["taker"] = "ActionSucceeded"
          /\ cur["taker"] = "ClaimSwap"
      BY <2>2 DEF TakerInv, Returned
    <3>2. NextStates(SwapType, "taker", "ClaimSwap", "ActionSucceeded") # {}
      <4>1. <<"ClaimSwap", "ActionSucceeded", "ClaimedPreimage">> \in States(SwapType, "taker")
        BY DEF States, SwapOutSenderStates
      <4> QED BY <4>1, SMT, SMTT(20) DEF NextStates, Lookup
    <3>3. pc'["taker"] \in {"event", "save", "rsave"} /\ ev'["taker"] = "ActionSucceeded"
      BY <1>a, <2>2, <3>1, <3>2, Busy
    <3> QED BY <3>3 DEF Returned
  <2>3. ASSUME NEW s \in State, NEW r \in ActionResult, Runs("taker", s, TRUE, r)
        PROVE  Returned("taker", "ClaimSwap")'
    <3>1. cur'["taker"] = s /\ ev'["taker"] = r /\ pc'["taker"] = AfterAction(r, "save")
      BY <1>a, <2>3, EnterFacts
    <3>2. s = "ClaimSwap"
      BY <3>1
    <3>3. r = "ActionSucceeded"
      BY <2>3, <3>2, ClaimWorks
    <3> QED BY <3>1, <3>3 DEF Returned, AfterAction
  <2> QED BY <1>a, <2>1, <2>2, <2>3, CalmKinds
<1> QED BY <1>1, <1>2, <1>3, <1>6, <1>7, <1>8, <1>9, <1>10 DEF TakerInv, Commitment
-----------------------------------------------------------------------------
(* The maker waits for the payment. *)

\* The key, the CSV or the taker has ended the swap.
Over == KeyRevealed \/ CsvPassed \/ cur["taker"] \in Closing

\* Until then the maker that has sent the opening message waits for the claim
\* payment, or has it.
WaitInv ==
  Opening \in wire /\ ~Over =>
    \/ Returned("maker", "SendTxBroadcastedMessage")
    \/ /\ cur["maker"] = "AwaitClaimPayment" /\ "pay" \in vol["maker"].watch
       /\ pc["maker"] = "save" /\ ev["maker"] = "NoOp"
    \/ /\ cur["maker"] = "AwaitClaimPayment" /\ pc["maker"] \in {"idle", "event"}
       /\ "pay" \in vol["maker"].watch \/ Posted("maker", "OnClaimInvoicePaid")
    \/ cur["maker"] = "ClaimedPreimage" /\ ln.pay = "settled"

\* The ways out of the states around the wait.
LEMMA TableWait ==
  /\ NextStates(SwapType, "maker", "SendTxBroadcastedMessage", "ActionSucceeded")
       = {"AwaitClaimPayment"}
  /\ NextStates(SwapType, "maker", "AwaitClaimPayment", "OnClaimInvoicePaid")
       = {"ClaimedPreimage"}
  /\ \A e : NextStates(SwapType, "maker", "AwaitClaimPayment", e) # {} =>
       e \in {"OnClaimInvoicePaid", "OnCancelReceived", "OnCoopCloseReceived",
              "OnCsvPassed", "OnInvalid_Message"}
  /\ \A e : NextStates(SwapType, "maker", "ClaimSwapCsv", e)
              \subseteq {"ClaimSwapCsv", "ClaimedCsv"}
  /\ \A e : NextStates(SwapType, "maker", "ClaimedCsv", e) = {}
<1>a. MakerRefundEvents \subseteq States(SwapType, "maker")
  BY DEF States, SwapInSenderStates, SwapOutReceiverStates
<1>b. /\ <<"SendTxBroadcastedMessage", "ActionSucceeded", "AwaitClaimPayment">>
           \in MakerRefundEvents
      /\ <<"AwaitClaimPayment", "OnClaimInvoicePaid", "ClaimedPreimage">>
           \in MakerRefundEvents
  BY DEF MakerRefundEvents
<1>c. /\ "AwaitClaimPayment" \in
           NextStates(SwapType, "maker", "SendTxBroadcastedMessage", "ActionSucceeded")
      /\ "ClaimedPreimage" \in
           NextStates(SwapType, "maker", "AwaitClaimPayment", "OnClaimInvoicePaid")
  BY <1>a, <1>b, SMT, SMTT(20) DEF NextStates, Lookup
<1> USE DEF NextStates, Lookup, States, SendCancelEvents, MakerRefundEvents,
            SwapInSenderStates, SwapOutReceiverStates
<1>1. ASSUME NEW t \in NextStates(SwapType, "maker", "SendTxBroadcastedMessage",
                                  "ActionSucceeded")
      PROVE  t = "AwaitClaimPayment"
  BY <1>1, SMT, SMTT(20)
<1>2. ASSUME NEW t \in NextStates(SwapType, "maker", "AwaitClaimPayment",
                                  "OnClaimInvoicePaid")
      PROVE  t = "ClaimedPreimage"
  BY <1>2, SMT, SMTT(20)
<1>3. ASSUME NEW e, NEW t \in NextStates(SwapType, "maker", "AwaitClaimPayment", e)
      PROVE  e \in {"OnClaimInvoicePaid", "OnCancelReceived", "OnCoopCloseReceived",
                    "OnCsvPassed", "OnInvalid_Message"}
  BY <1>3, SMT, SMTT(20)
<1>4. ASSUME NEW e, NEW t \in NextStates(SwapType, "maker", "ClaimSwapCsv", e)
      PROVE  t \in {"ClaimSwapCsv", "ClaimedCsv"}
  BY <1>4, SMT, SMTT(20)
<1>5. ASSUME NEW e, NEW t \in NextStates(SwapType, "maker", "ClaimedCsv", e)
      PROVE  FALSE
  BY <1>5, SMT, SMTT(20)
<1> HIDE DEF NextStates
<1> QED BY <1>c, <1>1, <1>2, <1>3, <1>4, <1>5

\* What is over stays over.
LEMMA OverStep ==
  ASSUME CauseInv, OnceInv, Up("taker"), Next, "crash" \notin Faults, Over
  PROVE  Over'
<1>1. KeyRevealed => KeyRevealed'
  BY Messages DEF CauseInv, KeyRevealed
<1>2. CsvPassed => CsvPassed'
  BY ChainKept
<1>3. cur["taker"] \in Closing => cur'["taker"] \in Closing
  BY CurStep, TablePaths DEF CauseInv, Closing, Node
<1> QED BY <1>1, <1>2, <1>3 DEF Over

\* Every event but the payment's that moves the waiting maker means that the
\* swap is over.
LEMMA OtherEventsEnd ==
  ASSUME CauseInv, RequestInv, CancelInv, EventInv, cur["maker"] = "AwaitClaimPayment",
         pc["maker"] = "event", ev["maker"] # "OnClaimInvoicePaid",
         NextStates(SwapType, "maker", cur["maker"], ev["maker"]) # {}
  PROVE  Over
<1>1. ev["maker"] \in {"OnCancelReceived", "OnCoopCloseReceived", "OnCsvPassed",
                       "OnInvalid_Message"}
  BY TableWait
<1>2. cur["maker"] \in Funded
  BY DEF Funded
<1>3. CASE Posted("maker", "OnCancelReceived")
  <2>1. Commitment \in wire
    BY <1>2 DEF CauseInv, CommitInv
  <2>2. SwapType = "in" => disk["taker"].cur # "Absent"
    BY <2>1 DEF RequestInv
  <2>3. cur["taker"] \in Closing
    BY <1>3, <2>2 DEF EventInv, CancelInv
  <2> QED BY <2>3 DEF Over
<1>4. CASE \/ Posted("maker", "OnCoopCloseReceived") \/ Posted("maker", "OnCsvPassed")
           \/ Posted("maker", "OnInvalid_Message")
  BY <1>2, <1>4 DEF EventInv, Over
<1> QED BY <1>1, <1>3, <1>4 DEF Posted

\* A callback or a message finds the machine idle.
LEMMA Idle ==
  ASSUME Inv, NEW n \in Node, Other(n), ~Crash(n), pc[n] = "idle"
  PROVE  pc'[n] \in {"idle", "event"}
<1>a. PcOK
  BY TypeParts DEF Inv
<1>1. CASE \/ StartSwap(n) \/ ReceiveRequest(n) \/ RefuseRequest(n)
           \/ \E t \in MessageType : ReceiveMessage(n, t) \/ IgnoreMessage(n, t)
           \/ ResendMessage(n) \/ Reject(n) \/ Save(n) \/ Restart(n) \/ Resumes(n)
  BY <1>1, <1>a
  DEF StartSwap, ReceiveRequest, NewSwap, RefuseRequest, ReceiveMessage, Post,
      IgnoreMessage, ResendMessage, Reject, Save, Restart, Resumes, PcOK
<1>2. CASE \/ Timeout(n) \/ FeeInvoicePaid(n) \/ ClaimInvoicePaid(n)
           \/ OnCsvPassed(n) \/ RpcTxConfirmed(n) \/ LndTxConfirmed(n)
           \/ PayTimeout(n) \/ PayTick(n) \/ PayReturn(n)
  BY <1>2, <1>a
  DEF Timeout, FeeInvoicePaid, ClaimInvoicePaid, OnCsvPassed, RpcTxConfirmed,
      LndTxConfirmed, Callback, Post, PayTimeout, PayTick, PayReturn, PcOK
<1> QED BY <1>1, <1>2 DEF Other

\* WaitInv is preserved.
LEMMA WaitStep ==
  ASSUME CauseInv, OnceInv, Up("taker"), RequestInv, CancelInv, EventInv, MakerInv,
         WaitInv, Next, "crash" \notin Faults
  PROVE  WaitInv'
<1> USE DEF CauseInv
<1> SUFFICES ASSUME Opening \in wire', ~Over'
             PROVE  WaitInv'
  BY DEF WaitInv, Opening
<1>a. "maker" \in Node /\ Up("maker") /\ Peer("maker") = "taker"
  BY DEF Node, Peer, OnceInv, NoCrashOnce
<1>b. ~Over
  BY OverStep
<1>c. ln.pay = "settled" => ln'.pay = "settled"
  BY LnStep
<1>d. "AwaitClaimPayment" # "ClaimedPreimage" /\ "SendTxBroadcastedMessage" # "AwaitClaimPayment"
  OBVIOUS
<1>1. CASE Opening \notin wire
  <2>1. Sent(<<Peer("maker"), "opening">>)
    BY <1>1, <1>a DEF Sent, Opening
  <2>2. /\ Acts("maker") /\ cur'["maker"] = "SendTxBroadcastedMessage"
        /\ ev'["maker"] = "ActionSucceeded"
    <3> HIDE DEF Sent
    <3> QED BY <1>1, <1>a, <2>1, Messages DEF MakerInv
  <2>3. PICK s \in State, r \in ActionResult : Runs("maker", s, TRUE, r)
    <3>1. PICK s \in State, locked \in BOOLEAN, r \in ActionResult :
            Runs("maker", s, locked, r)
      BY <2>2 DEF Acts
    <3>2. locked = TRUE
      BY <1>a, <3>1 DEF Runs, Up
    <3> QED BY <3>1, <3>2
  <2>4. ev'["maker"] = r /\ pc'["maker"] = AfterAction(r, "save")
    BY <1>a, <2>3, EnterFacts
  <2>5. Returned("maker", "SendTxBroadcastedMessage")'
    BY <2>2, <2>4 DEF Returned, AfterAction
  <2> QED BY <2>5 DEF WaitInv
<1>2. CASE Opening \in wire /\ Returned("maker", "SendTxBroadcastedMessage")
  <2>a. /\ cur["maker"] = "SendTxBroadcastedMessage" /\ ev["maker"] = "ActionSucceeded"
        /\ pc["maker"] \in {"event", "save", "rsave"}
    BY <1>2 DEF Returned
  <2>1. CASE Same("maker")
    <3>1. Returned("maker", "SendTxBroadcastedMessage")'
      BY <2>a, <2>1 DEF Same, Returned
    <3> QED BY <3>1 DEF WaitInv
  <2>2. CASE Other("maker") /\ ~Crash("maker") /\ cur' = cur
    <3>1. pc'["maker"] \in {"event", "save", "rsave"} /\ ev'["maker"] = ev["maker"]
      BY <1>a, <2>2, <2>a, Busy, TableWait
    <3>2. Returned("maker", "SendTxBroadcastedMessage")'
      BY <2>2, <2>a, <3>1 DEF Returned
    <3> QED BY <3>2 DEF WaitInv
  <2>3. ASSUME NEW s \in State, NEW r \in ActionResult, Runs("maker", s, TRUE, r)
        PROVE  WaitInv'
    <3>1. /\ s \in NextStates(SwapType, "maker", cur["maker"], ev["maker"])
          /\ cur'["maker"] = s /\ ev'["maker"] = r /\ pc'["maker"] = AfterAction(r, "save")
          /\ Execute("maker", s, TRUE, r) /\ WorldOK
      BY <1>a, <2>3, EnterFacts
    <3>2. s = "AwaitClaimPayment"
      BY <2>a, <3>1, TableWait
    <3>3. AwaitCsvAction("maker", s, TRUE, r)
      BY <3>1, <3>2 DEF Execute, Finished
    <3>4. r = "NoOp"
      BY <1>b, <3>3 DEF AwaitCsvAction, Over
    <3>5. "pay" \in vol'["maker"].watch
      BY <1>a, <3>1, <3>2, ExecuteWatch
    <3> QED BY <3>1, <3>2, <3>4, <3>5 DEF WaitInv, AfterAction
  <2> QED BY <1>a, <2>1, <2>2, <2>3, CalmKinds
<1>3. CASE /\ cur["maker"] = "AwaitClaimPayment" /\ "pay" \in vol["maker"].watch
           /\ pc["maker"] = "save" /\ ev["maker"] = "NoOp"
  <2>1. CASE Same("maker")
    BY <1>3, <2>1 DEF Same, WaitInv
  <2>2. CASE Other("maker") /\ ~Crash("maker") /\ cur' = cur
    <3>1. /\ pc'["maker"] \in {"save", "idle"} /\ ev'["maker"] = ev["maker"]
          /\ vol'["maker"].watch = vol["maker"].watch
      BY <1>3, <1>a, <2>2, Busy
    <3> QED BY <1>3, <2>2, <3>1 DEF WaitInv
  <2>3. ASSUME NEW s \in State, NEW r \in ActionResult, Runs("maker", s, TRUE, r)
        PROVE  FALSE
    BY <1>3, <1>a, <2>3, EnterFacts
  <2> QED BY <1>a, <2>1, <2>2, <2>3, CalmKinds
<1>4. CASE /\ cur["maker"] = "AwaitClaimPayment" /\ pc["maker"] \in {"idle", "event"}
           /\ "pay" \in vol["maker"].watch \/ Posted("maker", "OnClaimInvoicePaid")
  <2>1. CASE Same("maker")
    BY <1>4, <2>1 DEF Same, WaitInv, Posted
  <2>2. CASE Other("maker") /\ ~Crash("maker") /\ cur' = cur
    <3>1. pc'["maker"] \in {"idle", "event"}
      BY <1>4, <1>a, <2>2, Busy, Idle
    <3>2. "pay" \in vol["maker"].watch
            => "pay" \in vol'["maker"].watch \/ Posted("maker", "OnClaimInvoicePaid")'
      BY <1>a, <2>2, OtherVol
    <3>3. Posted("maker", "OnClaimInvoicePaid") => Posted("maker", "OnClaimInvoicePaid")'
      BY <1>4, <1>a, <2>2, Busy, TableWait DEF Posted
    <3> QED BY <1>4, <2>2, <3>1, <3>2, <3>3 DEF WaitInv
  <2>3. ASSUME NEW s \in State, NEW r \in ActionResult, Runs("maker", s, TRUE, r)
        PROVE  WaitInv'
    <3>1. /\ s \in NextStates(SwapType, "maker", cur["maker"], ev["maker"])
          /\ cur'["maker"] = s /\ pc["maker"] = "event"
      BY <1>a, <2>3, EnterFacts
    <3>2. ev["maker"] = "OnClaimInvoicePaid"
      BY <1>4, <1>b, <3>1, OtherEventsEnd
    <3>3. s = "ClaimedPreimage"
      BY <1>4, <3>1, <3>2, TableWait
    <3>4. ln'.pay = "settled"
      BY <1>c, <3>1, <3>2 DEF EventInv, Posted
    <3> QED BY <3>1, <3>3, <3>4 DEF WaitInv
  <2> QED BY <1>a, <2>1, <2>2, <2>3, CalmKinds
<1>5. CASE cur["maker"] = "ClaimedPreimage" /\ ln.pay = "settled"
  <2>1. cur'["maker"] = "ClaimedPreimage"
    BY <1>5, <1>a, CurStep, TableClaim
  <2> QED BY <1>5, <1>c, <2>1 DEF WaitInv
<1> QED BY <1>1, <1>2, <1>3, <1>4, <1>5, <1>b DEF WaitInv
-----------------------------------------------------------------------------
(* Time. *)

\* The two timelocks that the code derives from its constants: the taker starts
\* to pay in the first half of the CSV, and a payment that started then is
\* resolved before the CSV has passed.
Timelocks == PaymentWindow <= Csv \div 2 /\ PaymentWindow + CltvDelta <= Csv

\* A payment in flight is resolved before the CSV.
LEMMA ResolvedInTime ==
  ASSUME CauseInv, TimeInv, Timelocks, ln.pay = "inflight"
  PROVE  ~CsvPassed
<1>1. /\ Csv \in Nat /\ PaymentWindow \in Nat /\ CltvDelta \in Nat
      /\ chain.height \in Nat /\ chain.conf \in Nat /\ ln.since \in Nat
  BY TypeParts, WorldParts, SwapAssumption DEF CauseInv, Inv, ChainOK, LnOK
<1>2. ln.since < chain.conf + PaymentWindow /\ chain.height < ln.since + CltvDelta
  BY DEF TimeInv
<1>3. PaymentWindow + CltvDelta <= Csv
  BY DEF Timelocks
<1>4. chain.height - chain.conf + 1 < Csv
  BY <1>1, <1>2, <1>3, SMT, SMTT(20)
<1> QED BY <1>1, <1>4, SMT, SMTT(20) DEF CsvPassed, Confirmations

\* The taker's anchor stays before the confirmation.
LEMMA AnchorBefore ==
  ASSUME CauseInv, OnceInv, Up("taker"), TakerInv, TimeInv, Next, "crash" \notin Faults,
         chain'.open = "confirmed", data'["taker"].anchor # 0
  PROVE  data'["taker"].anchor < chain'.conf
<1> USE DEF CauseInv
<1>a. "taker" \in Node /\ ChainOK /\ data["taker"].anchor \in Nat
  BY TypeParts, WorldParts DEF Node, Inv, DataOK, Data
<1>1. CASE chain.open # "confirmed"
  <2>1. Tick /\ chain'.conf = chain.height + 1
    BY <1>1, ChainKept
  <2>2. data' = data
    BY <2>1 DEF Tick
  <2> QED BY <1>a, <2>1, <2>2, SMT, SMTT(20) DEF AnchorInv, ChainOK
<1>2. CASE chain.open = "confirmed"
  <2>1. chain'.conf = chain.conf
    BY <1>2, ChainKept
  <2>2. ~(/\ cur'["taker"] \in {"CreateSwap", "AwaitTxBroadcastedMessage"}
          /\ cur'["taker"] \in NextStates(SwapType, "taker", cur["taker"], ev["taker"]))
    <3> SUFFICES ASSUME cur'["taker"] \in {"CreateSwap", "AwaitTxBroadcastedMessage"},
                        cur'["taker"] \in NextStates(SwapType, "taker", cur["taker"],
                                                     ev["taker"])
                 PROVE  FALSE
      OBVIOUS
    <3>1. cur["taker"] \in PreAnchor
      BY <1>a, TablePaths, TableTaker, SMT, SMTT(20) DEF PreAnchor
    <3> QED BY <1>2, <3>1 DEF TakerInv
  <2>3. data'["taker"].anchor = data["taker"].anchor
    BY <1>a, <2>2, AnchorChange
  <2> QED BY <1>2, <2>1, <2>3 DEF TimeInv
<1> QED BY <1>1, <1>2

\* TimeInv is preserved.
LEMMA TimeStep ==
  ASSUME CauseInv, OnceInv, PayInv, TakerInv, TimeInv, WaitInv, Next, Timelocks,
         Faults \cap {"crash", "slow"} = {}
  PROVE  TimeInv'
<1> USE DEF CauseInv
<1>a. /\ "taker" \in Node /\ "maker" \in Node /\ Up("taker") /\ Up("maker")
      /\ "crash" \notin Faults /\ "slow" \notin Faults
  BY DEF Node, PayInv, OnceInv, NoCrashOnce
<1>b. /\ Csv \in Nat /\ PaymentWindow \in Nat /\ CltvDelta \in Nat \ {0}
      /\ chain.height \in Nat /\ chain.conf \in Nat /\ ln.since \in Nat
      /\ data["taker"].anchor \in Nat /\ ChainOK /\ LnOK
  BY TypeParts, WorldParts, SwapAssumption DEF Node, Inv, ChainOK, LnOK, DataOK, Data
<1>c. /\ chain.open = "confirmed" => chain'.conf = chain.conf
      /\ chain'.height # chain.height => Tick
      /\ CsvPassed' /\ ~CsvPassed => Tick
  BY <1>a, ChainKept
<1>1. ln'.pay \in {"inflight", "settled"} => ln'.since < chain'.conf + PaymentWindow
  <2>1. CASE ln'.pay = ln.pay /\ ln'.since = ln.since
    BY <1>c, <2>1 DEF TimeInv, ConfirmInv
  <2>2. CASE ln.pay = "inflight" /\ ln'.since = ln.since /\ chain' = chain
    BY <2>2 DEF TimeInv
  <2>3. CASE /\ cur["taker"] = "ValidateTxAndPayClaimInvoice"
             /\ MayStartPayment(data["taker"])
             /\ ln'.since = chain.height /\ chain' = chain
    <3>1. cur["taker"] \in Confirmed
      BY <2>3 DEF Confirmed
    <3>2. chain.open = "confirmed" /\ data["taker"].anchor # 0
      BY <3>1 DEF ConfirmInv, TakerInv
    <3>3. data["taker"].anchor < chain.conf
      BY <3>2 DEF TimeInv
    <3>4. chain.height <= data["taker"].anchor + PaymentWindow
      BY <1>b, <2>3, SMT, SMTT(20) DEF MayStartPayment, InPaymentWindow
    <3> QED BY <1>b, <2>3, <3>3, <3>4, SMT, SMTT(20)
  <2> QED BY <2>1, <2>2, <2>3, LnStep
<1>2. ln'.pay = "inflight" => chain'.height < ln'.since + CltvDelta
  <2> SUFFICES ASSUME ln'.pay = "inflight" PROVE chain'.height < ln'.since + CltvDelta
    OBVIOUS
  <2>1. CASE ln'.since = chain.height /\ chain' = chain
    BY <1>b, <2>1, SMT, SMTT(20)
  <2>2. CASE ln'.pay = ln.pay /\ ln'.since = ln.since
    <3>1. CASE chain'.height = chain.height
      BY <2>2, <3>1 DEF TimeInv
    <3>2. CASE Tick
      <4>1. chain'.height = chain.height + 1
        BY <1>b, <3>2, TickChain
      <4>2. chain.height + 1 < ln.since + CltvDelta
        BY <2>2, <3>2 DEF Tick
      <4> QED BY <2>2, <4>1, <4>2
    <3> QED BY <1>c, <3>1, <3>2
  <2> QED BY <2>1, <2>2, LnStep
<1>3. ln'.pay = "settled" /\ CsvPassed' => cur'["maker"] = "ClaimedPreimage"
  <2> SUFFICES ASSUME ln'.pay = "settled", CsvPassed' PROVE cur'["maker"] = "ClaimedPreimage"
    OBVIOUS
  <2>1. CASE ln.pay = "settled" /\ CsvPassed
    <3>1. cur["maker"] = "ClaimedPreimage"
      BY <2>1 DEF TimeInv
    <3> QED BY <1>a, <3>1, CurStep, TableClaim
  <2>2. CASE ln.pay = "settled" /\ ~CsvPassed
    <3>1. Tick
      BY <1>c, <2>2
    <3>2. Quiet("maker") /\ cur' = cur
      BY <1>a, <3>1 DEF Tick
    <3>3. ~Over
      BY <2>2, PayHoldsKey DEF Over, KeyHeldWhilePaying
    <3>4. Opening \in wire
      BY <2>2 DEF ConfirmInv
    <3>5. pc["maker"] \notin {"event", "save", "rsave"}
      BY <3>2 DEF Quiet
    <3>6. ~(pc["maker"] = "idle" /\ "pay" \in vol["maker"].watch)
      BY <2>2, <3>2 DEF Quiet
    <3> QED BY <3>2, <3>3, <3>4, <3>5, <3>6 DEF WaitInv, Returned, Posted
  <2>3. CASE ln.pay # "settled"
    <3>1. ln.pay = "inflight" /\ chain' = chain
      BY <2>3, LnStep
    <3>2. ~CsvPassed
      BY <3>1, ResolvedInTime
    <3> QED BY <3>1, <3>2 DEF CsvPassed, Confirmations
  <2> QED BY <2>1, <2>2, <2>3
<1>4. chain'.open = "confirmed" /\ data'["taker"].anchor # 0
        => data'["taker"].anchor < chain'.conf
  BY <1>a, AnchorBefore
<1> QED BY <1>1, <1>2, <1>3, <1>4 DEF TimeInv
-----------------------------------------------------------------------------
(* The claims. *)

\* SpentInv is preserved.
LEMMA SpentStep ==
  ASSUME CauseInv, OnceInv, PayInv, SpentInv, Next, "crash" \notin Faults
  PROVE  SpentInv'
<1> USE DEF CauseInv
<1>a. "taker" \in Node /\ "maker" \in Node /\ Up("taker") /\ Up("maker") /\ ChainOK /\ DataOK
  BY TypeParts, WorldParts DEF Node, Inv, PayInv, OnceInv, NoCrashOnce
<1>b. /\ CsvPassed => CsvPassed'
      /\ chain.open # "none" => chain'.open # "none"
      /\ ln.pay = "settled" => ln'.pay = "settled"
      /\ KeyRevealed => KeyRevealed'
      /\ data["taker"].claimTx => data'["taker"].claimTx
  <2>1. data["taker"].claimTx => data'["taker"].claimTx
    BY <1>a, DataKept DEF Crash
  <2>2. KeyRevealed => KeyRevealed'
    BY Messages DEF KeyRevealed
  <2> QED BY <1>a, <2>1, <2>2, ChainKept, LnStep
<1>c. cur["maker"] \in {"ClaimSwapCsv", "ClaimedCsv"}
        => cur'["maker"] \in {"ClaimSwapCsv", "ClaimedCsv"}
  BY <1>a, CurStep, TableWait
<1>1. CASE chain'.spent = chain.spent
  BY <1>1, <1>b, <1>c DEF SpentInv
<1>2. CASE Claims("taker", "ClaimSwap", "preimage") /\ data["taker"].preimage
  <2>1. chain'.spent = "preimage"
    BY <1>2, <1>a DEF Claims, ChainOK
  <2>2. data'["taker"].claimTx
    BY <1>2, <1>a DEF Claims, DataOK, Data
  <2>3. ln'.pay = "settled"
    BY <1>2, <1>b DEF PayInv
  <2> QED BY <2>1, <2>2, <2>3 DEF SpentInv
<1>3. CASE Claims("maker", "ClaimSwapCoop", "coop") /\ data["maker"].coop /\ data["maker"].openTx
  <2>1. chain'.spent = "coop"
    BY <1>3, <1>a DEF Claims, ChainOK
  <2>2. KeyRevealed' /\ chain'.open # "none"
    BY <1>3, <1>b DEF MessageInv
  <2> QED BY <2>1, <2>2 DEF SpentInv
<1>4. CASE Claims("maker", "ClaimSwapCsv", "csv") /\ CsvPassed
  <2>1. chain'.spent = "csv"
    BY <1>4, <1>a DEF Claims, ChainOK
  <2>2. cur'["maker"] = "ClaimSwapCsv"
    <3>1. "ClaimSwapCsv" \in State /\ "ActionSucceeded" \in ActionResult
      BY DEF State, MakerState, ActionResult
    <3>2. Runs("maker", "ClaimSwapCsv", TRUE, "ActionSucceeded")
      BY <1>4 DEF Claims
    <3> QED BY <1>a, <3>1, <3>2, EnterFacts
  <2> QED BY <1>4, <1>b, <2>1, <2>2 DEF SpentInv
<1>5. CASE Tick
  BY <1>1, <1>5, <1>a, TickChain
<1>6. CASE chain' = [chain EXCEPT !.open = "mempool", !.conf = 0, !.opens = @ + 1]
  BY <1>1, <1>6, <1>a DEF ChainOK
<1> QED BY <1>1, <1>2, <1>3, <1>4, <1>5, <1>6, <1>a, ChainSteps
-----------------------------------------------------------------------------
(* The invariant of a calm swap. *)

\* No crash, no payment call that returns while its HTLC is in flight, no block
\* while a node is at work, and in a swap-out no claim that fails.
Calm ==
  /\ Faults \cap {"crash", "payRpcError", "slow"} = {}
  /\ SwapType = "out" => "claimFails" \notin Faults

\* The inductive invariant of a calm swap.
CalmInv ==
  /\ CauseInv /\ OnceInv /\ PayInv /\ RequestInv /\ CancelInv /\ EventInv
  /\ MakerInv /\ WorkInv /\ TakerInv /\ WaitInv /\ TimeInv /\ SpentInv

\* A swap that has not started satisfies it.
LEMMA CalmInit ==
  ASSUME Init
  PROVE  CalmInv
<1>a. "maker" \in Node /\ "taker" \in Node
  BY DEF Node
<1>b. /\ cur["maker"] = "Default" /\ cur["taker"] = "Default"
      /\ pc["maker"] = "none" /\ pc["taker"] = "none"
      /\ disk["taker"].cur = "Absent" /\ net = {} /\ wire = {}
      /\ chain.open = "none" /\ chain.spent = "none" /\ chain.opens = 0
      /\ ln.fee = FALSE /\ ln.pay = "none"
      /\ vol["maker"].sender = FALSE /\ vol["taker"].watch = {}
  BY <1>a DEF Init, NewVolatile
<1>1. CauseInv /\ PayInv
  BY CauseInit, PayInit
<1>2. OnceInv
  BY <1>b, SMT, SMTT(20) DEF OnceInv, NoCrashOnce, Up
<1>3. RequestInv /\ CancelInv /\ EventInv
  BY <1>b DEF RequestInv, CancelInv, EventInv, Posted, Funded
<1>4. MakerInv /\ WorkInv /\ WaitInv
  BY <1>b DEF MakerInv, WorkInv, WaitInv, Working
<1>5. TakerInv
  BY <1>b DEF TakerInv, Confirmed, Posted, Returned
<1>6. TimeInv /\ SpentInv
  BY <1>b DEF TimeInv, SpentInv
<1> QED BY <1>1, <1>2, <1>3, <1>4, <1>5, <1>6 DEF CalmInv

\* CalmInv is inductive.
LEMMA CalmStep ==
  ASSUME CalmInv, [Next]_vars, Calm, Timelocks
  PROVE  CalmInv'
<1>1. CASE UNCHANGED vars
  <2> USE <1>1 DEF vars, CalmInv
  <2>1. CauseInv'
    BY CauseStep
  <2>2. OnceInv' /\ PayInv'
    BY DEF OnceInv, NoCrashOnce, Up, PayInv, Held, Returned
  <2>3. RequestInv' /\ CancelInv'
    BY DEF RequestInv, CancelInv, Commitment, Request
  <2>4. CsvPassed' = CsvPassed
    BY DEF CsvPassed, Confirmations
  <2>5. EventInv'
    BY <2>4 DEF EventInv, Posted, KeyRevealed
  <2>6. MakerInv' /\ WorkInv'
    BY DEF MakerInv, WorkInv, Opening, Working
  <2>7. TakerInv'
    BY DEF TakerInv, Commitment, Posted, Returned
  <2>8. WaitInv'
    BY <2>4 DEF WaitInv, Over, Opening, KeyRevealed, Posted, Returned
  <2>9. TimeInv' /\ SpentInv'
    BY <2>4 DEF TimeInv, SpentInv, KeyRevealed
  <2> QED BY <2>1, <2>2, <2>3, <2>5, <2>6, <2>7, <2>8, <2>9
<1>2. CASE Next
  <2>a. /\ CauseInv /\ OnceInv /\ PayInv /\ RequestInv /\ CancelInv /\ EventInv
        /\ MakerInv /\ WorkInv /\ TakerInv /\ WaitInv /\ TimeInv /\ SpentInv
        /\ Inv /\ Up("taker") /\ Up("maker")
    BY DEF CalmInv, CauseInv, PayInv, OnceInv, NoCrashOnce
  <2>b. /\ "crash" \notin Faults /\ Faults \cap {"crash", "slow"} = {}
        /\ Faults \cap {"crash", "payRpcError"} = {}
        /\ SwapType = "out" => "claimFails" \notin Faults
    BY DEF Calm
  <2>1. CauseInv' /\ Inv'
    BY <2>a, CauseStep DEF CauseInv
  <2>2. OnceInv'
    BY <1>2, <2>a, <2>b, OnceStep
  <2>3. PayInv'
    <3>1. ~(SwapType = "out" /\ cur["taker"] = "ClaimSwap" /\ Posted("taker", "OnTimeout"))
      BY <2>a DEF TakerInv, Returned, Posted
    <3> QED BY <1>2, <2>a, <2>b, <3>1, PayStep
  <2>4. RequestInv' /\ CancelInv'
    BY <1>2, <2>1, <2>a, <2>b, RequestStep, CancelStep
  <2>5. EventInv'
    BY <1>2, <2>a, <2>b, EventStep
  <2>6. MakerInv'
    BY <1>2, <2>5, <2>a, <2>b, MakerStep
  <2>7. WorkInv'
    BY <1>2, <2>a, <2>b, WorkStep
  <2>8. TakerInv'
    BY <1>2, <2>1, <2>a, <2>b, TakerStep
  <2>9. WaitInv'
    BY <1>2, <2>a, <2>b, WaitStep
  <2>10. TimeInv'
    BY <1>2, <2>a, <2>b, TimeStep
  <2>11. SpentInv'
    BY <1>2, <2>a, <2>b, SpentStep
  <2> QED BY <2>1, <2>2, <2>3, <2>4, <2>5, <2>6, <2>7, <2>8, <2>9, <2>10, <2>11 DEF CalmInv
<1> QED BY <1>1, <1>2

\* The two promises follow from it.
LEMMA CalmSafe ==
  ASSUME CalmInv, Timelocks
  PROVE  PaidOrRefunded /\ KeyHeldWhilePaying
<1>a. Inv /\ PayInv /\ TimeInv /\ SpentInv
  BY DEF CalmInv, CauseInv
<1>1. KeyHeldWhilePaying
  BY <1>a, PayHoldsKey
<1>2. PaidOrRefunded
  BY <1>a, <1>1 DEF PaidOrRefunded, KeyHeldWhilePaying, SpentInv, TimeInv
<1> QED BY <1>1, <1>2

\* It holds in every calm behaviour.
LEMMA CalmInvariance ==
  ASSUME Calm, Timelocks
  PROVE  Spec => []CalmInv
<1>1. Init => CalmInv
  BY CalmInit
<1>2. CalmInv /\ [Next]_vars => CalmInv'
  BY CalmStep
<1> QED BY <1>1, <1>2, PTL DEF Spec

\* A swap with room between the timelocks is atomic for the taker unless a node
\* crashes, a payment call returns too early or a block arrives while a node is
\* at work: a maker that has the claim payment never takes the opening output
\* back, whatever messages are lost, duplicated, late or invalid and whatever
\* RPCs and, in a swap-in, claims fail.
THEOREM CalmPaidOrRefunded ==
  ASSUME Calm, Timelocks
  PROVE  Spec => []PaidOrRefunded
BY CalmInvariance, CalmSafe, PTL

\* Under the same conditions the taker of either swap type holds its key while
\* its claim payment is in flight or settled.
THEOREM CalmHoldsKey ==
  ASSUME Calm, Timelocks
  PROVE  Spec => []KeyHeldWhilePaying
BY CalmInvariance, CalmSafe, PTL
-----------------------------------------------------------------------------
(* The refinement. *)

\* The key is revealed by a step that does nothing else.
LEMMA RevealStep ==
  ASSUME Inv, Next, KeyRevealed', ~KeyRevealed
  PROVE  chain' = chain /\ ln'.pay = ln.pay
<1>a. "taker" \in Node /\ Peer("taker") = "maker"
  BY DEF Node, Peer
<1>1. Sent(<<Peer("taker"), "coop">>)
  BY <1>a DEF Sent, KeyRevealed
<1>2. Acts("taker") /\ cur'["taker"] = "SendCoopClose"
  <2> HIDE DEF Sent
  <2> QED BY <1>a, <1>1, Messages
<1>3. PICK s \in State, locked \in BOOLEAN, r \in ActionResult : Runs("taker", s, locked, r)
  BY <1>2 DEF Acts
<1>4. Execute("taker", s, locked, r)
  BY <1>3 DEF Runs
<1>5. WorldOK /\ s = "SendCoopClose"
  BY <1>2, <1>3, <1>a, RunFacts, SMT, SMTT(20)
<1> QED BY <1>4, <1>5, <1>a, ExecuteChain, ExecutePay, SMT, SMTT(20)

\* Before the broadcast nothing is spent.
LEMMA SpentIsOpen ==
  ASSUME CalmInv, chain.spent # "none"
  PROVE  chain.open # "none"
<1>1. ChainOK
  BY TypeParts, WorldParts DEF CalmInv, CauseInv, Inv
<1> QED BY <1>1 DEF CalmInv, SpentInv, CsvPassed, CauseInv, ConfirmInv, ChainOK

\* The HTLC is locked, claimed after the payment, or refunded without one.
LEMMA HtlcStep ==
  ASSUME CalmInv, Next, Calm, Timelocks, ln'.pay = ln.pay
  PROVE  \/ Htlc' = Htlc
         \/ Htlc = "none" /\ Htlc' = "locked"
         \/ Htlc = "locked" /\ Htlc' = "claimed" /\ Payment = "done"
         \/ Htlc = "locked" /\ Htlc' = "refunded" /\ Payment = "none"
<1>a. /\ CauseInv /\ OnceInv /\ PayInv /\ TimeInv /\ SpentInv /\ Inv
      /\ Up("taker") /\ "crash" \notin Faults /\ ChainOK /\ LnOK
  BY TypeParts, WorldParts DEF CalmInv, CauseInv, Inv, PayInv, Calm
<1>1. CASE chain' = chain
  BY <1>1 DEF Htlc
<1>2. CASE Tick
  BY <1>2, <1>a, TickChain DEF Htlc
<1>3. CASE /\ chain.open = "none"
           /\ chain' = [chain EXCEPT !.open = "mempool", !.conf = 0, !.opens = @ + 1]
  <2>1. chain'.open = "mempool" /\ chain'.spent = chain.spent
    BY <1>3, <1>a DEF ChainOK
  <2>2. chain.spent = "none"
    BY <1>3, SpentIsOpen
  <2> QED BY <1>3, <2>1, <2>2 DEF Htlc
<1>4. CASE Claims("taker", "ClaimSwap", "preimage") /\ data["taker"].preimage
  <2>1. chain'.open = chain.open /\ chain'.spent = "preimage" /\ chain.spent = "none"
    BY <1>4, <1>a DEF Claims, ChainOK
  <2>2. ln.pay = "settled"
    BY <1>4, <1>a DEF PayInv
  <2>3. chain.open # "none"
    BY <1>a, <2>2 DEF CauseInv, ConfirmInv
  <2> QED BY <2>1, <2>2, <2>3 DEF Htlc, Payment
<1>5. CASE /\ Claims("maker", "ClaimSwapCoop", "coop")
           /\ data["maker"].coop /\ data["maker"].openTx
  <2>1. chain'.open = chain.open /\ chain'.spent = "coop" /\ chain.spent = "none"
    BY <1>5, <1>a DEF Claims, ChainOK
  <2>2. KeyRevealed /\ chain.open # "none"
    BY <1>5, <1>a DEF CauseInv, MessageInv
  <2>3. ln.pay \notin {"inflight", "settled"}
    BY <1>a, <2>2, PayHoldsKey DEF KeyHeldWhilePaying
  <2> QED BY <2>1, <2>2, <2>3 DEF Htlc, Payment
<1>6. CASE Claims("maker", "ClaimSwapCsv", "csv") /\ CsvPassed
  <2>1. chain'.open = chain.open /\ chain'.spent = "csv" /\ chain.spent = "none"
    BY <1>6, <1>a DEF Claims, ChainOK
  <2>2. chain.open # "none"
    BY <1>6 DEF CsvPassed
  <2>3. ln.pay # "inflight"
    BY <1>6, <1>a, ResolvedInTime
  <2>4. ln.pay # "settled"
    <3>1. "ClaimSwapCsv" \in NextStates(SwapType, "maker", cur["maker"], ev["maker"])
      BY <1>6 DEF Claims, Runs
    <3>2. cur["maker"] # "ClaimedPreimage"
      BY <3>1, TableClaim
    <3> QED BY <1>6, <1>a, <3>2 DEF TimeInv
  <2> QED BY <2>1, <2>2, <2>3, <2>4 DEF Htlc, Payment
<1> QED BY <1>1, <1>2, <1>3, <1>4, <1>5, <1>6, <1>a, ChainSteps

\* The taker offers a payment for an output that is locked, with its key unknown.
LEMMA OfferStep ==
  ASSUME CalmInv, CalmInv', Next, Timelocks, chain' = chain,
         cur["taker"] = "ValidateTxAndPayClaimInvoice",
         ln.pay \in {"none", "failed"}, ln'.pay = "inflight"
  PROVE  Htlc = "locked" /\ ~KeyRevealed
<1>a. CauseInv /\ SpentInv /\ Inv /\ ChainOK
  BY TypeParts, WorldParts DEF CalmInv, CauseInv, Inv
<1>1. ~KeyRevealed
  BY <1>a DEF Inv, WireInv, KeyRevealed, Closing
<1>2. ~CsvPassed
  <2>1. CauseInv' /\ TimeInv' /\ Timelocks'
    BY DEF CalmInv, Timelocks
  <2>2. /\ Csv \in Nat /\ PaymentWindow \in Nat /\ CltvDelta \in Nat
        /\ chain'.height \in Nat /\ chain'.conf \in Nat /\ ln'.since \in Nat
    BY <2>1, TypeParts, WorldParts, SwapAssumption DEF CauseInv, Inv, ChainOK, LnOK
  <2>3. ln'.since < chain'.conf + PaymentWindow /\ chain'.height < ln'.since + CltvDelta
    BY <2>1 DEF TimeInv
  <2>4. chain'.height - chain'.conf + 1 < Csv
    BY <2>2, <2>3, SMT, SMTT(20) DEF Timelocks
  <2> QED BY <2>2, <2>4, SMT, SMTT(20) DEF CsvPassed, Confirmations
<1>3. chain.spent = "none"
  BY <1>1, <1>2, <1>a DEF SpentInv, ChainOK
<1>4. chain.open = "confirmed"
  BY <1>a DEF CauseInv, ConfirmInv, Confirmed
<1> QED BY <1>1, <1>3, <1>4 DEF Htlc

\* Every step of a calm swap is one of the atomic swap, or none.
LEMMA AtomicStep ==
  ASSUME CalmInv, CalmInv', KeyHeldWhilePaying', [Next]_vars, Calm, Timelocks
  PROVE  [Atomic!Next]_(Atomic!vars)
<1>a. Inv
  BY DEF CalmInv, CauseInv
<1>1. CASE UNCHANGED vars
  BY <1>1 DEF vars, Atomic!vars, Htlc, Payment, KeyRevealed
<1>2. CASE Next /\ KeyRevealed' # KeyRevealed
  <2>1. KeyRevealed' /\ ~KeyRevealed
    BY <1>2, <1>a, Messages, SMT, SMTT(20) DEF KeyRevealed
  <2>2. chain' = chain /\ ln'.pay = ln.pay
    BY <1>2, <1>a, <2>1, RevealStep
  <2>3. Htlc' = Htlc /\ Payment' = Payment
    BY <2>2 DEF Htlc, Payment
  <2>4. ln'.pay \notin {"inflight", "settled"}
    BY <2>1 DEF KeyHeldWhilePaying
  <2>5. Payment = "none"
    BY <2>2, <2>4 DEF Payment
  <2> QED BY <2>1, <2>3, <2>5 DEF Atomic!Next, Atomic!Reveal
<1>3. CASE Next /\ KeyRevealed' = KeyRevealed /\ ln'.pay # ln.pay
  <2>1. CASE /\ cur["taker"] = "ValidateTxAndPayClaimInvoice"
             /\ ln.pay \in {"none", "failed"} /\ ln'.pay = "inflight" /\ chain' = chain
    <3>1. Htlc = "locked" /\ ~KeyRevealed
      BY <1>3, <2>1, OfferStep
    <3>2. Htlc' = Htlc /\ Payment = "none" /\ Payment' = "pending"
      BY <2>1 DEF Htlc, Payment
    <3> QED BY <1>3, <3>1, <3>2 DEF Atomic!Next, Atomic!Offer
  <2>2. CASE ln.pay = "inflight" /\ ln'.pay \in {"settled", "failed"} /\ chain' = chain
    <3>1. Htlc' = Htlc /\ Payment = "pending" /\ Payment' \in {"none", "done"}
      BY <2>2 DEF Htlc, Payment
    <3> QED BY <1>3, <3>1 DEF Atomic!Next, Atomic!Resolve
  <2> QED BY <1>3, <1>a, <2>1, <2>2, LnStep
<1>4. CASE Next /\ KeyRevealed' = KeyRevealed /\ ln'.pay = ln.pay
  <2>1. Payment' = Payment
    BY <1>4 DEF Payment
  <2>2. \/ Htlc' = Htlc
        \/ Htlc = "none" /\ Htlc' = "locked"
        \/ Htlc = "locked" /\ Htlc' = "claimed" /\ Payment = "done"
        \/ Htlc = "locked" /\ Htlc' = "refunded" /\ Payment = "none"
    BY <1>4, HtlcStep
  <2> QED BY <1>4, <2>1, <2>2
      DEF Atomic!Next, Atomic!Lock, Atomic!Claim, Atomic!Refund, Atomic!vars
<1> QED BY <1>1, <1>2, <1>3, <1>4

\* The two state machines implement the atomic swap: under the same conditions
\* every behaviour of messages, callbacks, payments and claims moves the HTLC,
\* the payment and the key as AtomicSwap allows.
THEOREM SwapImplementsAtomicSwap ==
  ASSUME Calm, Timelocks
  PROVE  Spec => ImplementsAtomicSwap
<1>1. Init => Atomic!Init
  BY SMT, SMTT(20) DEF Init, Atomic!Init, Htlc, Payment, KeyRevealed
<1>2. CalmInv /\ CalmInv' /\ KeyHeldWhilePaying' /\ [Next]_vars
        => [Atomic!Next]_(Atomic!vars)
  BY AtomicStep
<1>3. Spec => []CalmInv /\ []KeyHeldWhilePaying
  BY CalmInvariance, CalmHoldsKey
<1> QED BY <1>1, <1>2, <1>3, PTL DEF Spec, ImplementsAtomicSwap, Atomic!Spec
-----------------------------------------------------------------------------
(* The atomic swap. *)

\* Atomicity alone is not inductive: a payment may also not become pending once
\* the HTLC is gone.
AtomicInv ==
  /\ Htlc \in {"none", "locked", "claimed", "refunded"}
  /\ Payment \in {"none", "pending", "done"}
  /\ Atomic!Atomicity
  /\ Htlc = "refunded" => Payment = "none"
  /\ Payment # "none" => Htlc # "none"

\* The abstract swap never lets the maker have both the payment and the HTLC,
\* nor the key and a payment, nor the taker the HTLC without paying.
THEOREM AtomicSwapIsAtomic == ImplementsAtomicSwap => []Atomic!Atomicity
<1>1. Atomic!Init => AtomicInv
  BY DEF Atomic!Init, AtomicInv, Atomic!Atomicity
<1>2. ASSUME AtomicInv, [Atomic!Next]_(Atomic!vars)
      PROVE  AtomicInv'
  <2> USE <1>2 DEF AtomicInv, Atomic!Atomicity
  <2>1. CASE Atomic!Lock
    BY <2>1 DEF Atomic!Lock
  <2>2. CASE Atomic!Offer
    BY <2>2 DEF Atomic!Offer
  <2>3. CASE Atomic!Resolve
    BY <2>3 DEF Atomic!Resolve
  <2>4. CASE Atomic!Reveal
    BY <2>4 DEF Atomic!Reveal
  <2>5. CASE Atomic!Claim
    BY <2>5 DEF Atomic!Claim
  <2>6. CASE Atomic!Refund
    BY <2>6 DEF Atomic!Refund
  <2>7. CASE UNCHANGED (Atomic!vars)
    BY <2>7 DEF Atomic!vars
  <2> QED BY <2>1, <2>2, <2>3, <2>4, <2>5, <2>6, <2>7 DEF Atomic!Next
<1>3. AtomicInv => Atomic!Atomicity
  BY DEF AtomicInv
<1> QED BY <1>1, <1>2, <1>3, PTL DEF ImplementsAtomicSwap, Atomic!Spec

\* So a calm swap is atomic.
COROLLARY SwapIsAtomic ==
  ASSUME Calm, Timelocks
  PROVE  Spec => []Atomic!Atomicity
BY SwapImplementsAtomicSwap, AtomicSwapIsAtomic, PTL
=============================================================================
