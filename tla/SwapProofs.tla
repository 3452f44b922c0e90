----------------------------- MODULE SwapProofs -----------------------------
(***************************************************************************)
(* Proofs about Swap, for every swap type, chain, backend, set of faults,  *)
(* timelock and bound: type correctness, and the safety properties that    *)
(* hold under every fault.  The inductive invariant has a layer about      *)
(* control, which the layers about the opening message, the key and the    *)
(* anchor rest on.                                                         *)
(***************************************************************************)
EXTENDS Swap, TLAPS

\* A leaf is tried with Zenon, then with Z3; the leaves that need Z3 say so.
USE Zenon, SMT, SMTT(20)

-----------------------------------------------------------------------------
(* The tables. *)

\* Every entry of a state table leads to a declared state.
LEMMA TableType ==
  ASSUME NEW n \in Node, NEW s, NEW e, NEW t \in NextStates(SwapType, n, s, e)
  PROVE  t \in State
<1>1. \A u \in SwapOutSenderStates : u[3] \in State
  BY SMT, SMTT(20) DEF SwapOutSenderStates, SendCancelEvents, State, TakerState, MakerState
<1>2. \A u \in SwapInReceiverStates : u[3] \in State
  BY SMT, SMTT(20) DEF SwapInReceiverStates, SendCancelEvents, State, TakerState, MakerState
<1>3. \A u \in SwapOutReceiverStates : u[3] \in State
  BY SMT, SMTT(20) DEF SwapOutReceiverStates, MakerRefundEvents, SendCancelEvents, State,
         TakerState, MakerState
<1>4. \A u \in SwapInSenderStates : u[3] \in State
  BY SMT, SMTT(20) DEF SwapInSenderStates, MakerRefundEvents, SendCancelEvents, State,
         TakerState, MakerState
<1> QED BY <1>1, <1>2, <1>3, <1>4 DEF NextStates, Lookup, States
-----------------------------------------------------------------------------
(* Types. *)

DataOK == data \in [Node -> Data]
VolOK == vol \in [Node -> Volatile]
NetOK == net \subseteq Message /\ wire \subseteq Message
ChainOK == chain \in [height : Nat \ {0}, conf : Nat, opens : Nat,
                      open : {"none", "mempool", "confirmed"},
                      spent : {"none", "preimage", "coop", "csv"}]
LnOK == ln \in [fee : BOOLEAN, since : Nat,
                pay : {"none", "inflight", "settled", "failed"}]
CurOK == cur \in [Node -> State]
DiskOK == disk \in [Node -> [cur : State \cup {"Absent"}, data : Data]]
PcOK == pc \in [Node -> Pc]
EvOK == ev \in [Node -> Event \cup ActionResult]
CrashesOK == crashes \in 0..MaxCrashes

\* WorldOK, one conjunct at a time, and back.
LEMMA WorldParts ==
  /\ WorldOK <=> DataOK /\ VolOK /\ NetOK /\ ChainOK /\ LnOK
  /\ WorldOK' <=> DataOK' /\ VolOK' /\ NetOK' /\ ChainOK' /\ LnOK'
BY DEF WorldOK, DataOK, VolOK, NetOK, ChainOK, LnOK

\* TypeOK, one conjunct at a time, and back.
LEMMA TypeParts ==
  /\ TypeOK <=> CurOK /\ DiskOK /\ PcOK /\ EvOK /\ CrashesOK /\ WorldOK
  /\ TypeOK' <=> CurOK' /\ DiskOK' /\ PcOK' /\ EvOK' /\ CrashesOK' /\ WorldOK'
BY DEF TypeOK, CurOK, DiskOK, PcOK, EvOK, CrashesOK

\* An action of a state keeps the types of what it changes.
LEMMA ExecuteType ==
  ASSUME WorldOK, NEW n \in Node, NEW s \in State, NEW locked \in BOOLEAN,
         NEW r \in ActionResult, Execute(n, s, locked, r)
  PROVE  WorldOK'
<1>a. DataOK   BY WorldParts
<1>b. VolOK    BY WorldParts
<1>c. NetOK    BY WorldParts
<1>d. ChainOK  BY WorldParts
<1>e. LnOK     BY WorldParts
<1> SUFFICES DataOK' /\ VolOK' /\ NetOK' /\ ChainOK' /\ LnOK'
  BY WorldParts
<1> USE DEF DataOK, VolOK, NetOK, ChainOK, LnOK
<1>0. CASE UNCHANGED world
  BY <1>0, <1>a, <1>b, <1>c, <1>d, <1>e DEF world
<1>1. CASE CreateSwapAction(n, r) /\ r = "ActionSucceeded"
  <2>1. data' = data \/ data' = [data EXCEPT ![n].anchor = chain.height]
    BY <1>1 DEF CreateSwapAction
  <2>2. DataOK'  BY <1>a, <1>d, <2>1, SMT, SMTT(20) DEF Data
  <2>3. VolOK'   BY <1>1, <1>b DEF CreateSwapAction, Volatile
  <2> QED BY <1>1, <1>c, <1>d, <1>e, <2>2, <2>3 DEF CreateSwapAction
<1>2. CASE SendMessageAction(n, s, r) /\ r = "ActionSucceeded"
  <2>1. NetOK'
    BY <1>2, <1>c, SMT, SMTT(20)
    DEF SendMessageAction, Send, MessageOf, Message, MessageType, Peer, Node
  <2> QED BY <1>2, <1>a, <1>b, <1>d, <1>e, <2>1 DEF SendMessageAction
<1>3. CASE SendMessageWithRetryAction(n, r) /\ r = "ActionSucceeded"
  <2>1. VolOK'  BY <1>3, <1>b DEF SendMessageWithRetryAction, Volatile
  <2>2. NetOK'
    BY <1>3, <1>c, SMT, SMTT(20)
    DEF SendMessageWithRetryAction, Send, Message, MessageType, Peer, Node
  <2> QED BY <1>3, <1>a, <1>d, <1>e, <2>1, <2>2 DEF SendMessageWithRetryAction
<1>4. CASE PayFeeInvoiceAction(n, r)
  <2>1. LnOK'  BY <1>4, <1>e DEF PayFeeInvoiceAction, world
  <2> QED BY <1>4, <1>a, <1>b, <1>c, <1>d, <2>1 DEF PayFeeInvoiceAction, world
<1>5. CASE SetStartingBlockHeightAction(n, r)
  <2>1. data' = data \/ data' = [data EXCEPT ![n].anchor = chain.height]
    BY <1>5 DEF SetStartingBlockHeightAction
  <2>2. DataOK'  BY <1>a, <1>d, <2>1, SMT, SMTT(20) DEF Data
  <2> QED BY <1>5, <1>b, <1>c, <1>d, <1>e, <2>2 DEF SetStartingBlockHeightAction
<1>6. CASE AwaitTxConfirmationAction(n, r) /\ r = "NoOp"
  <2>1. VolOK'  BY <1>6, <1>b, SMT, SMTT(20) DEF AwaitTxConfirmationAction, Volatile, Watch
  <2> QED BY <1>6, <1>a, <1>c, <1>d, <1>e, <2>1 DEF AwaitTxConfirmationAction
<1>7. CASE CreateAndBroadcastOpeningTransaction(n, r)
  <2>1. data' = data \/ data' = [data EXCEPT ![n].openTx = TRUE]
    BY <1>7 DEF CreateAndBroadcastOpeningTransaction, world
  <2>2. \/ chain' = chain
        \/ chain' = [chain EXCEPT !.open = "mempool", !.conf = 0, !.opens = @ + 1]
    BY <1>7 DEF CreateAndBroadcastOpeningTransaction, world
  <2>3. DataOK'   BY <1>a, <2>1 DEF Data
  <2>4. ChainOK'
    <3> DEFINE c == [chain EXCEPT !.open = "mempool", !.conf = 0]
    <3>1. c \in [height : Nat \ {0}, open : {"none", "mempool", "confirmed"},
                 conf : Nat, opens : Nat,
                 spent : {"none", "preimage", "coop", "csv"}]
      BY <1>d
    <3>2. chain' = chain \/ chain' = [c EXCEPT !.opens = @ + 1]
      BY <1>d, <2>2
    <3> HIDE DEF c
    <3> QED BY <1>d, <3>1, <3>2, SMT, SMTT(20)
  <2> QED BY <1>7, <1>b, <1>c, <1>e, <2>3, <2>4
          DEF CreateAndBroadcastOpeningTransaction, world
<1>8. CASE AwaitFeeInvoicePayment(n, r)
  <2>1. VolOK'  BY <1>8, <1>b DEF AwaitFeeInvoicePayment, Volatile, Watch
  <2> QED BY <1>8, <1>a, <1>c, <1>d, <1>e, <2>1 DEF AwaitFeeInvoicePayment
<1>9. CASE AwaitCsvAction(n, s, locked, r)
  <2>1. \/ vol' = [vol EXCEPT ![n].watch = @ \cup {"csv"}, ![n].sender = FALSE]
        \/ vol' = [vol EXCEPT ![n].watch = @ \cup {"csv", "pay"}]
    BY <1>9 DEF AwaitCsvAction
  <2>2. VolOK'  BY <1>b, <2>1, SMT, SMTT(20) DEF Volatile, Watch
  <2> QED BY <1>9, <1>a, <1>c, <1>d, <1>e, <2>2 DEF AwaitCsvAction
<1>10. ASSUME NEW path \in {"preimage", "coop", "csv"}, NEW possible,
              NEW failed, Claim(n, path, possible, failed, r)
       PROVE  DataOK' /\ ChainOK'
  <2>1. data' = data \/ data' = [data EXCEPT ![n].claimTx = TRUE]
    BY <1>10 DEF Claim
  <2>2. chain' = chain \/ chain' = [chain EXCEPT !.spent = path]
    BY <1>10 DEF Claim
  <2>3. DataOK'   BY <1>a, <2>1 DEF Data
  <2>4. ChainOK'  BY <1>d, <2>2
  <2> QED BY <2>3, <2>4
<1>11. CASE ClaimSwapTransactionWithPreimageAction(n, r)
  BY <1>10, <1>11, <1>b, <1>c, <1>e DEF ClaimSwapTransactionWithPreimageAction
<1>12. CASE ClaimSwapTransactionCoop(n, r)
  <2>1. VolOK'  BY <1>12, <1>b DEF ClaimSwapTransactionCoop, Volatile
  <2> QED BY <1>10, <1>12, <1>c, <1>e, <2>1 DEF ClaimSwapTransactionCoop
<1>13. CASE ClaimSwapTransactionWithCsv(n, r)
  <2>1. VolOK'  BY <1>13, <1>b DEF ClaimSwapTransactionWithCsv, Volatile
  <2> QED BY <1>10, <1>13, <1>c, <1>e, <2>1 DEF ClaimSwapTransactionWithCsv
<1>14. CASE DoneAction(n, r)
  <2>1. VolOK'  BY <1>14, <1>b DEF DoneAction, Volatile
  <2> QED BY <1>14, <1>a, <1>c, <1>d, <1>e, <2>1 DEF DoneAction
<1> QED
  BY <1>0, <1>1, <1>2, <1>3, <1>4, <1>5, <1>6, <1>7, <1>8, <1>9, <1>11,
     <1>12, <1>13, <1>14
  DEF Execute, CreateSwapAction, SendMessageAction, SendMessageWithRetryAction,
      AwaitTxConfirmationAction, ValidateTxAndPayClaimInvoiceAction,
      TakerSendPrivkeyAction

\* NewSwapData's fields and those of a new state machine have their types.
LEMMA NewTypes == NewData \in Data /\ NewVolatile \in Volatile
BY DEF NewData, Data, NewVolatile, Volatile

\* Every message has its event.
LEMMA TableEvents ==
  ASSUME NEW t \in MessageType
  PROVE  EventOf(t) \in Event
BY DEF EventOf, Event

\* ApplyToSwapData gives data.
LEMMA AppliedType ==
  ASSUME NEW d \in Data, NEW t \in MessageType
  PROVE  ApplyToSwapData(d, t) \in Data
BY DEF ApplyToSwapData, Data

\* SendEvent's first steps keep the types.
LEMMA PostType ==
  ASSUME DataOK, DiskOK, PcOK, EvOK, CurOK, NEW n \in Node, NEW e \in Event,
         NEW d \in Data, Post(n, e, d)
  PROVE  DataOK' /\ DiskOK' /\ PcOK' /\ EvOK'
<1>1. DataOK'  BY DEF Post, DataOK
<1>2. DiskOK'  BY DEF Post, DiskOK, CurOK
<1>3. PcOK'    BY DEF Post, PcOK, Pc
<1>4. EvOK'    BY DEF Post, EvOK
<1> QED BY <1>1, <1>2, <1>3, <1>4

\* A callback posts an event and drops its subscription.
LEMMA CallbackType ==
  ASSUME TypeOK, NEW n \in Node, NEW e \in Event, Callback(n, e),
         \/ \E w \in Watch : Unwatch(n, w)
         \/ vol' = [vol EXCEPT ![n].timer = FALSE]
  PROVE  TypeOK'
<1>1. CurOK /\ DiskOK /\ PcOK /\ EvOK /\ CrashesOK /\ DataOK /\ VolOK
      /\ NetOK /\ ChainOK /\ LnOK
  BY TypeParts, WorldParts
<1>2. data[n] \in Data  BY <1>1 DEF DataOK
<1>3. DataOK' /\ DiskOK' /\ PcOK' /\ EvOK'
  BY <1>1, <1>2, PostType DEF Callback
<1>4. VolOK'
  <2>1. CASE vol' = [vol EXCEPT ![n].timer = FALSE]
    BY <1>1, <2>1 DEF VolOK, Volatile
  <2>2. ASSUME NEW w \in Watch, vol' = [vol EXCEPT ![n].watch = @ \ {w}]
        PROVE  VolOK'
    BY <1>1, <2>2 DEF VolOK, Volatile
  <2> QED BY <2>1, <2>2 DEF Unwatch
<1>5. CurOK' /\ CrashesOK' /\ NetOK' /\ ChainOK' /\ LnOK'
  BY <1>1 DEF Callback, CurOK, CrashesOK, NetOK, ChainOK, LnOK
<1> QED BY <1>3, <1>4, <1>5, TypeParts, WorldParts

\* A node whose state machine exists has a record.  Without it a crash could
\* bring back a state that is none.
Recorded == \A n \in Node : pc[n] # "none" => disk[n].cur # "Absent"

\* Every step keeps the types.
LEMMA TypeStep ==
  ASSUME TypeOK, Recorded, [Next]_vars
  PROVE  TypeOK'
<1>a. CurOK /\ DiskOK /\ PcOK /\ EvOK /\ CrashesOK /\ DataOK /\ VolOK
      /\ NetOK /\ ChainOK /\ LnOK /\ WorldOK
  BY TypeParts, WorldParts
<1> SUFFICES /\ CurOK' /\ DiskOK' /\ PcOK' /\ EvOK' /\ CrashesOK'
             /\ DataOK' /\ VolOK' /\ NetOK' /\ ChainOK' /\ LnOK'
  BY TypeParts, WorldParts
<1>0. CASE UNCHANGED vars
  BY <1>0, <1>a DEF vars, CurOK, DiskOK, PcOK, EvOK, CrashesOK, DataOK, VolOK,
                    NetOK, ChainOK, LnOK
<1>1. ASSUME NEW n \in Node, NEW e \in Event, NewSwap(n, e),
             net' \subseteq net, UNCHANGED wire
      PROVE  TypeOK'
  <2>1. DiskOK'  BY <1>1, <1>a, NewTypes DEF NewSwap, DiskOK, State, TakerState
  <2>2. PcOK' /\ EvOK'  BY <1>1, <1>a DEF NewSwap, PcOK, EvOK, Pc
  <2>3. NetOK'  BY <1>1, <1>a DEF NetOK
  <2>4. CurOK' /\ CrashesOK' /\ DataOK' /\ VolOK' /\ ChainOK' /\ LnOK'
    BY <1>1, <1>a DEF NewSwap, CurOK, CrashesOK, DataOK, VolOK, ChainOK, LnOK
  <2> QED BY <2>1, <2>2, <2>3, <2>4, TypeParts, WorldParts
<1>2. ASSUME NEW n \in Node, StartSwap(n) \/ ReceiveRequest(n)
      PROVE  TypeOK'
  BY <1>1, <1>2 DEF StartSwap, ReceiveRequest, Event
<1>3. ASSUME NEW n \in Node, RefuseRequest(n)
      PROVE  TypeOK'
  <2>1. NetOK'
    BY <1>3, <1>a, SMT, SMTT(20) DEF RefuseRequest, NetOK, Message, MessageType, Peer, Node
  <2> QED
    BY <1>3, <1>a, <2>1, TypeParts, WorldParts
    DEF RefuseRequest, CurOK, DiskOK, PcOK, EvOK, CrashesOK, DataOK, VolOK,
        ChainOK, LnOK
<1>4. ASSUME NEW n \in Node, NEW t \in MessageType, ReceiveMessage(n, t)
      PROVE  TypeOK'
  <2>1. data[n] \in Data  BY <1>a DEF DataOK
  <2>2. \E e \in Event, d \in Data : Post(n, e, d)
    BY <1>4, <2>1, AppliedType, TableEvents DEF ReceiveMessage, Event
  <2>3. DataOK' /\ DiskOK' /\ PcOK' /\ EvOK'
    BY <1>a, <2>2, PostType
  <2>4. NetOK'  BY <1>4, <1>a DEF ReceiveMessage, NetOK
  <2> QED
    BY <1>4, <1>a, <2>3, <2>4, TypeParts, WorldParts
    DEF ReceiveMessage, CurOK, CrashesOK, VolOK, ChainOK, LnOK
<1>5. CASE \/ \E n \in Node, t \in MessageType : IgnoreMessage(n, t)
           \/ LoseMessage
  <2>1. net' \subseteq net /\ UNCHANGED wire
    BY <1>5 DEF IgnoreMessage, LoseMessage
  <2>2. UNCHANGED <<cur, data, disk, pc, ev, vol, chain, ln, crashes>>
    BY <1>5 DEF IgnoreMessage, LoseMessage
  <2> QED
    BY <1>a, <2>1, <2>2
    DEF CurOK, DiskOK, PcOK, EvOK, CrashesOK, DataOK, VolOK, NetOK, ChainOK, LnOK
<1>6. ASSUME NEW n \in Node, ResendMessage(n)
      PROVE  TypeOK'
  <2>1. NetOK'
    BY <1>6, <1>a, SMT, SMTT(20)
    DEF ResendMessage, Send, NetOK, Message, MessageType, Peer, Node
  <2> QED
    BY <1>6, <1>a, <2>1, TypeParts, WorldParts
    DEF ResendMessage, CurOK, DiskOK, PcOK, EvOK, CrashesOK, DataOK, VolOK,
        ChainOK, LnOK
<1>7. ASSUME NEW n \in Node, Reject(n) \/ Restart(n) \/ PayTimeout(n)
      PROVE  TypeOK'
  <2>1. PcOK'  BY <1>7, <1>a DEF Reject, Restart, PayTimeout, Return, PcOK, Pc
  <2>2. EvOK'
    BY <1>7, <1>a DEF Reject, Restart, PayTimeout, Return, EvOK, Event
  <2> QED
    BY <1>7, <1>a, <2>1, <2>2, TypeParts, WorldParts
    DEF Reject, Restart, PayTimeout, world, CurOK, DiskOK, CrashesOK, DataOK,
        VolOK, NetOK, ChainOK, LnOK
<1>8. ASSUME NEW n \in Node, Transition(n)
      PROVE  TypeOK'
  <2>1. PICK s \in NextStates(SwapType, n, cur[n], ev[n]), r \in ActionResult :
          /\ Execute(n, s, TRUE, r)
          /\ cur' = [cur EXCEPT ![n] = s]
          /\ ev' = [ev EXCEPT ![n] = r]
          /\ pc' = [pc EXCEPT ![n] = AfterAction(r, "save")]
    BY <1>8 DEF Transition
  <2>2. s \in State  BY TableType
  <2>3. WorldOK'  BY <1>a, <2>1, <2>2, ExecuteType
  <2>4. CurOK'  BY <1>a, <2>1, <2>2 DEF CurOK
  <2>5. EvOK'   BY <1>a, <2>1 DEF EvOK
  <2>6. PcOK'   BY <1>a, <2>1 DEF PcOK, AfterAction, Pc
  <2> QED
    BY <1>8, <1>a, <2>3, <2>4, <2>5, <2>6, TypeParts
    DEF Transition, DiskOK, CrashesOK
<1>9. ASSUME NEW n \in Node, Save(n)
      PROVE  TypeOK'
  <2>1. DiskOK'  BY <1>9, <1>a DEF Save, DiskOK, CurOK, DataOK
  <2>2. PcOK'  BY <1>9, <1>a DEF Save, PcOK, Pc
  <2>3. VolOK'
    <3>1. \/ vol' = vol
          \/ vol' = [vol EXCEPT ![n].retries = 0]
          \/ vol' = [vol EXCEPT ![n].retries = @ + 1]
      BY <1>9 DEF Save
    <3> QED BY <1>a, <3>1, SMT, SMTT(20) DEF VolOK, Volatile
  <2> QED
    BY <1>9, <1>a, <2>1, <2>2, <2>3, TypeParts, WorldParts
    DEF Save, CurOK, EvOK, CrashesOK, DataOK, NetOK, ChainOK, LnOK
<1>10. ASSUME NEW n \in Node, Crash(n)
       PROVE  TypeOK'
  <2>1. disk[n].cur \in State /\ disk[n].data \in Data
    BY <1>10, <1>a DEF Crash, Recorded, DiskOK
  <2>2. CurOK'  BY <1>10, <1>a, <2>1 DEF Crash, CurOK
  <2>3. DataOK'  BY <1>10, <1>a, <2>1 DEF Crash, DataOK
  <2>4. PcOK' /\ EvOK'  BY <1>10, <1>a DEF Crash, PcOK, Pc, EvOK, Event
  <2>5. VolOK'  BY <1>10, <1>a, NewTypes DEF Crash, VolOK
  <2>6. CrashesOK'
    BY <1>10, <1>a, SwapAssumption, SMT, SMTT(20) DEF Crash, CrashesOK
  <2> QED
    BY <1>10, <1>a, <2>2, <2>3, <2>4, <2>5, <2>6, TypeParts, WorldParts
    DEF Crash, DiskOK, NetOK, ChainOK, LnOK
<1>11. ASSUME NEW n \in Node, Recover(n)
       PROVE  TypeOK'
  <2>1. cur[n] \in State  BY <1>a DEF CurOK
  <2>2. WorldOK'
    BY <1>11, <1>a, <2>1, ExecuteType, WorldParts
    DEF Recover, world, DataOK, VolOK, NetOK, ChainOK, LnOK
  <2>3. PcOK'  BY <1>11, <1>a DEF Recover, PcOK, Pc, AfterAction
  <2>4. EvOK'  BY <1>11, <1>a DEF Recover, EvOK, Event
  <2> QED
    BY <1>11, <1>a, <2>2, <2>3, <2>4, TypeParts
    DEF Recover, CurOK, DiskOK, CrashesOK
<1>12. ASSUME NEW n \in Node,
              \/ Timeout(n) \/ FeeInvoicePaid(n) \/ ClaimInvoicePaid(n)
              \/ OnCsvPassed(n) \/ RpcTxConfirmed(n)
       PROVE  TypeOK'
  BY <1>12, CallbackType
  DEF Timeout, FeeInvoicePaid, ClaimInvoicePaid, OnCsvPassed, RpcTxConfirmed,
      Event, Watch
<1>13. ASSUME NEW n \in Node, LndTxConfirmed(n)
       PROVE  TypeOK'
  <2>1. CASE Callback(n, "OnCsvPassed") \/ Callback(n, "OnTxConfirmed")
    BY <1>13, <2>1, CallbackType DEF LndTxConfirmed, Event, Watch
  <2>2. CASE UNCHANGED <<cur, data, disk, pc, ev, net, wire, chain, ln, crashes>>
    <3>1. VolOK'  BY <1>13, <1>a DEF LndTxConfirmed, Unwatch, VolOK, Volatile
    <3> QED
      BY <1>a, <2>2, <3>1, TypeParts, WorldParts
      DEF CurOK, DiskOK, PcOK, EvOK, CrashesOK, DataOK, NetOK, ChainOK, LnOK
  <2> QED BY <1>13, <2>1, <2>2 DEF LndTxConfirmed
<1>14. ASSUME NEW n \in Node, PayTick(n)
       PROVE  TypeOK'
  <2>1. PcOK'  BY <1>14, <1>a DEF PayTick, Return, PcOK, Pc
  <2>2. EvOK'  BY <1>14, <1>a DEF PayTick, Return, EvOK, Event
  <2>3. LnOK'
    <3>1. \/ ln' = ln
          \/ ln' = [ln EXCEPT !.pay = "inflight", !.since = chain.height]
      BY <1>14 DEF PayTick
    <3> QED BY <1>a, <3>1 DEF LnOK, ChainOK
  <2> QED
    BY <1>14, <1>a, <2>1, <2>2, <2>3, TypeParts, WorldParts
    DEF PayTick, CurOK, DiskOK, CrashesOK, DataOK, VolOK, NetOK, ChainOK
<1>15. ASSUME NEW n \in Node, PayReturn(n)
       PROVE  TypeOK'
  <2>1. PcOK'  BY <1>15, <1>a DEF PayReturn, Return, PcOK, Pc
  <2>2. EvOK'  BY <1>15, <1>a DEF PayReturn, Return, EvOK, Event
  <2>3. DataOK'  BY <1>15, <1>a DEF PayReturn, DataOK, Data
  <2> QED
    BY <1>15, <1>a, <2>1, <2>2, <2>3, TypeParts, WorldParts
    DEF PayReturn, CurOK, DiskOK, CrashesOK, VolOK, NetOK, ChainOK, LnOK
<1>16. CASE ResolveHtlc
  <2>1. LnOK'  BY <1>16, <1>a DEF ResolveHtlc, LnOK
  <2> QED
    BY <1>16, <1>a, <2>1
    DEF ResolveHtlc, CurOK, DiskOK, PcOK, EvOK, CrashesOK, DataOK, VolOK, NetOK,
        ChainOK
<1>17. CASE Tick
  <2> DEFINE c == [chain EXCEPT !.height = @ + 1]
  <2>1. c \in [height : Nat \ {0}, conf : Nat, opens : Nat,
               open : {"none", "mempool", "confirmed"},
               spent : {"none", "preimage", "coop", "csv"}]
    BY <1>a, SMT, SMTT(20) DEF ChainOK
  <2>2. ChainOK'
    <3>1. chain' = c \/ chain' = [c EXCEPT !.open = "confirmed", !.conf = c.height]
      BY <1>17, <1>a DEF Tick, ChainOK
    <3> HIDE DEF c
    <3> QED BY <2>1, <3>1 DEF ChainOK
  <2> QED
    BY <1>17, <1>a, <2>2
    DEF Tick, CurOK, DiskOK, PcOK, EvOK, CrashesOK, DataOK, VolOK, NetOK, LnOK
<1>18. TypeOK' => /\ CurOK' /\ DiskOK' /\ PcOK' /\ EvOK' /\ CrashesOK'
                  /\ DataOK' /\ VolOK' /\ NetOK' /\ ChainOK' /\ LnOK'
  BY TypeParts, WorldParts
<1> QED
  BY <1>0, <1>2, <1>3, <1>4, <1>5, <1>6, <1>7, <1>8, <1>9, <1>10, <1>11, <1>12,
     <1>13, <1>14, <1>15, <1>16, <1>17, <1>18
  DEF Next, NodeStep

-----------------------------------------------------------------------------
(* What the actions of the states do to the data, the sender, the messages   *)
(* and the claim payment.                                                    *)

\* The data of the other node stays; openTx is never reset, and set when the
\* broadcast succeeds; only CreateSwap may change an anchor that is set.
LEMMA ExecuteData ==
  ASSUME WorldOK, NEW n \in Node, NEW s \in State, NEW locked \in BOOLEAN,
         NEW r \in ActionResult, Execute(n, s, locked, r)
  PROVE  /\ \A m \in Node \ {n} : data'[m] = data[m]
         /\ data[n].openTx => data'[n].openTx
         /\ s = "BroadcastOpeningTx" /\ r = "ActionSucceeded"
              => data'[n].openTx
         /\ s # "CreateSwap" /\ data[n].anchor # 0
              => data'[n].anchor = data[n].anchor
         /\ s = "CreateSwap" /\ r = "ActionSucceeded" /\ n = "taker"
              /\ Chain = "lbtc" => data'[n].anchor # 0
<1>1. DataOK /\ chain.height # 0
  BY WorldParts DEF ChainOK
<1>2. \/ data' = data
      \/ data' = [data EXCEPT ![n].claimTx = TRUE]
      \/ data' = [data EXCEPT ![n].openTx = TRUE]
      \/ /\ data' = [data EXCEPT ![n].anchor = chain.height]
         /\ s = "CreateSwap" \/ data[n].anchor = 0
  BY DEF Execute, CreateSwapAction, SendMessageAction,
         SendMessageWithRetryAction, PayFeeInvoiceAction,
         TakerSendPrivkeyAction, SetStartingBlockHeightAction,
         AwaitTxConfirmationAction, ValidateTxAndPayClaimInvoiceAction,
         CreateAndBroadcastOpeningTransaction, AwaitFeeInvoicePayment,
         AwaitCsvAction, Claim, ClaimSwapTransactionWithPreimageAction,
         ClaimSwapTransactionCoop, ClaimSwapTransactionWithCsv, DoneAction, world
<1>3. s = "BroadcastOpeningTx" /\ r = "ActionSucceeded"
        => data[n].openTx \/ data' = [data EXCEPT ![n].openTx = TRUE]
  BY DEF Execute, CreateAndBroadcastOpeningTransaction, Finished
<1>4. s = "CreateSwap" /\ r = "ActionSucceeded" /\ n = "taker" /\ Chain = "lbtc"
        => data' = [data EXCEPT ![n].anchor = chain.height]
  BY DEF Execute, CreateSwapAction, Finished
<1> QED BY <1>1, <1>2, <1>3, <1>4, SMT, SMTT(20) DEF DataOK, Data

\* Only SendTxBroadcastedMessage turns a sender on.
LEMMA ExecuteSender ==
  ASSUME WorldOK, NEW n \in Node, NEW s \in State, NEW locked \in BOOLEAN,
         NEW r \in ActionResult, Execute(n, s, locked, r), NEW m \in Node,
         vol'[m].sender
  PROVE  vol[m].sender \/ (m = n /\ s = "SendTxBroadcastedMessage")
<1>1. VolOK
  BY WorldParts
<1>2. \/ vol' = vol
      \/ vol' = [vol EXCEPT ![n].timer = TRUE]
      \/ s = "SendTxBroadcastedMessage" /\ vol' = [vol EXCEPT ![n].sender = TRUE]
      \/ \E w \in SUBSET Watch : vol' = [vol EXCEPT ![n].watch = @ \cup w]
      \/ vol' = [vol EXCEPT ![n].watch = @ \cup {"csv"}, ![n].sender = FALSE]
      \/ vol' = [vol EXCEPT ![n].sender = FALSE]
  BY DEF Execute, CreateSwapAction, SendMessageAction,
         SendMessageWithRetryAction, PayFeeInvoiceAction,
         TakerSendPrivkeyAction, SetStartingBlockHeightAction,
         AwaitTxConfirmationAction, ValidateTxAndPayClaimInvoiceAction,
         CreateAndBroadcastOpeningTransaction, AwaitFeeInvoicePayment,
         AwaitCsvAction, Claim, ClaimSwapTransactionWithPreimageAction,
         ClaimSwapTransactionCoop, ClaimSwapTransactionWithCsv, DoneAction,
         world, Watch
<1> QED BY <1>1, <1>2 DEF VolOK, Volatile

\* Each message is sent by the state that is there for it.
LEMMA ExecuteWire ==
  ASSUME NEW n \in Node, NEW s \in State, NEW locked \in BOOLEAN,
         NEW r \in ActionResult, Execute(n, s, locked, r), NEW m \in wire'
  PROVE  \/ m \in wire
         \/ m = <<Peer(n), "cancel">>
         \/ m = <<Peer(n), "request">> /\ s = "SendRequest"
         \/ /\ m = <<Peer(n), "agreement">>
            /\ s \in {"SendAgreement", "SendFeeInvoice"}
         \/ m = <<Peer(n), "opening">> /\ s = "SendTxBroadcastedMessage"
         \/ m = <<Peer(n), "coop">> /\ s = "SendCoopClose"
<1>1. \/ wire' = wire
      \/ /\ s \in {"SendRequest", "SendAgreement", "SendFeeInvoice",
                   "SendCancel", "SendCoopClose"}
         /\ wire' = wire \cup {<<Peer(n), MessageOf(s)>>}
      \/ /\ s = "SendTxBroadcastedMessage"
         /\ wire' = wire \cup {<<Peer(n), "opening">>}
  BY DEF Execute, CreateSwapAction, SendMessageAction,
         SendMessageWithRetryAction, PayFeeInvoiceAction,
         TakerSendPrivkeyAction, SetStartingBlockHeightAction,
         AwaitTxConfirmationAction, ValidateTxAndPayClaimInvoiceAction,
         CreateAndBroadcastOpeningTransaction, AwaitFeeInvoicePayment,
         AwaitCsvAction, ClaimSwapTransactionWithPreimageAction,
         ClaimSwapTransactionCoop, ClaimSwapTransactionWithCsv, DoneAction,
         world, Send
<1> QED BY <1>1 DEF MessageOf

\* No state's action starts a claim payment, and only one enters the payment
\* loop, where payments are started.
LEMMA ExecutePay ==
  ASSUME WorldOK, NEW n \in Node, NEW s \in State, NEW locked \in BOOLEAN,
         NEW r \in ActionResult, Execute(n, s, locked, r)
  PROVE  /\ ln'.pay = ln.pay /\ ln'.since = ln.since /\ (ln.fee => ln'.fee)
         /\ ln'.fee /\ ~ln.fee => s = "PayFeeInvoice"
         /\ r = "Loop" => s = "ValidateTxAndPayClaimInvoice"
<1>1. ln' = ln \/ (s = "PayFeeInvoice" /\ ln' = [ln EXCEPT !.fee = TRUE])
  BY DEF Execute, CreateSwapAction, SendMessageAction,
         SendMessageWithRetryAction, PayFeeInvoiceAction,
         TakerSendPrivkeyAction, SetStartingBlockHeightAction,
         AwaitTxConfirmationAction, ValidateTxAndPayClaimInvoiceAction,
         CreateAndBroadcastOpeningTransaction, AwaitFeeInvoicePayment,
         AwaitCsvAction, ClaimSwapTransactionWithPreimageAction,
         ClaimSwapTransactionCoop, ClaimSwapTransactionWithCsv, DoneAction, world
<1>2. r = "Loop" => s = "ValidateTxAndPayClaimInvoice"
  BY DEF Execute, CreateSwapAction, SendMessageAction,
         SendMessageWithRetryAction, PayFeeInvoiceAction,
         TakerSendPrivkeyAction, SetStartingBlockHeightAction,
         AwaitTxConfirmationAction, CreateAndBroadcastOpeningTransaction,
         AwaitFeeInvoicePayment, AwaitCsvAction, Claim,
         ClaimSwapTransactionWithPreimageAction, ClaimSwapTransactionCoop,
         ClaimSwapTransactionWithCsv, DoneAction
<1> QED BY <1>1, <1>2, WorldParts DEF LnOK
-----------------------------------------------------------------------------
(* The tables. *)

\* Each party's table leads to its own states only.
LEMMA TableRoles ==
  ASSUME NEW s, NEW e
  PROVE  /\ NextStates(SwapType, "maker", s, e) \subseteq MakerState
         /\ NextStates(SwapType, "taker", s, e) \subseteq TakerState
<1>1. \A u \in SwapOutSenderStates \cup SwapInReceiverStates : u[3] \in TakerState
  BY SMT, SMTT(20) DEF SwapOutSenderStates, SwapInReceiverStates, SendCancelEvents, TakerState
<1>2. \A u \in SwapOutReceiverStates \cup SwapInSenderStates : u[3] \in MakerState
  BY SMT, SMTT(20) DEF SwapOutReceiverStates, SwapInSenderStates, MakerRefundEvents,
         SendCancelEvents, MakerState
<1> QED BY <1>1, <1>2 DEF NextStates, Lookup, States

\* Four ways that are the only ones: to CreateSwap, to the state that sends the
\* opening message, to the messages that commit the taker, and out of the states
\* around the coop close.
LEMMA TablePaths ==
  ASSUME NEW n \in Node, NEW s, NEW e, NEW t \in NextStates(SwapType, n, s, e)
  PROVE  /\ t # "Default"
         /\ t = "CreateSwap" => s = "Default"
         /\ t = "SendTxBroadcastedMessage"
              => s = "BroadcastOpeningTx" /\ e = "ActionSucceeded"
         /\ t \in {"SendRequest", "SendAgreement"}
              => s = "CreateSwap" /\ e = "ActionSucceeded"
         /\ t = "SendCoopClose" => s = "SendPrivkey"
         /\ n = "taker" /\ s \in {"SendPrivkey", "SendCoopClose", "ClaimedCoop",
                                  "SendCancel", "SwapCanceled"}
              => t \in {"SendPrivkey", "SendCoopClose", "ClaimedCoop",
                        "SendCancel", "SwapCanceled"}
<1> DEFINE Path(u, taker) ==
  /\ u[3] # "Default"
  /\ u[3] = "CreateSwap" => u[1] = "Default"
  /\ u[3] = "SendTxBroadcastedMessage"
       => u[1] = "BroadcastOpeningTx" /\ u[2] = "ActionSucceeded"
  /\ u[3] \in {"SendRequest", "SendAgreement"}
       => u[1] = "CreateSwap" /\ u[2] = "ActionSucceeded"
  /\ u[3] = "SendCoopClose" => u[1] = "SendPrivkey"
  /\ taker /\ u[1] \in {"SendPrivkey", "SendCoopClose", "ClaimedCoop",
                        "SendCancel", "SwapCanceled"}
       => u[3] \in {"SendPrivkey", "SendCoopClose", "ClaimedCoop",
                    "SendCancel", "SwapCanceled"}
<1>1. \A u \in SwapOutSenderStates : Path(u, TRUE)
  BY SMT, SMTT(20) DEF SwapOutSenderStates, SendCancelEvents
<1>2. \A u \in SwapInReceiverStates : Path(u, TRUE)
  BY SMT, SMTT(20) DEF SwapInReceiverStates, SendCancelEvents
<1>3. \A u \in SwapOutReceiverStates : Path(u, FALSE)
  BY SMT, SMTT(20) DEF SwapOutReceiverStates, MakerRefundEvents, SendCancelEvents
<1>4. \A u \in SwapInSenderStates : Path(u, FALSE)
  BY SMT, SMTT(20) DEF SwapInSenderStates, MakerRefundEvents, SendCancelEvents
<1>5. PICK u \in States(SwapType, n) : u[1] = s /\ u[2] = e /\ u[3] = t
  BY DEF NextStates, Lookup
<1>6. Path(u, n = "taker")
  BY <1>1, <1>2, <1>3, <1>4, <1>5 DEF States, Node
<1> QED BY <1>5, <1>6
-----------------------------------------------------------------------------
(* The inductive invariant, node by node. *)

\* The taker has failed the swap and tells the maker.
Closing == {"SendPrivkey", "SendCoopClose", "ClaimedCoop", "SendCancel",
            "SwapCanceled"}

\* The action of state s has returned ActionSucceeded to SendEvent or Recover.
Returned(n, s) ==
  cur[n] = s /\ ev[n] = "ActionSucceeded" /\ pc[n] \in {"event", "save", "rsave"}

\* The record agrees with the memory except while an action runs and until its
\* result is saved; payments are made in one state only.
ControlAt(n) ==
  /\ pc[n] # "none" => disk[n].cur # "Absent"
  /\ disk[n].cur = "Absent" => cur[n] = "Default" /\ data[n] = NewData
  /\ pc[n] \in {"idle", "event", "down", "recover"}
       => disk[n].cur = cur[n] /\ disk[n].data = data[n]
  /\ pc[n] = "rsave" => disk[n].cur = cur[n]
  /\ pc[n] \in {"loop", "rpc", "again"} => cur[n] = "ValidateTxAndPayClaimInvoice"
  /\ n = "maker" => /\ cur[n] \in MakerState
                    /\ disk[n].cur \in MakerState \cup {"Absent"}
  /\ n = "taker" => /\ cur[n] \in TakerState
                    /\ disk[n].cur \in TakerState \cup {"Absent"}

\* The memory is never behind the record, and a state that sends a message
\* that matters is entered with the data it depends on saved.
DataAt(n) ==
  /\ disk[n].data.openTx => data[n].openTx
  /\ disk[n].data.anchor # 0 => data[n].anchor = disk[n].data.anchor
  /\ cur[n] = "Default" => data[n].anchor = 0
  /\ disk[n].cur \in {"Default", "Absent"} => disk[n].data.anchor = 0
  /\ vol[n].sender => disk[n].data.openTx
  /\ "SendTxBroadcastedMessage" \in {cur[n], disk[n].cur} => disk[n].data.openTx
  /\ Returned(n, "BroadcastOpeningTx") => data[n].openTx
  /\ n = "taker" /\ Chain = "lbtc" =>
       /\ cur[n] \in {"SendRequest", "SendAgreement"} => disk[n].data.anchor # 0
       /\ disk[n].cur \in {"SendRequest", "SendAgreement"}
            => disk[n].data.anchor # 0
       /\ Returned(n, "CreateSwap") => data[n].anchor # 0

NodeInv(n) == ControlAt(n) /\ DataAt(n)

\* What the messages sent so far say about the records.
WireInv ==
  /\ <<"taker", "opening">> \in wire => disk["maker"].data.openTx
  /\ <<"maker", "coop">> \in wire
       => cur["taker"] \in Closing /\ disk["taker"].cur \in Closing
  /\ AnchorBeforeCommitment

Inv == TypeOK /\ (\A n \in Node : NodeInv(n)) /\ WireInv

\* What a step never takes away from node n.
Kept(n) ==
  /\ disk[n].data.openTx => disk'[n].data.openTx
  /\ disk[n].data.anchor # 0 => disk'[n].data.anchor = disk[n].data.anchor
  /\ n = "taker" /\ cur[n] \in Closing /\ disk[n].cur \in Closing
       => cur'[n] \in Closing /\ disk'[n].cur \in Closing

\* Everything NodeInv(m) is about stays, but the sender may be turned off.
Untouched(m) ==
  /\ cur'[m] = cur[m] /\ data'[m] = data[m] /\ disk'[m] = disk[m]
  /\ pc'[m] = pc[m] /\ ev'[m] = ev[m]
  /\ vol'[m].sender => vol[m].sender

\* A node whose variables a step leaves alone keeps its invariant.
LEMMA UntouchedKeeps ==
  ASSUME NEW m \in Node, NodeInv(m), Untouched(m)
  PROVE  NodeInv(m)' /\ Kept(m)
BY SMT, SMTT(20) DEF Untouched, NodeInv, ControlAt, DataAt, Returned, Kept

\* SendEvent's first steps.
LEMMA PostKeeps ==
  ASSUME TypeOK, NEW n \in Node, NodeInv(n), NEW e \in Event \ {"ActionSucceeded"},
         NEW d \in Data, Post(n, e, d), UNCHANGED cur,
         data[n].openTx => d.openTx, d.anchor = data[n].anchor,
         \A m \in Node : vol'[m].sender => vol[m].sender
  PROVE  NodeInv(n)' /\ Kept(n) /\ \A m \in Node \ {n} : Untouched(m)
<1>1. DataOK /\ DiskOK /\ PcOK /\ EvOK /\ CurOK
  BY TypeParts, WorldParts
<1>2. /\ pc'[n] = "event" /\ ev'[n] = e /\ data'[n] = d /\ cur'[n] = cur[n]
      /\ disk'[n].cur = cur[n] /\ disk'[n].data = d /\ pc[n] = "idle"
  BY <1>1 DEF Post, DataOK, DiskOK, PcOK, EvOK
<1>3. ControlAt(n)'
  BY <1>2 DEF NodeInv, ControlAt
<1>4. DataAt(n)'
  BY <1>2 DEF NodeInv, ControlAt, DataAt, Returned
<1>5. Kept(n)
  BY <1>2 DEF NodeInv, ControlAt, DataAt, Kept
<1>6. \A m \in Node \ {n} : Untouched(m)
  BY <1>1 DEF Post, Untouched, DataOK, DiskOK, PcOK, EvOK
<1> QED BY <1>3, <1>4, <1>5, <1>6 DEF NodeInv

\* SendEvent's transition with the action of the new state.
LEMMA TransitionKeeps ==
  ASSUME TypeOK, NEW n \in Node, NodeInv(n), Transition(n)
  PROVE  NodeInv(n)' /\ Kept(n) /\ \A m \in Node \ {n} : Untouched(m)
<1>1. DiskOK /\ PcOK /\ EvOK /\ CurOK /\ WorldOK /\ VolOK
  BY TypeParts, WorldParts
<1>2. PICK s \in NextStates(SwapType, n, cur[n], ev[n]), r \in ActionResult :
        /\ Execute(n, s, TRUE, r)
        /\ cur' = [cur EXCEPT ![n] = s]
        /\ ev' = [ev EXCEPT ![n] = r]
        /\ pc' = [pc EXCEPT ![n] = AfterAction(r, "save")]
  BY DEF Transition
<1>3. s \in State
  BY TableType
<1>4. /\ cur'[n] = s /\ ev'[n] = r /\ disk' = disk /\ pc[n] = "event"
      /\ pc'[n] \in {"save", "loop", "blocked"}
      /\ pc'[n] = "loop" => r = "Loop"
  BY <1>1, <1>2 DEF CurOK, EvOK, PcOK, AfterAction, Transition
<1>5. /\ disk[n].cur = cur[n] /\ disk[n].data = data[n] /\ disk[n].cur # "Absent"
  BY <1>4 DEF NodeInv, ControlAt
<1>6. ControlAt(n)'
  <2>1. /\ n = "maker" => s \in MakerState
        /\ n = "taker" => s \in TakerState
    BY TableRoles
  <2>2. r = "Loop" => s = "ValidateTxAndPayClaimInvoice"
    BY <1>1, <1>2, <1>3, ExecutePay
  <2> QED BY <1>4, <1>5, <2>1, <2>2 DEF NodeInv, ControlAt
<1>7. DataAt(n)'
  <2>1. /\ data[n].openTx => data'[n].openTx
        /\ s = "BroadcastOpeningTx" /\ r = "ActionSucceeded" => data'[n].openTx
        /\ s # "CreateSwap" /\ data[n].anchor # 0
             => data'[n].anchor = data[n].anchor
        /\ s = "CreateSwap" /\ r = "ActionSucceeded" /\ n = "taker"
             /\ Chain = "lbtc" => data'[n].anchor # 0
    BY <1>1, <1>2, <1>3, ExecuteData
  <2>2. vol'[n].sender => vol[n].sender \/ s = "SendTxBroadcastedMessage"
    BY <1>1, <1>2, <1>3, ExecuteSender
  <2>3. /\ s # "Default"
        /\ s = "CreateSwap" => cur[n] = "Default"
        /\ s = "SendTxBroadcastedMessage" => Returned(n, "BroadcastOpeningTx")
        /\ s \in {"SendRequest", "SendAgreement"} => Returned(n, "CreateSwap")
    BY <1>4, TablePaths, SMT, SMTT(20) DEF Returned
  <2> QED BY <1>4, <1>5, <2>1, <2>2, <2>3 DEF NodeInv, DataAt, Returned
<1>8. Kept(n)
  BY <1>4, <1>5, TablePaths, SMT, SMTT(20) DEF Kept, Closing
<1>9. ASSUME NEW m \in Node \ {n}
      PROVE  Untouched(m)
  <2>1. data'[m] = data[m]
    BY <1>1, <1>2, <1>3, ExecuteData
  <2>2. vol'[m].sender => vol[m].sender
    BY <1>1, <1>2, <1>3, ExecuteSender
  <2> QED BY <1>1, <1>2, <1>4, <2>1, <2>2 DEF Untouched, CurOK, EvOK, PcOK
<1> QED BY <1>6, <1>7, <1>8, <1>9 DEF NodeInv

\* UpdateData after an action, and the retry counter.
LEMMA SaveKeeps ==
  ASSUME TypeOK, NEW n \in Node, NodeInv(n), Save(n)
  PROVE  NodeInv(n)' /\ Kept(n) /\ \A m \in Node \ {n} : Untouched(m)
<1>1. DiskOK /\ PcOK /\ CurOK /\ VolOK
  BY TypeParts, WorldParts
<1>2. /\ disk'[n].cur = cur[n] /\ disk'[n].data = data[n]
      /\ cur' = cur /\ data' = data /\ ev' = ev
      /\ pc[n] \in {"save", "rsave"}
      /\ pc'[n] \in {"none", "idle", "event"}
      /\ cur[n] # "Absent"
  BY <1>1 DEF Save, DiskOK, PcOK, CurOK, State, TakerState, MakerState
<1>3. \A m \in Node : vol'[m].sender = vol[m].sender
  BY <1>1, SMT, SMTT(20) DEF Save, VolOK, Volatile
<1>4. ControlAt(n)'
  BY <1>2 DEF NodeInv, ControlAt
<1>5. DataAt(n)'
  BY <1>2, <1>3 DEF NodeInv, ControlAt, DataAt, Returned
<1>6. Kept(n)
  BY <1>2 DEF NodeInv, DataAt, Kept
<1>7. \A m \in Node \ {n} : Untouched(m)
  BY <1>1, <1>2, <1>3 DEF Save, Untouched, DiskOK, PcOK
<1> QED BY <1>4, <1>5, <1>6, <1>7 DEF NodeInv

\* A crash brings the record back, which satisfies the invariant by itself.
LEMMA CrashKeeps ==
  ASSUME TypeOK, NEW n \in Node, NodeInv(n), Crash(n)
  PROVE  NodeInv(n)' /\ Kept(n) /\ \A m \in Node \ {n} : Untouched(m)
<1>1. CurOK /\ DataOK /\ PcOK /\ EvOK /\ VolOK
  BY TypeParts, WorldParts
<1>2. /\ cur'[n] = disk[n].cur /\ data'[n] = disk[n].data /\ disk' = disk
      /\ pc'[n] = "down" /\ pc[n] # "none" /\ ~vol'[n].sender
  BY <1>1 DEF Crash, CurOK, DataOK, PcOK, VolOK, NewVolatile
<1>3. ControlAt(n)'
  BY <1>2 DEF NodeInv, ControlAt
<1>4. DataAt(n)'
  BY <1>2 DEF NodeInv, ControlAt, DataAt, Returned
<1>5. Kept(n)
  BY <1>2 DEF Kept
<1>6. \A m \in Node \ {n} : Untouched(m)
  BY <1>1 DEF Crash, Untouched, CurOK, DataOK, PcOK, EvOK, VolOK
<1> QED BY <1>3, <1>4, <1>5, <1>6 DEF NodeInv

\* Recover: nothing to run, a state that fails on recovery, or the action of
\* the recorded state once more.
LEMMA RecoverKeeps ==
  ASSUME TypeOK, NEW n \in Node, NodeInv(n), Recover(n)
  PROVE  NodeInv(n)' /\ Kept(n) /\ \A m \in Node \ {n} : Untouched(m)
<1>1. PcOK /\ EvOK /\ CurOK /\ WorldOK
  BY TypeParts
<1>2. /\ disk[n].cur = cur[n] /\ disk[n].data = data[n] /\ disk[n].cur # "Absent"
      /\ cur' = cur /\ disk' = disk
  BY DEF NodeInv, ControlAt, Recover
<1>3. Kept(n)
  BY <1>2 DEF Kept
<1>4. CASE /\ UNCHANGED world
           /\ pc' = [pc EXCEPT ![n] = "idle"] /\ UNCHANGED ev
  <2>1. pc'[n] = "idle" /\ data' = data /\ vol' = vol
    BY <1>1, <1>4 DEF PcOK, world
  <2>2. ControlAt(n)'
    BY <1>2, <2>1 DEF NodeInv, ControlAt
  <2>3. DataAt(n)'
    BY <1>2, <2>1 DEF NodeInv, DataAt, Returned
  <2>4. \A m \in Node \ {n} : Untouched(m)
    BY <1>1, <1>2, <1>4, <2>1 DEF Untouched, PcOK
  <2> QED BY <1>3, <2>2, <2>3, <2>4 DEF NodeInv
<1>5. CASE /\ UNCHANGED world
           /\ pc' = [pc EXCEPT ![n] = "event"]
           /\ ev' = [ev EXCEPT ![n] = "ActionFailed"]
  <2>1. /\ pc'[n] = "event" /\ ev'[n] = "ActionFailed"
        /\ data' = data /\ vol' = vol
    BY <1>1, <1>5 DEF PcOK, EvOK, world
  <2>2. ControlAt(n)'
    BY <1>2, <2>1 DEF NodeInv, ControlAt
  <2>3. DataAt(n)'
    BY <1>2, <2>1 DEF NodeInv, DataAt, Returned
  <2>4. \A m \in Node \ {n} : Untouched(m)
    BY <1>1, <1>2, <1>5, <2>1 DEF Untouched, PcOK, EvOK
  <2> QED BY <1>3, <2>2, <2>3, <2>4 DEF NodeInv
<1>6. ASSUME cur[n] \notin FailOnrecover(SwapType, n) \cup {"Default"},
             NEW r \in ActionResult,
             Execute(n, cur[n], FALSE, r),
             ev' = [ev EXCEPT ![n] = r],
             pc' = [pc EXCEPT ![n] = AfterAction(r, "rsave")]
      PROVE  NodeInv(n)' /\ Kept(n) /\ \A m \in Node \ {n} : Untouched(m)
  <2>1. cur[n] \in State
    BY <1>1 DEF CurOK
  <2>2. /\ pc'[n] \in {"rsave", "loop", "blocked"} /\ ev'[n] = r
        /\ pc'[n] = "loop" => r = "Loop"
    BY <1>1, <1>6 DEF PcOK, EvOK, AfterAction
  <2>3. cur[n] # "CreateSwap" /\ cur[n] # "Default"
    BY <1>6 DEF FailOnrecover
  <2>4. ControlAt(n)'
    <3>1. r = "Loop" => cur[n] = "ValidateTxAndPayClaimInvoice"
      BY <1>1, <1>6, <2>1, ExecutePay
    <3> QED BY <1>2, <2>2, <3>1 DEF NodeInv, ControlAt
  <2>5. DataAt(n)'
    <3>1. /\ data[n].openTx => data'[n].openTx
          /\ cur[n] = "BroadcastOpeningTx" /\ r = "ActionSucceeded"
               => data'[n].openTx
          /\ data[n].anchor # 0 => data'[n].anchor = data[n].anchor
      BY <1>1, <1>6, <2>1, <2>3, ExecuteData
    <3>2. vol'[n].sender => vol[n].sender \/ cur[n] = "SendTxBroadcastedMessage"
      BY <1>1, <1>6, <2>1, ExecuteSender
    <3> QED BY <1>2, <2>2, <2>3, <3>1, <3>2 DEF NodeInv, DataAt, Returned
  <2>6. ASSUME NEW m \in Node \ {n}
        PROVE  Untouched(m)
    <3>1. data'[m] = data[m]
      BY <1>1, <1>6, <2>1, ExecuteData
    <3>2. vol'[m].sender => vol[m].sender
      BY <1>1, <1>6, <2>1, ExecuteSender
    <3> QED BY <1>1, <1>2, <1>6, <3>1, <3>2 DEF Untouched, EvOK, PcOK
  <2> QED BY <1>3, <2>4, <2>5, <2>6 DEF NodeInv
<1> QED BY <1>4, <1>5, <1>6 DEF Recover

\* Every step of a node keeps its own part of the invariant and leaves the
\* other node's alone.
LEMMA NodeStepKeeps ==
  ASSUME TypeOK, NEW n \in Node, NodeInv(n), NodeStep(n)
  PROVE  NodeInv(n)' /\ Kept(n) /\ \A m \in Node \ {n} : Untouched(m)
<1>a. CurOK /\ DiskOK /\ PcOK /\ EvOK /\ DataOK /\ VolOK
  BY TypeParts, WorldParts
<1>b. data[n] \in Data
  BY <1>a DEF DataOK
<1>1. ASSUME NEW e \in Event \ {"ActionSucceeded"}, NewSwap(n, e)
      PROVE  NodeInv(n)' /\ Kept(n) /\ \A m \in Node \ {n} : Untouched(m)
  <2>1. /\ pc'[n] = "event" /\ ev'[n] = e /\ data' = data /\ cur' = cur /\ vol' = vol
        /\ disk'[n].cur = "Default" /\ disk'[n].data = NewData
        /\ disk[n].cur = "Absent"
    BY <1>1, <1>a DEF NewSwap, PcOK, EvOK, DiskOK
  <2>2. cur[n] = "Default" /\ data[n] = NewData /\ ~vol[n].sender
    <3>1. ControlAt(n) /\ DataAt(n)
      BY DEF NodeInv
    <3>2. cur[n] = "Default" /\ data[n] = NewData
      BY <2>1, <3>1 DEF ControlAt
    <3>3. ~data[n].openTx
      BY <3>2, SMT, SMTT(20) DEF NewData
    <3>4. vol[n].sender => data[n].openTx
      BY <3>1 DEF DataAt
    <3>5. vol[n].sender \in BOOLEAN
      BY <1>a DEF VolOK, Volatile
    <3> QED BY <3>2, <3>3, <3>4, <3>5
  <2>3. ControlAt(n)'
    BY <2>1, <2>2 DEF NodeInv, ControlAt, MakerState, TakerState
  <2>4. DataAt(n)'
    BY <2>1, <2>2, SMT, SMTT(20) DEF DataAt, Returned, NewData
  <2>5. Kept(n)
    BY <2>1, <2>2 DEF NodeInv, DataAt, Kept, NewData, Closing
  <2>6. \A m \in Node \ {n} : Untouched(m)
    BY <1>1, <1>a DEF NewSwap, Untouched, PcOK, EvOK, DiskOK
  <2> QED BY <2>3, <2>4, <2>5, <2>6 DEF NodeInv
<1>2. CASE StartSwap(n) \/ ReceiveRequest(n)
  BY <1>1, <1>2 DEF StartSwap, ReceiveRequest, Event
<1>3. ASSUME NEW t \in MessageType, ReceiveMessage(n, t)
      PROVE  NodeInv(n)' /\ Kept(n) /\ \A m \in Node \ {n} : Untouched(m)
  <2>1. CASE Post(n, EventOf(t), ApplyToSwapData(data[n], t))
    <3> DEFINE d == ApplyToSwapData(data[n], t)
    <3>1. d \in Data
      BY <1>b, AppliedType
    <3>2. d.anchor = data[n].anchor /\ (data[n].openTx => d.openTx)
      BY <1>b DEF ApplyToSwapData, Data
    <3>3. EventOf(t) \in Event \ {"ActionSucceeded"}
      BY DEF EventOf, Event
    <3> HIDE DEF d
    <3> QED BY <1>3, <2>1, <3>1, <3>2, <3>3, PostKeeps DEF ReceiveMessage, d
  <2>2. CASE Post(n, "OnInvalid_Message", data[n])
    BY <1>3, <1>b, <2>2, PostKeeps DEF ReceiveMessage, Event
  <2> QED BY <1>3, <2>1, <2>2 DEF ReceiveMessage
<1>4. CASE \/ RefuseRequest(n) \/ ResendMessage(n)
           \/ \E t \in MessageType : IgnoreMessage(n, t)
  <2>1. \A m \in Node : Untouched(m)
    BY <1>4 DEF RefuseRequest, ResendMessage, IgnoreMessage, Untouched
  <2> QED BY <2>1, UntouchedKeeps
<1>5. CASE Reject(n) \/ Restart(n)
  <2>1. /\ \/ pc[n] = "event" /\ pc'[n] = "idle"
           \/ pc[n] = "down" /\ pc'[n] \in {"none", "recover"}
        /\ cur' = cur /\ data' = data /\ disk' = disk /\ ev' = ev /\ vol' = vol
    BY <1>5, <1>a DEF Reject, Restart, PcOK, world
  <2>2. ControlAt(n)'
    BY <2>1 DEF NodeInv, ControlAt
  <2>3. DataAt(n)'
    BY <2>1 DEF NodeInv, DataAt, Returned
  <2>4. Kept(n)
    BY <2>1 DEF Kept
  <2>5. \A m \in Node \ {n} : Untouched(m)
    BY <1>5, <1>a, <2>1 DEF Reject, Restart, PcOK, Untouched
  <2> QED BY <2>2, <2>3, <2>4, <2>5 DEF NodeInv
<1>6. ASSUME NEW e \in Event \ {"ActionSucceeded"}, Callback(n, e),
             \A m \in Node : vol'[m].sender => vol[m].sender
      PROVE  NodeInv(n)' /\ Kept(n) /\ \A m \in Node \ {n} : Untouched(m)
  BY <1>6, <1>b, PostKeeps DEF Callback
<1>7. ASSUME \/ vol' = [vol EXCEPT ![n].timer = FALSE]
             \/ \E w \in Watch : Unwatch(n, w)
      PROVE  \A m \in Node : vol'[m].sender = vol[m].sender
  BY <1>7, <1>a, SMT, SMTT(20) DEF Unwatch, VolOK, Volatile
<1>8. CASE \/ Timeout(n) \/ FeeInvoicePaid(n) \/ ClaimInvoicePaid(n)
           \/ OnCsvPassed(n) \/ RpcTxConfirmed(n)
  BY <1>6, <1>7, <1>8
  DEF Timeout, FeeInvoicePaid, ClaimInvoicePaid, OnCsvPassed, RpcTxConfirmed,
      Event, Watch
<1>9. CASE LndTxConfirmed(n)
  <2>1. \A m \in Node : vol'[m].sender = vol[m].sender
    BY <1>7, <1>9 DEF LndTxConfirmed, Watch
  <2>2. CASE Callback(n, "OnCsvPassed") \/ Callback(n, "OnTxConfirmed")
    BY <1>6, <2>1, <2>2 DEF Event
  <2>3. CASE UNCHANGED <<cur, data, disk, pc, ev, net, wire, chain, ln, crashes>>
    <3>1. \A m \in Node : Untouched(m)
      BY <2>1, <2>3 DEF Untouched
    <3> QED BY <3>1, UntouchedKeeps
  <2> QED BY <1>9, <2>2, <2>3 DEF LndTxConfirmed
<1>10. CASE PayTimeout(n) \/ PayTick(n) \/ PayReturn(n)
  <2>1. /\ pc[n] \in {"loop", "rpc", "again"}
        /\ pc'[n] \in {"rpc", "again", "save"}
        /\ cur' = cur /\ disk' = disk /\ vol' = vol
        /\ data' = data \/ data' = [data EXCEPT ![n].preimage = TRUE]
    BY <1>10, <1>a DEF PayTimeout, PayTick, PayReturn, Return, PcOK, world
  <2>2. /\ data'[n].openTx = data[n].openTx /\ data'[n].anchor = data[n].anchor
        /\ \A m \in Node \ {n} : data'[m] = data[m]
    BY <1>a, <2>1 DEF DataOK, Data
  <2>3. ControlAt(n)'
    BY <2>1 DEF NodeInv, ControlAt
  <2>4. DataAt(n)'
    BY <2>1, <2>2 DEF NodeInv, ControlAt, DataAt, Returned
  <2>5. Kept(n)
    BY <2>1 DEF Kept
  <2>6. \A m \in Node \ {n} : Untouched(m)
    BY <1>10, <1>a, <2>1, <2>2
    DEF PayTimeout, PayTick, PayReturn, Return, PcOK, EvOK, Untouched
  <2> QED BY <2>3, <2>4, <2>5, <2>6 DEF NodeInv
<1> QED
  BY <1>2, <1>3, <1>4, <1>5, <1>8, <1>9, <1>10, TransitionKeeps, SaveKeeps,
     CrashKeeps, RecoverKeeps
  DEF NodeStep

\* No swap has begun: the invariant holds.
LEMMA InitInv == Init => Inv
<1> SUFFICES ASSUME Init PROVE Inv
  OBVIOUS
<1>1. TypeOK
  <2>1. CurOK /\ PcOK /\ EvOK
    BY DEF Init, CurOK, PcOK, Pc, EvOK, Event, State, TakerState
  <2>2. DataOK /\ VolOK /\ DiskOK
    BY NewTypes DEF Init, DataOK, VolOK, DiskOK
  <2>3. NetOK /\ ChainOK /\ LnOK
    BY SMT, SMTT(20) DEF Init, NetOK, ChainOK, LnOK
  <2>4. CrashesOK
    BY SwapAssumption, SMT, SMTT(20) DEF Init, CrashesOK
  <2> QED BY <2>1, <2>2, <2>3, <2>4, TypeParts, WorldParts
<1>2. ASSUME NEW n \in Node PROVE NodeInv(n)
  BY DEF Init, NodeInv, ControlAt, DataAt, Returned, NewData, NewVolatile,
         MakerState, TakerState
<1>3. WireInv
  BY DEF Init, WireInv, AnchorBeforeCommitment
<1> QED BY <1>1, <1>2, <1>3 DEF Inv

\* What is on the wire stays true of the records: a step keeps the records that
\* earlier messages speak of, and sends a message only from the state for it.
LEMMA WireStep ==
  ASSUME Inv, Next, \A n \in Node : Kept(n)
  PROVE  WireInv'
<1>a. TypeOK /\ WireInv /\ NodeInv("maker") /\ NodeInv("taker")
      /\ Kept("maker") /\ Kept("taker")
  BY DEF Inv, Node
<1>b. WorldOK /\ CurOK
  BY <1>a, TypeParts
<1>1. ASSUME wire' \subseteq wire \cup {<<"maker", "cancel">>, <<"taker", "cancel">>}
      PROVE  WireInv'
  BY <1>a, <1>1 DEF WireInv, AnchorBeforeCommitment, Kept
<1>2. ASSUME NEW n \in Node, NEW s \in State, NEW locked \in BOOLEAN,
             NEW r \in ActionResult, Execute(n, s, locked, r),
             s = "SendTxBroadcastedMessage" => disk[n].data.openTx,
             s = "SendCoopClose" /\ n = "taker"
               => cur'[n] \in Closing /\ disk'[n].cur \in Closing,
             s \in {"SendRequest", "SendAgreement"} /\ n = "taker"
               /\ Chain = "lbtc" => disk[n].data.anchor # 0,
             n = "taker" => s \in TakerState
      PROVE  WireInv'
  <2>1. ASSUME <<"taker", "opening">> \in wire'
        PROVE  disk'["maker"].data.openTx
    <3>1. \/ <<"taker", "opening">> \in wire
          \/ n = "maker" /\ s = "SendTxBroadcastedMessage"
      BY <1>2, <2>1, ExecuteWire DEF Peer, Node
    <3> QED BY <1>2, <1>a, <3>1 DEF WireInv, Kept
  <2>2. ASSUME <<"maker", "coop">> \in wire'
        PROVE  cur'["taker"] \in Closing /\ disk'["taker"].cur \in Closing
    <3>1. \/ <<"maker", "coop">> \in wire
          \/ n = "taker" /\ s = "SendCoopClose"
      BY <1>2, <2>2, ExecuteWire DEF Peer, Node
    <3> QED BY <1>2, <1>a, <3>1 DEF WireInv, Kept
  <2>3. AnchorBeforeCommitment'
    <3> DEFINE m == <<"maker", IF SwapType = "out" THEN "request"
                                                   ELSE "agreement">>
    <3>1. SUFFICES ASSUME Chain = "lbtc", m \in wire'
                   PROVE  disk'["taker"].data.anchor # 0
      BY DEF AnchorBeforeCommitment
    <3>2. \/ m \in wire
          \/ n = "taker" /\ s \in {"SendRequest", "SendAgreement"}
      BY <1>2, <3>1, ExecuteWire DEF Peer, Node, TakerState
    <3> QED BY <1>2, <1>a, <3>1, <3>2 DEF WireInv, AnchorBeforeCommitment, Kept
  <2> QED BY <2>1, <2>2, <2>3 DEF WireInv
<1>3. ASSUME NEW n \in Node, Transition(n)
      PROVE  WireInv'
  <2>1. PICK s \in NextStates(SwapType, n, cur[n], ev[n]), r \in ActionResult :
          Execute(n, s, TRUE, r) /\ cur' = [cur EXCEPT ![n] = s]
    BY <1>3 DEF Transition
  <2>2. s \in State /\ (n = "taker" => s \in TakerState)
    BY TableType, TableRoles
  <2>3. /\ pc[n] = "event" /\ cur'[n] = s /\ disk' = disk /\ NodeInv(n)
        /\ disk[n].cur = cur[n] /\ disk[n].data = data[n]
    <3>1. pc[n] = "event" /\ disk' = disk /\ cur'[n] = s
      BY <1>3, <1>b, <2>1 DEF Transition, CurOK
    <3>2. ControlAt(n) /\ DataAt(n)
      BY <1>a DEF Inv, NodeInv
    <3>3. disk[n].cur = cur[n] /\ disk[n].data = data[n]
      BY <3>1, <3>2 DEF ControlAt
    <3> QED BY <3>1, <3>2, <3>3 DEF NodeInv
  <2>p. /\ s = "SendTxBroadcastedMessage"
             => cur[n] = "BroadcastOpeningTx" /\ ev[n] = "ActionSucceeded"
        /\ s \in {"SendRequest", "SendAgreement"}
             => cur[n] = "CreateSwap" /\ ev[n] = "ActionSucceeded"
    BY <2>1, TablePaths, SMT, SMTT(20)
  <2>4. s = "SendTxBroadcastedMessage" => disk[n].data.openTx
    <3>1. Returned(n, "BroadcastOpeningTx") => data[n].openTx
      BY <2>3 DEF NodeInv, DataAt
    <3> QED BY <2>3, <2>p, <3>1 DEF Returned
  <2>5. s = "SendCoopClose" => cur'[n] \in Closing /\ disk'[n].cur \in Closing
    <3>1. s = "SendCoopClose" => cur[n] = "SendPrivkey"
      BY <2>1, TablePaths, SMT, SMTT(20)
    <3>2. {"SendCoopClose", "SendPrivkey"} \subseteq Closing
      BY DEF Closing
    <3> QED BY <2>3, <3>1, <3>2
  <2>6. s \in {"SendRequest", "SendAgreement"} /\ n = "taker" /\ Chain = "lbtc"
          => disk[n].data.anchor # 0
    <3>1. n = "taker" /\ Chain = "lbtc" /\ Returned(n, "CreateSwap") => data[n].anchor # 0
      BY <2>3 DEF NodeInv, DataAt
    <3> QED BY <2>3, <2>p, <3>1 DEF Returned
  <2> QED BY <1>2, <2>1, <2>2, <2>4, <2>5, <2>6
<1>4. ASSUME NEW n \in Node, Recover(n)
      PROVE  WireInv'
  <2>1. CASE UNCHANGED world
    BY <1>1, <2>1 DEF world
  <2>2. ASSUME NEW r \in ActionResult, Execute(n, cur[n], FALSE, r)
        PROVE  WireInv'
    <3>1. /\ pc[n] = "recover" /\ cur' = cur /\ disk' = disk /\ NodeInv(n)
          /\ disk[n].cur = cur[n] /\ cur[n] \in State
      BY <1>4, <1>a, <1>b DEF Recover, CurOK, Inv, NodeInv, ControlAt
    <3>2. /\ n = "taker" => cur[n] \in TakerState
          /\ cur[n] = "SendTxBroadcastedMessage" => disk[n].data.openTx
          /\ cur[n] \in {"SendRequest", "SendAgreement"} /\ n = "taker"
               /\ Chain = "lbtc" => disk[n].data.anchor # 0
      BY <3>1 DEF NodeInv, ControlAt, DataAt
    <3>3. cur[n] = "SendCoopClose" => cur'[n] \in Closing /\ disk'[n].cur \in Closing
      BY <3>1 DEF Closing
    <3> QED BY <1>2, <2>2, <3>1, <3>2, <3>3
  <2> QED BY <1>4, <2>1, <2>2 DEF Recover
<1>5. ASSUME NEW n \in Node, ResendMessage(n)
      PROVE  WireInv'
  <2>1. CASE n = "taker"
    BY <1>5, <1>a, <2>1
    DEF ResendMessage, Send, Peer, WireInv, AnchorBeforeCommitment
  <2>2. CASE n = "maker"
    <3>1. disk'["maker"].data.openTx
      BY <1>5, <1>a, <2>2 DEF ResendMessage, NodeInv, DataAt
    <3> QED
      BY <1>5, <1>a, <2>2, <3>1
      DEF ResendMessage, Send, Peer, WireInv, AnchorBeforeCommitment
  <2> QED BY <2>1, <2>2 DEF Node
<1>6. ASSUME NEW n \in Node,
             \/ StartSwap(n) \/ ReceiveRequest(n) \/ RefuseRequest(n)
             \/ \E t \in MessageType : ReceiveMessage(n, t) \/ IgnoreMessage(n, t)
             \/ Reject(n) \/ Save(n) \/ Crash(n) \/ Restart(n)
      PROVE  WireInv'
  BY <1>1, <1>6
  DEF StartSwap, ReceiveRequest, RefuseRequest, ReceiveMessage, IgnoreMessage,
      Reject, Save, Crash, Restart, world, Peer, Node
<1>7. ASSUME NEW n \in Node,
             \/ Timeout(n) \/ FeeInvoicePaid(n) \/ ClaimInvoicePaid(n)
             \/ OnCsvPassed(n) \/ RpcTxConfirmed(n) \/ LndTxConfirmed(n)
             \/ PayTimeout(n) \/ PayTick(n) \/ PayReturn(n)
      PROVE  WireInv'
  BY <1>1, <1>7
  DEF Timeout, FeeInvoicePaid, ClaimInvoicePaid, OnCsvPassed, RpcTxConfirmed,
      LndTxConfirmed, Callback, PayTimeout, PayTick, PayReturn, world
<1>8. CASE LoseMessage \/ ResolveHtlc \/ Tick
  BY <1>1, <1>8 DEF LoseMessage, ResolveHtlc, Tick
<1> QED
  BY <1>3, <1>4, <1>5, <1>6, <1>7, <1>8 DEF Next, NodeStep

\* The invariant is inductive, and no step takes away what Kept names.
LEMMA InvStep ==
  ASSUME Inv, [Next]_vars
  PROVE  Inv' /\ \A n \in Node : Kept(n)
<1>a. TypeOK /\ Recorded /\ WireInv /\ \A n \in Node : NodeInv(n)
  BY DEF Inv, Recorded, NodeInv, ControlAt
<1>1. TypeOK'
  BY <1>a, TypeStep
<1>2. \A n \in Node : NodeInv(n)' /\ Kept(n)
  <2>1. ASSUME NEW n \in Node, NodeStep(n)
        PROVE  \A m \in Node : NodeInv(m)' /\ Kept(m)
    BY <1>a, <2>1, NodeStepKeeps, UntouchedKeeps
  <2>2. CASE LoseMessage \/ ResolveHtlc \/ Tick \/ UNCHANGED vars
    <3>1. \A m \in Node : Untouched(m)
      BY <2>2 DEF LoseMessage, ResolveHtlc, Tick, vars, Untouched
    <3> QED BY <1>a, <3>1, UntouchedKeeps
  <2> QED BY <2>1, <2>2 DEF Next
<1>3. WireInv'
  <2>1. CASE Next
    BY <1>2, <2>1, WireStep
  <2>2. CASE UNCHANGED vars
    BY <1>a, <2>2 DEF vars, WireInv, AnchorBeforeCommitment
  <2> QED BY <2>1, <2>2
<1> QED BY <1>1, <1>2, <1>3 DEF Inv
-----------------------------------------------------------------------------
(* The theorems. *)

\* The inductive invariant holds in every reachable state, under every fault.
LEMMA Invariance == Spec => []Inv
<1>1. Inv /\ [Next]_vars => Inv'
  BY InvStep
<1> QED BY InitInv, <1>1, PTL DEF Spec

\* The variables of the two state machines always have their types; above all
\* the record a crashed node comes back with is one of a swap.
THEOREM TypeCorrect == Spec => []TypeOK
<1>1. Inv => TypeOK
  BY DEF Inv
<1> QED BY Invariance, <1>1, PTL

\* Under every fault, crashes at any point and any number of them included, an
\* opening_tx_broadcasted message is only ever sent from a record that holds the
\* opening transaction.
THEOREM OpeningPersistence == Spec => []OpeningSentIsPersisted
<1>1. Inv => OpeningSentIsPersisted
  BY DEF Inv, WireInv, OpeningSentIsPersisted
<1> QED BY Invariance, <1>1, PTL

\* Under every fault the Liquid taker's payment window is on disk before the
\* message that lets the maker fund the swap.
THEOREM AnchorFirst == Spec => []AnchorBeforeCommitment
<1>1. Inv => AnchorBeforeCommitment
  BY DEF Inv, WireInv
<1> QED BY Invariance, <1>1, PTL

\* Under every fault a payment window that is on disk stays where it is.
THEOREM AnchorStays == Spec => AnchorKept
<1>1. Inv /\ [Next]_vars
        => [\A n \in Node : disk[n].data.anchor # 0
              => disk'[n].data.anchor = disk[n].data.anchor]_vars
  BY InvStep DEF Kept
<1> QED BY Invariance, <1>1, PTL DEF Spec, AnchorKept

\* Under every fault a taker that has given its key away starts no payment.
THEOREM RevealEndsPaying == Spec => NoPaymentAfterReveal
<1>1. ASSUME Inv, [Next]_vars
      PROVE  [KeyRevealed /\ ln'.pay = "inflight" => ln.pay = "inflight"]_vars
  <2>1. SUFFICES ASSUME KeyRevealed, Next, ln'.pay = "inflight"
                 PROVE  ln.pay = "inflight"
    BY <1>1
  <2>2. /\ cur["taker"] \in Closing /\ cur["maker"] \in MakerState
        /\ \A n \in Node : pc[n] \in {"loop", "rpc", "again"}
             => cur[n] = "ValidateTxAndPayClaimInvoice"
    BY <1>1, <2>1 DEF Inv, WireInv, KeyRevealed, NodeInv, ControlAt, Node
  <2>3. \A n \in Node : ~PayTick(n)
    BY <2>2 DEF PayTick, Node, Closing, MakerState
  <2>4. WorldOK /\ CurOK
    BY <1>1, TypeParts DEF Inv
  <2>5. ASSUME NEW n \in Node, Transition(n) \/ Recover(n)
        PROVE  ln'.pay = ln.pay
    <3>1. CASE UNCHANGED world
      BY <3>1 DEF world
    <3>2. ASSUME NEW s \in State, NEW locked \in BOOLEAN, NEW r \in ActionResult,
                 Execute(n, s, locked, r)
          PROVE  ln'.pay = ln.pay
      BY <2>4, <3>2, ExecutePay
    <3>3. cur[n] \in State
      BY <2>4 DEF CurOK
    <3> QED BY <2>5, <3>1, <3>2, <3>3, TableType DEF Transition, Recover
  <2>6. CASE ResolveHtlc
    BY <2>6 DEF ResolveHtlc
  <2>7. CASE LoseMessage \/ Tick
    BY <2>1, <2>7 DEF LoseMessage, Tick
  <2>8. ASSUME NEW n \in Node,
               \/ StartSwap(n) \/ ReceiveRequest(n) \/ RefuseRequest(n)
               \/ \E t \in MessageType : ReceiveMessage(n, t) \/ IgnoreMessage(n, t)
               \/ ResendMessage(n) \/ Reject(n) \/ Save(n) \/ Crash(n) \/ Restart(n)
               \/ Timeout(n) \/ FeeInvoicePaid(n) \/ ClaimInvoicePaid(n)
               \/ OnCsvPassed(n) \/ RpcTxConfirmed(n) \/ LndTxConfirmed(n)
               \/ PayTimeout(n) \/ PayReturn(n)
        PROVE  ln' = ln
    BY <2>8
    DEF StartSwap, ReceiveRequest, NewSwap, RefuseRequest, ReceiveMessage,
        IgnoreMessage, ResendMessage, Reject, Save, Crash, Restart, Timeout,
        FeeInvoicePaid, ClaimInvoicePaid, OnCsvPassed, RpcTxConfirmed,
        LndTxConfirmed, Callback, PayTimeout, PayReturn, world
  <2> QED
    BY <2>1, <2>3, <2>5, <2>6, <2>7, <2>8 DEF Next, NodeStep
<1>2. Inv /\ [Next]_vars
        => [KeyRevealed /\ ln'.pay = "inflight" => ln.pay = "inflight"]_vars
  BY <1>1
<1> QED BY Invariance, <1>2, PTL DEF Spec, NoPaymentAfterReveal
=============================================================================
