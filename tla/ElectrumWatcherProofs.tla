------------------------ MODULE ElectrumWatcherProofs ------------------------
(***************************************************************************)
(* Proofs about ElectrumWatcher, for every number of swaps, every window,   *)
(* CSV and number of confirmations, every set of faults and every bound.    *)
(***************************************************************************)
EXTENDS ElectrumWatcher, TLAPS

\* A leaf is tried with Zenon, then with Z3; the leaves that need Z3 say so.
USE Zenon, SMT, SMTT(20)


\* The two locks: callbacks are made under h.mu, SendEvent holds the mutex, an
\* observer is removed only when its machine does not wait any more.
Locks ==
  /\ calling # Idle => loop = "update"
  /\ calling.pc = "locked" => mutex[calling.swap] = "free"
  /\ calling.pc = "remove" => fsm[calling.swap] # "wait"
  /\ \A s \in SwapIds : mutex[s] = "event" => fsm[s] = "wait"

\* The watcher never is ahead of the chain, and a taker's observer only meets
\* heights from its anchor on.  A new process has no observers.
Heights ==
  /\ blockHeight <= tip
  /\ height <= tip
  /\ \A s \in Takers : /\ observers[s] > 0 => start[s] <= blockHeight
                       /\ todo[s] > 0 => start[s] <= height
  /\ loop = "down" => \A s \in SwapIds : 
       observers[s] = 0 /\ fsm[s] # "add" /\ mutex[s] = "free"

\* A taker's machine enters its waiting state once in a process.
Fresh ==
  \A s \in Takers :
    /\ fsm[s] \in {"new", "add"} =>
         /\ observers[s] = 0
         /\ todo[s] = 0
         /\ calling.swap # s
         /\ s \notin recovering
    /\ fsm[s] = "add" => start[s] <= blockHeight

Observed == \A s \in SwapIds : fsm[s] = "wait" => observers[s] > 0 \/ s \in recovering

\* What an event of the watcher says of the chain.
Says(s, e) ==
  /\ e = "confirmed" => /\ hasConfirmations(txHeight[s], tip, Confs)
                        /\ txHeight[s] < start[s] + PaymentWindow
  /\ e = "csv" => hasConfirmations(txHeight[s], tip, Csv)
  /\ e = "late" => tip >= start[s] + PaymentWindow

\* Events delivered, and the one being delivered, are true; a machine that took
\* one is past its waiting state, and so is one that is told of a deadline.
Facts ==
  /\ \A s \in SwapIds : /\ Says(s, told[s])
                        /\ told[s] # "none" => fsm[s] \in {"later", "end"}
  /\ calling # Idle => Says(calling.swap, calling.event)

IInv == TypeOK /\ Locks /\ Heights /\ Fresh /\ Observed /\ Facts

\* Facts is about the chain, the anchors, the events and the machines that are past
\* their waiting state: a step that leaves these alone keeps it.
LEMMA FactsKept ==
  ASSUME Facts, UNCHANGED <<tip, txHeight, start, told, calling>>,
         \A s \in SwapIds : fsm[s] \in {"later", "end"} => fsm'[s] = fsm[s]
  PROVE  Facts'
BY DEF Facts, Says, hasConfirmations

\* Every step of the watcher, of a machine and of a restart keeps IInv.
LEMMA StepKeepsIInv == IInv /\ [Next]_vars => IInv'
<1> SUFFICES ASSUME IInv, [Next]_vars PROVE IInv'
  OBVIOUS
<1>0. TypeOK /\ Locks /\ Heights /\ Fresh /\ Observed /\ Facts
  BY DEF IInv
<1>1. ASSUME MineBlock PROVE IInv'
  <2>1. TypeOK'
    BY <1>0, <1>1, SMT, SMTT(20)
    DEF TypeOK, Phase, CallEvent, Idle, MineBlock, loopVars, callVars,
           swapVars
  <2>2. Locks'
    BY <1>0, <1>1 DEF Locks, Idle, TypeOK, MineBlock, loopVars, callVars, swapVars
  <2>3. Heights'
    BY <1>0, <1>1, SMT, SMTT(20) DEF Heights, TypeOK, SwapIds, MineBlock, loopVars, callVars,
           swapVars
  <2>4. Fresh'
    BY <1>0, <1>1, WatcherAssumption DEF Fresh, TypeOK, SwapIds, Idle, Phase,
           MineBlock, loopVars, callVars, swapVars
  <2>5. Observed'
    BY <1>0, <1>1 DEF Observed, TypeOK, MineBlock, swapVars
  <2>6. Facts'
    BY <1>0, <1>1, <2>1, WatcherAssumption, SMT, SMTT(20)
    DEF Facts, Says, hasConfirmations, Fresh,
           Heights, Idle, SwapIds, TypeOK, MineBlock, loopVars, callVars, swapVars
  <2> QED BY <2>1, <2>2, <2>3, <2>4, <2>5, <2>6 DEF IInv
<1>2. ASSUME NEW h \in 1..tip, StartWatchingTxs(h) PROVE IInv'
  <2>1. TypeOK'
    BY <1>0, <1>2, SMT, SMTT(20)
    DEF TypeOK, Phase, CallEvent, Idle, StartWatchingTxs, chainVars,
           callVars, swapVars
  <2>2. Locks'
    BY <1>0, <1>2 DEF Locks, Idle, TypeOK, StartWatchingTxs, callVars, swapVars
  <2>3. Heights'
    BY <1>0, <1>2, SMT, SMTT(20)
    DEF Heights, TypeOK, SwapIds, StartWatchingTxs, chainVars, callVars,
           swapVars
  <2>4. Fresh'
    BY <1>0, <1>2, WatcherAssumption DEF Fresh, TypeOK, SwapIds, Idle, Phase, Heights,
           StartWatchingTxs, callVars, swapVars
  <2>5. Observed'
    BY <1>0, <1>2 DEF Observed, TypeOK, StartWatchingTxs, swapVars
  <2>6. Facts'
    BY <1>0, <1>2, FactsKept DEF TypeOK, StartWatchingTxs, chainVars, callVars,
           swapVars
  <2> QED BY <2>1, <2>2, <2>3, <2>4, <2>5, <2>6 DEF IInv
<1>3. ASSUME NEW h \in 1..tip, acceptBlockHeight(h) PROVE IInv'
  <2>1. TypeOK'
    BY <1>0, <1>3, SMT, SMTT(20)
    DEF TypeOK, Phase, CallEvent, Idle, acceptBlockHeight, chainVars,
           swapVars
  <2>2. Locks'
    BY <1>0, <1>3 DEF Locks, Idle, TypeOK, acceptBlockHeight, swapVars
  <2>3. Heights'
    BY <1>0, <1>3, SMT, SMTT(20)
    DEF Heights, TypeOK, SwapIds, acceptBlockHeight, chainVars, swapVars
  <2>4. Fresh'
    BY <1>0, <1>3, WatcherAssumption, SMT, SMTT(20) DEF Fresh, TypeOK, SwapIds, Idle, Phase,
           acceptBlockHeight, swapVars
  <2>5. Observed'
    BY <1>0, <1>3 DEF Observed, TypeOK, acceptBlockHeight, swapVars
  <2>6. Facts'
    BY <1>0, <1>3, FactsKept DEF TypeOK, acceptBlockHeight, chainVars, swapVars
  <2> QED BY <2>1, <2>2, <2>3, <2>4, <2>5, <2>6 DEF IInv
<1>4. ASSUME fail PROVE IInv'
  <2>1. TypeOK'
    BY <1>0, <1>4 DEF TypeOK, Phase, CallEvent, Idle, fail, chainVars, callVars,
           swapVars
  <2>2. Locks'
    BY <1>0, <1>4 DEF Locks, Idle, TypeOK, fail, callVars, swapVars
  <2>3. Heights'
    BY <1>0, <1>4 DEF Heights, TypeOK, SwapIds, fail, chainVars, callVars, swapVars
  <2>4. Fresh'
    BY <1>0, <1>4, WatcherAssumption DEF Fresh, TypeOK, SwapIds, Idle, Phase, fail,
           callVars, swapVars
  <2>5. Observed'
    BY <1>0, <1>4 DEF Observed, TypeOK, fail, swapVars
  <2>6. Facts'
    BY <1>0, <1>4, FactsKept DEF TypeOK, fail, chainVars, callVars, swapVars
  <2> QED BY <2>1, <2>2, <2>3, <2>4, <2>5, <2>6 DEF IInv
<1>5. ASSUME SubscriptionClosed PROVE IInv'
  <2>1. TypeOK'
    BY <1>0, <1>5 DEF TypeOK, Phase, CallEvent, Idle, SubscriptionClosed, chainVars,
           callVars, swapVars
  <2>2. Locks'
    BY <1>0, <1>5 DEF Locks, Idle, TypeOK, SubscriptionClosed, callVars, swapVars
  <2>3. Heights'
    BY <1>0, <1>5 DEF Heights, TypeOK, SwapIds, SubscriptionClosed, chainVars,
           callVars, swapVars
  <2>4. Fresh'
    BY <1>0, <1>5, WatcherAssumption DEF Fresh, TypeOK, SwapIds, Idle, Phase,
           SubscriptionClosed, callVars, swapVars
  <2>5. Observed'
    BY <1>0, <1>5 DEF Observed, TypeOK, SubscriptionClosed, swapVars
  <2>6. Facts'
    BY <1>0, <1>5, FactsKept DEF TypeOK, SubscriptionClosed, chainVars, callVars,
           swapVars
  <2> QED BY <2>1, <2>2, <2>3, <2>4, <2>5, <2>6 DEF IInv
<1>6. ASSUME Resubscribe PROVE IInv'
  <2>1. TypeOK'
    BY <1>0, <1>6 DEF TypeOK, Phase, CallEvent, Idle, Resubscribe, chainVars,
           callVars, swapVars
  <2>2. Locks'
    BY <1>0, <1>6 DEF Locks, Idle, TypeOK, Resubscribe, callVars, swapVars
  <2>3. Heights'
    BY <1>0, <1>6 DEF Heights, TypeOK, SwapIds, Resubscribe, chainVars, callVars,
           swapVars
  <2>4. Fresh'
    BY <1>0, <1>6, WatcherAssumption DEF Fresh, TypeOK, SwapIds, Idle, Phase,
           Resubscribe, callVars, swapVars
  <2>5. Observed'
    BY <1>0, <1>6 DEF Observed, TypeOK, Resubscribe, swapVars
  <2>6. Facts'
    BY <1>0, <1>6, FactsKept DEF TypeOK, Resubscribe, chainVars, callVars, swapVars
  <2> QED BY <2>1, <2>2, <2>3, <2>4, <2>5, <2>6 DEF IInv
<1>7. ASSUME UpdateReturns PROVE IInv'
  <2>1. TypeOK'
    BY <1>0, <1>7 DEF TypeOK, Phase, CallEvent, Idle, UpdateReturns, chainVars,
           callVars, swapVars
  <2>2. Locks'
    BY <1>0, <1>7 DEF Locks, Idle, TypeOK, UpdateReturns, callVars, swapVars
  <2>3. Heights'
    BY <1>0, <1>7 DEF Heights, TypeOK, SwapIds, UpdateReturns, chainVars, callVars,
           swapVars
  <2>4. Fresh'
    BY <1>0, <1>7, WatcherAssumption DEF Fresh, TypeOK, SwapIds, Idle, Phase,
           UpdateReturns, callVars, swapVars
  <2>5. Observed'
    BY <1>0, <1>7 DEF Observed, TypeOK, UpdateReturns, swapVars
  <2>6. Facts'
    BY <1>0, <1>7, FactsKept DEF TypeOK, UpdateReturns, chainVars, callVars, swapVars
  <2> QED BY <2>1, <2>2, <2>3, <2>4, <2>5, <2>6 DEF IInv
<1>8. ASSUME NEW s \in SwapIds, Callback(s) PROVE IInv'
  <2>1. TypeOK'
    BY <1>0, <1>8, SMT, SMTT(20) DEF TypeOK, Phase, CallEvent, Idle, Callback, Verdict,
           OpeningVerdict, CsvVerdict, chainVars, loopVars, swapVars
  <2>2. Locks'
    BY <1>0, <1>8, SMT, SMTT(20) DEF Locks, Idle, TypeOK, Callback, loopVars, swapVars
  <2>3. Heights'
    BY <1>0, <1>8, WatcherAssumption DEF Heights, TypeOK, SwapIds, Callback,
           chainVars, loopVars, swapVars
  <2>4. Fresh'
    BY <1>0, <1>8, WatcherAssumption, SMT, SMTT(20) DEF Fresh, TypeOK, SwapIds, Idle, Phase,
           Callback, loopVars, swapVars
  <2>5. Observed'
    BY <1>0, <1>8 DEF Observed, TypeOK, Callback, swapVars
  <2>6. Facts'
    BY <1>0, <1>8, <2>1, WatcherAssumption, SMT, SMTT(20)
    DEF Facts, Says, hasConfirmations, Fresh,
           Heights, Idle, SwapIds, TypeOK, Callback, Verdict, OpeningVerdict,
           CsvVerdict, OutsideWindow, chainVars, loopVars, swapVars
  <2> QED BY <2>1, <2>2, <2>3, <2>4, <2>5, <2>6 DEF IInv
<1>9. ASSUME NEW s \in SwapIds, GetActiveSwap(s) PROVE IInv'
  <2>1. TypeOK'
    BY <1>0, <1>9, SMT, SMTT(20) DEF TypeOK, Phase, CallEvent, Idle, GetActiveSwap, chainVars,
           loopVars, swapVars
  <2>2. Locks'
    BY <1>0, <1>9, WatcherAssumption, SMT, SMTT(20)
    DEF Locks, Idle, TypeOK, GetActiveSwap, loopVars,
           swapVars
  <2>3. Heights'
    BY <1>0, <1>9 DEF Heights, TypeOK, SwapIds, GetActiveSwap, chainVars, loopVars,
           swapVars
  <2>4. Fresh'
    BY <1>0, <1>9, WatcherAssumption, SMT, SMTT(20) DEF Fresh, TypeOK, SwapIds, Idle, Phase,
           GetActiveSwap, loopVars, swapVars
  <2>5. Observed'
    BY <1>0, <1>9 DEF Observed, TypeOK, GetActiveSwap, swapVars
  <2>6. Facts'
    BY <1>0, <1>9, <2>1, WatcherAssumption, SMT, SMTT(20)
    DEF Facts, Says, hasConfirmations, Fresh,
           Heights, Idle, SwapIds, TypeOK, GetActiveSwap, chainVars, loopVars,
           swapVars
  <2> QED BY <2>1, <2>2, <2>3, <2>4, <2>5, <2>6 DEF IInv
<1>10. ASSUME NEW s \in SwapIds, SendEvent(s) PROVE IInv'
  <2>1. TypeOK'
    BY <1>0, <1>10, SMT, SMTT(20)
    DEF TypeOK, Phase, CallEvent, Idle, SendEvent, chainVars, loopVars
  <2>2. Locks'
    BY <1>0, <1>10, SMT, SMTT(20) DEF Locks, Idle, TypeOK, SendEvent, loopVars
  <2>3. Heights'
    BY <1>0, <1>10, SMT, SMTT(20) DEF Heights, TypeOK, SwapIds, SendEvent, chainVars, loopVars
  <2>4. Fresh'
    BY <1>0, <1>10, WatcherAssumption, SMT, SMTT(20) DEF Fresh, TypeOK, SwapIds, Idle, Phase,
           SendEvent, loopVars
  <2>5. Observed'
    BY <1>0, <1>10 DEF Observed, TypeOK, SendEvent
  <2>6. Facts'
    BY <1>0, <1>10, <2>1, WatcherAssumption, SMT, SMTT(20)
    DEF Facts, Says, hasConfirmations, Fresh,
           Heights, Idle, SwapIds, TypeOK, SendEvent, chainVars, loopVars
  <2> QED BY <2>1, <2>2, <2>3, <2>4, <2>5, <2>6 DEF IInv
<1>11. ASSUME NEW s \in SwapIds, Deregister(s) PROVE IInv'
  <2>1. TypeOK'
    BY <1>0, <1>11 DEF TypeOK, Phase, CallEvent, Idle, Deregister, chainVars,
           loopVars, swapVars
  <2>2. Locks'
    BY <1>0, <1>11 DEF Locks, Idle, TypeOK, Deregister, loopVars, swapVars
  <2>3. Heights'
    BY <1>0, <1>11, SMT, SMTT(20) DEF Heights, TypeOK, SwapIds, Deregister, chainVars, loopVars,
           swapVars
  <2>4. Fresh'
    BY <1>0, <1>11, WatcherAssumption DEF Fresh, TypeOK, SwapIds, Idle, Phase,
           Deregister, loopVars, swapVars
  <2>5. Observed'
    BY <1>0, <1>11 DEF Observed, TypeOK, Locks, Deregister, swapVars
  <2>6. Facts'
    BY <1>0, <1>11, <2>1, WatcherAssumption DEF Facts, Says, hasConfirmations, Fresh,
           Heights, Idle, SwapIds, TypeOK, Deregister, chainVars, loopVars, swapVars
  <2> QED BY <2>1, <2>2, <2>3, <2>4, <2>5, <2>6 DEF IInv
<1>12. ASSUME NEW s \in SwapIds, setLiquidPaymentWindowAnchor(s) PROVE IInv'
  <2>1. TypeOK'
    BY <1>0, <1>12 DEF TypeOK, Phase, CallEvent, Idle, setLiquidPaymentWindowAnchor,
           chainVars, loopVars, callVars
  <2>2. Locks'
    BY <1>0, <1>12 DEF Locks, Idle, TypeOK, setLiquidPaymentWindowAnchor, loopVars,
           callVars
  <2>3. Heights'
    BY <1>0, <1>12, SMT, SMTT(20)
    DEF Heights, TypeOK, SwapIds, Fresh, setLiquidPaymentWindowAnchor,
           chainVars, loopVars, callVars
  <2>4. Fresh'
    BY <1>0, <1>12, WatcherAssumption DEF Fresh, TypeOK, SwapIds, Idle, Phase,
           setLiquidPaymentWindowAnchor, loopVars, callVars
  <2>5. Observed'
    BY <1>0, <1>12 DEF Observed, TypeOK, setLiquidPaymentWindowAnchor
  <2>6. Facts'
    BY <1>0, <1>12, <2>1, WatcherAssumption DEF Facts, Says, hasConfirmations, Fresh,
           Heights, Idle, SwapIds, TypeOK, setLiquidPaymentWindowAnchor, chainVars,
           loopVars, callVars
  <2> QED BY <2>1, <2>2, <2>3, <2>4, <2>5, <2>6 DEF IInv
<1>13. ASSUME NEW s \in SwapIds, BeginWait(s) PROVE IInv'
  <2>1. TypeOK'
    BY <1>0, <1>13, SMT, SMTT(20)
    DEF TypeOK, Phase, CallEvent, Idle, BeginWait, chainVars, loopVars,
           callVars
  <2>2. Locks'
    BY <1>0, <1>13, SMT, SMTT(20)
    DEF Locks, Idle, TypeOK, BeginWait, MutexFree, loopVars, callVars
  <2>3. Heights'
    BY <1>0, <1>13 DEF Heights, TypeOK, SwapIds, BeginWait, Running, chainVars,
           loopVars, callVars
  <2>4. Fresh'
    BY <1>0, <1>13, WatcherAssumption, SMT, SMTT(20) DEF Fresh, TypeOK, SwapIds, Idle, Phase,
           BeginWait, OutsideWindow, Running, loopVars, callVars
  <2>5. Observed'
    BY <1>0, <1>13 DEF Observed, TypeOK, BeginWait
  <2>6. Facts'
    BY <1>0, <1>13, FactsKept DEF TypeOK, BeginWait, chainVars, loopVars, callVars
  <2> QED BY <2>1, <2>2, <2>3, <2>4, <2>5, <2>6 DEF IInv
<1>14. ASSUME NEW s \in SwapIds, Register(s) PROVE IInv'
  <2>1. TypeOK'
    BY <1>0, <1>14, SMT, SMTT(20)
    DEF TypeOK, Phase, CallEvent, Idle, Register, chainVars, loopVars,
           callVars
  <2>2. Locks'
    BY <1>0, <1>14, SMT, SMTT(20) DEF Locks, Idle, TypeOK, Register, loopVars, callVars
  <2>3. Heights'
    BY <1>0, <1>14 DEF Heights, TypeOK, SwapIds, Fresh, Register, chainVars, loopVars,
           callVars
  <2>4. Fresh'
    BY <1>0, <1>14, WatcherAssumption DEF Fresh, TypeOK, SwapIds, Idle, Phase,
           Register, loopVars, callVars
  <2>5. Observed'
    BY <1>0, <1>14, SMT, SMTT(20) DEF Observed, TypeOK, Register
  <2>6. Facts'
    BY <1>0, <1>14, FactsKept DEF TypeOK, Register, chainVars, loopVars, callVars
  <2> QED BY <2>1, <2>2, <2>3, <2>4, <2>5, <2>6 DEF IInv
<1>15. ASSUME NEW s \in SwapIds, ActionReturns(s) PROVE IInv'
  <2>1. TypeOK'
    BY <1>0, <1>15 DEF TypeOK, Phase, CallEvent, Idle, ActionReturns, chainVars,
           loopVars, callVars
  <2>2. Locks'
    BY <1>0, <1>15, SMT, SMTT(20) DEF Locks, Idle, TypeOK, ActionReturns, loopVars, callVars
  <2>3. Heights'
    BY <1>0, <1>15 DEF Heights, TypeOK, SwapIds, ActionReturns, chainVars, loopVars,
           callVars
  <2>4. Fresh'
    BY <1>0, <1>15, WatcherAssumption DEF Fresh, TypeOK, SwapIds, Idle, Phase,
           ActionReturns, loopVars, callVars
  <2>5. Observed'
    BY <1>0, <1>15 DEF Observed, TypeOK, ActionReturns
  <2>6. Facts'
    BY <1>0, <1>15, FactsKept DEF TypeOK, ActionReturns, chainVars, loopVars, callVars
  <2> QED BY <2>1, <2>2, <2>3, <2>4, <2>5, <2>6 DEF IInv
<1>16. ASSUME NEW s \in SwapIds, OtherEvent(s) PROVE IInv'
  <2>1. TypeOK'
    BY <1>0, <1>16 DEF TypeOK, Phase, CallEvent, Idle, OtherEvent, chainVars,
           loopVars, callVars
  <2>2. Locks'
    BY <1>0, <1>16, SMT, SMTT(20)
    DEF Locks, Idle, TypeOK, OtherEvent, MutexFree, loopVars, callVars
  <2>3. Heights'
    BY <1>0, <1>16 DEF Heights, TypeOK, SwapIds, OtherEvent, Running, chainVars,
           loopVars, callVars
  <2>4. Fresh'
    BY <1>0, <1>16, WatcherAssumption DEF Fresh, TypeOK, SwapIds, Idle, Phase,
           OtherEvent, loopVars, callVars
  <2>5. Observed'
    BY <1>0, <1>16 DEF Observed, TypeOK, OtherEvent
  <2>6. Facts'
    BY <1>0, <1>16, FactsKept DEF TypeOK, OtherEvent, chainVars, loopVars, callVars
  <2> QED BY <2>1, <2>2, <2>3, <2>4, <2>5, <2>6 DEF IInv
<1>17. ASSUME NEW s \in SwapIds, OtherEventEnds(s) PROVE IInv'
  <2>1. TypeOK'
    BY <1>0, <1>17, SMT, SMTT(20) DEF TypeOK, Phase, CallEvent, Idle, OtherEventEnds, chainVars,
           loopVars, callVars
  <2>2. Locks'
    BY <1>0, <1>17, SMT, SMTT(20) DEF Locks, Idle, TypeOK, OtherEventEnds, loopVars, callVars
  <2>3. Heights'
    BY <1>0, <1>17 DEF Heights, TypeOK, SwapIds, OtherEventEnds, chainVars, loopVars,
           callVars
  <2>4. Fresh'
    BY <1>0, <1>17, WatcherAssumption, SMT, SMTT(20) DEF Fresh, TypeOK, SwapIds, Idle, Phase,
           OtherEventEnds, loopVars, callVars
  <2>5. Observed'
    BY <1>0, <1>17, SMT, SMTT(20) DEF Observed, TypeOK, Locks, OtherEventEnds
  <2>6. Facts'
    BY <1>0, <1>17, FactsKept DEF Locks, TypeOK, OtherEventEnds, chainVars, loopVars,
           callVars
  <2> QED BY <2>1, <2>2, <2>3, <2>4, <2>5, <2>6 DEF IInv
<1>18. ASSUME NEW s \in SwapIds, Recover(s) PROVE IInv'
  <2>1. TypeOK'
    BY <1>0, <1>18, SMT, SMTT(20)
    DEF TypeOK, Phase, CallEvent, Idle, Recover, chainVars, loopVars,
           callVars
  <2>2. Locks'
    BY <1>0, <1>18, SMT, SMTT(20)
    DEF Locks, Idle, TypeOK, Recover, MutexFree, loopVars, callVars
  <2>3. Heights'
    BY <1>0, <1>18, SMT, SMTT(20) DEF Heights, TypeOK, SwapIds, Fresh, Recover, Running,
           OutsideWindow, chainVars, loopVars, callVars
  <2>4. Fresh'
    BY <1>0, <1>18, WatcherAssumption, SMT, SMTT(20) DEF Fresh, TypeOK, SwapIds, Idle, Phase,
           Recover, loopVars, callVars
  <2>5. Observed'
    BY <1>0, <1>18, SMT, SMTT(20) DEF Observed, TypeOK, Recover
  <2>6. Facts'
    BY <1>0, <1>18, FactsKept DEF TypeOK, Recover, chainVars, loopVars, callVars
  <2> QED BY <2>1, <2>2, <2>3, <2>4, <2>5, <2>6 DEF IInv
<1>19. ASSUME Crash PROVE IInv'
  <2>a. fsm' \in [SwapIds -> Phase]
    BY <1>0, <1>19 DEF Crash, TypeOK, Phase
  <2>b. recovering' \subseteq SwapIds
    BY <1>19 DEF Crash
  <2>c. /\ tip' \in Nat /\ txHeight' \in [SwapIds -> Nat] /\ start' \in [SwapIds -> Nat]
        /\ told' \in [SwapIds -> CallEvent \cup {"none"}]
        /\ crashes' \in Nat
    BY <1>0, <1>19, SMT, SMTT(20) DEF Crash, TypeOK, chainVars
  <2>d. /\ headers' = "silent" /\ loop' = "down" /\ blockHeight' = 0 /\ terminalErr' = FALSE
        /\ observers' = [s \in SwapIds |-> 0] /\ height' = 0
        /\ todo' = [s \in SwapIds |-> 0] /\ calling' = Idle
        /\ mutex' = [s \in SwapIds |-> "free"]
    BY <1>19 DEF Crash
  <2>1. TypeOK'
    BY <2>a, <2>b, <2>c, <2>d DEF TypeOK
  <2>2. Locks'
    BY <1>0, <1>19 DEF Locks, Idle, TypeOK, Crash
  <2>3. Heights'
    BY <1>0, <1>19, SMT, SMTT(20) DEF Heights, TypeOK, SwapIds, Crash, chainVars
  <2>4. Fresh'
    BY <1>0, <1>19, WatcherAssumption DEF Fresh, TypeOK, SwapIds, Idle, Phase, Crash
  <2>5. Observed'
    BY <1>0, <1>19 DEF Observed, TypeOK, Crash
  <2>6. Facts'
    BY <1>0, <1>19, <2>1, WatcherAssumption DEF Facts, Says, hasConfirmations, Fresh,
           Heights, Idle, SwapIds, TypeOK, Crash, chainVars
  <2> QED BY <2>1, <2>2, <2>3, <2>4, <2>5, <2>6 DEF IInv
<1>20. ASSUME UNCHANGED vars PROVE IInv'
  <2>1. TypeOK' /\ Locks' /\ Observed'
    BY <1>0, <1>20 DEF TypeOK, Locks, Observed, vars, chainVars, loopVars, callVars, swapVars
  <2>2. Heights' /\ Fresh'
    BY <1>0, <1>20 DEF Heights, Fresh, vars, chainVars, loopVars, callVars, swapVars
  <2>3. Facts'
    BY <1>0, <1>20, FactsKept DEF vars, chainVars, loopVars, callVars, swapVars
  <2> QED BY <2>1, <2>2, <2>3 DEF IInv
<1> QED BY <1>1, <1>2, <1>3, <1>4, <1>5, <1>6, <1>7, <1>8, <1>9, <1>10, <1>11, <1>12,
          <1>13, <1>14, <1>15, <1>16, <1>17, <1>18, <1>19, <1>20 DEF Next

\* IInv holds when the node starts for the first time.
LEMMA InitIInv == Init => IInv
<1> SUFFICES ASSUME Init PROVE IInv
  OBVIOUS
<1>1. TypeOK
  BY DEF Init, TypeOK, Phase
<1>2. Locks /\ Observed
  BY DEF Init, Locks, Observed, Idle
<1>3. Heights /\ Fresh
  BY WatcherAssumption, SMT, SMTT(20) DEF Init, Heights, Fresh, Idle, SwapIds
<1>4. Facts
  BY DEF Init, Facts, Says
<1> QED BY <1>1, <1>2, <1>3, <1>4 DEF IInv

\* The inductive invariant of the watcher.
THEOREM WatcherInvariant == Spec => []IInv
BY InitIInv, StepKeepsIInv, PTL DEF Spec

\* Types, for every instance.
THEOREM WatcherTypes == Spec => []TypeOK
<1>1. IInv => TypeOK
  BY DEF IInv
<1> QED BY <1>1, WatcherInvariant, PTL

\* No machine is left waiting without an observer (Register, Update, Recover).
THEOREM NoWaitIsLost == Spec => []WaitingIsObserved
<1>1. IInv => WaitingIsObserved
  BY DEF IInv, Observed, WaitingIsObserved
<1> QED BY <1>1, WatcherInvariant, PTL

\* What the watcher tells a machine is true of the chain: confirmations before
\* a payment, the CSV before a refund, the deadline before a cancellation
\* (observeOpeningTX.Callback, observeCSVTX.Callback).
THEOREM WatcherTellsTheTruth ==
  Spec => [](ConfirmedIsConfirmed /\ CsvIsMature /\ CancelIsDue)
<1>1. IInv => ConfirmedIsConfirmed /\ CsvIsMature /\ CancelIsDue
  BY DEF IInv, Facts, Says, ConfirmedIsConfirmed, CsvIsMature, CancelIsDue
<1> QED BY <1>1, WatcherInvariant, PTL

\* A taker's machine and Update never wait for each other's lock (Update;
\* AwaitTxConfirmationAction).
THEOREM TakerLocksAreOrdered == Spec => []TakerNeverInverted
<1>1. IInv => TakerNeverInverted
  BY DEF IInv, Fresh, TakerNeverInverted, Inverted
<1> QED BY <1>1, WatcherInvariant, PTL
=============================================================================
