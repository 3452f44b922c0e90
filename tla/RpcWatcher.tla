----------------------------- MODULE RpcWatcher -----------------------------
(***************************************************************************)
(* The watcher of a chain behind bitcoind's or elementsd's RPC              *)
(* (txwatcher/rpctxwatcher.go): the block watcher, the goroutine that takes *)
(* its blocks and handles the CSV list, an observation loop for every swap  *)
(* that waits for a confirmation, and the actions of swaps that add watches.*)
(* The subject is what the goroutines wait for: the watcher's mutex, the    *)
(* mutex of a swap's state machine, which SendEvent holds while an action   *)
(* adds a watch, and unbuffered channels.                                   *)
(*                                                                          *)
(* A maker's swap waits for its CSV, a taker's for a confirmation.  Every   *)
(* opening transaction is broadcast at height 1, the starting height; a     *)
(* maker's is in the next block, a taker's in any later one.                *)
(***************************************************************************)
EXTENDS Naturals

CONSTANTS
  RpcMakers, RpcTakers,  \* swaps by role
  Free,                  \* no owner of a mutex, no swap
  RequiredConfs,         \* requiredConfs
  SafetyLimit,           \* the taker's payment window
  CsvBlocks,             \* the maker's CSV
  Uint,                  \* the modulus of uint32 arithmetic
  MaxTip,                \* bound: height of the chain
  MaxRpcRestarts         \* bound: restarts

ASSUME RpcAssumption ==
  /\ RpcMakers \cap RpcTakers = {} /\ {Free, "main"} \cap (RpcMakers \cup RpcTakers) = {}
  /\ Free # "main"
  /\ {RequiredConfs, SafetyLimit, CsvBlocks} \subseteq Nat \ {0}
  /\ Uint \in Nat /\ Uint > MaxTip + SafetyLimit + RequiredConfs + 1
  /\ MaxTip \in Nat \ {0} /\ MaxRpcRestarts \in Nat

RpcSwaps == RpcMakers \cup RpcTakers
StartHeight == 1

VARIABLES
  tip,       \* height of the chain
  minedAt,   \* [RpcSwaps -> height of the block with the opening transaction, 0 if none]
  blocks,    \* StartBlockWatcher: [pc, last]
  main,      \* the goroutine of StartWatchingTxs: [pc, todo, cur, passed]
  wlock,     \* owner of the watcher's mutex: Free, "main" or the swap that adds a watch
  held,      \* swaps whose mutex the event that adds a watch holds
  adder,     \* [RpcSwaps -> the goroutine that adds a watch: [pc, height]]
  loop,      \* [RpcTakers -> observationLoop: [pc, last, sent, verdict]]
  observers, \* keys of observerLoopList
  csvList,   \* keys of csvtxWatchList
  waits,     \* [RpcSwaps -> "new", "waiting" or what its machine was told]
  restarts

rpcVars == <<tip, minedAt, blocks, main, wlock, held, adder, loop, observers, csvList,
             waits, restarts>>

IdleAdder == [pc |-> "idle", height |-> 0]
NoLoop == [pc |-> "none", last |-> 0, sent |-> {}, verdict |-> "none"]
NewLoop == [NoLoop EXCEPT !.pc = "select"]
IdleMain == [pc |-> "select", todo |-> {}, cur |-> Free, passed |-> {}]
FirstTick == [pc |-> "tick", last |-> 0]

RpcInit ==
  /\ tip = StartHeight
  /\ minedAt = [s \in RpcSwaps |-> 0]
  /\ blocks = FirstTick
  /\ main = IdleMain
  /\ wlock = Free
  /\ held = {}
  /\ adder = [s \in RpcSwaps |-> IdleAdder]
  /\ loop = [t \in RpcTakers |-> NoLoop]
  /\ observers = {}
  /\ csvList = {}
  /\ waits = [s \in RpcSwaps |-> "new"]
  /\ restarts = 0

\* Confirmations of the opening transaction, as gettxout reports them.
Depth(s) == IF minedAt[s] = 0 THEN 0 ELSE tip - minedAt[s] + 1

\* Subtraction of uint32 values.
Sub(a, b) == (a + Uint - b) % Uint

-----------------------------------------------------------------------------
\* The chain.

MineBlock ==
  /\ tip < MaxTip
  /\ tip' = tip + 1
  /\ \E S \in SUBSET RpcTakers :
       minedAt' = [s \in RpcSwaps |-> IF minedAt[s] = 0 /\ s \in S \cup RpcMakers
                                        THEN tip + 1 ELSE minedAt[s]]
  /\ UNCHANGED <<blocks, main, wlock, held, adder, loop, observers, csvList, waits, restarts>>

-----------------------------------------------------------------------------
\* The block watcher and the goroutine that takes its blocks.

\* A tick finds a new height, or none because getblockcount failed: that is height 0
\* with another hash, and is sent too.
BlockTick ==
  /\ blocks.pc = "tick"
  /\ \E h \in {0, tip} :
       /\ h # blocks.last
       /\ blocks' = [pc |-> "send", last |-> h]
  /\ UNCHANGED <<tip, minedAt, main, wlock, held, adder, loop, observers, csvList, waits,
                 restarts>>

\* Faulty: a loop that is not ready misses the block.
NewBlockIfReady ==
  /\ blocks.pc = "send" /\ main.pc = "select"
  /\ blocks' = [blocks EXCEPT !.pc = "tick"]
  /\ main' = [main EXCEPT !.pc = "lock"]
  /\ loop' = [t \in RpcTakers |-> IF t \in observers /\ loop[t].pc = "select"
                THEN [loop[t] EXCEPT !.sent = @ \cup ({blocks.last} \ {0})] ELSE loop[t]]
  /\ UNCHANGED <<tip, minedAt, wlock, held, adder, observers, csvList, waits, restarts>>

\* The height read at the tick is received, perhaps much later, and handed to every
\* observation loop by a goroutine of its own; a height of 0 the loops skip.
NewBlockChan ==
  /\ blocks.pc = "send" /\ main.pc = "select"
  /\ blocks' = [blocks EXCEPT !.pc = "tick"]
  /\ main' = [main EXCEPT !.pc = "lock"]
  /\ loop' = [t \in RpcTakers |-> IF t \in observers
                THEN [loop[t] EXCEPT !.sent = @ \cup ({blocks.last} \ {0})] ELSE loop[t]]
  /\ UNCHANGED <<tip, minedAt, wlock, held, adder, observers, csvList, waits, restarts>>

\* HandleCsvTx locks the watcher and goes through the list.
HandleCsvTx ==
  /\ main.pc = "lock" /\ wlock = Free
  /\ wlock' = "main"
  /\ main' = [main EXCEPT !.pc = "csv", !.todo = csvList]
  /\ UNCHANGED <<tip, minedAt, blocks, held, adder, loop, observers, csvList, waits, restarts>>

\* gettxout may fail, or find nothing.
CheckCsv(s) ==
  /\ main.pc = "csv" /\ s \in main.todo
  /\ \/ /\ main' = [main EXCEPT !.todo = @ \ {s}]
     \/ /\ Depth(s) >= CsvBlocks
        /\ main' = [main EXCEPT !.todo = @ \ {s}, !.pc = "callback", !.cur = s]
  /\ UNCHANGED <<tip, minedAt, blocks, wlock, held, adder, loop, observers, csvList, waits,
                 restarts>>

\* OnCsvPassed: SendEvent needs the swap's mutex.  A machine that does not wait rejects
\* the event, which is no error; a save that fails is one, before or after the step.
Told(s) == [waits EXCEPT ![s] = IF @ = "waiting" THEN "csv passed" ELSE @]

CsvPassedCallback ==
  /\ main.pc = "callback" /\ main.cur \notin held
  /\ \/ /\ waits' = Told(main.cur)
        /\ main' = [main EXCEPT !.pc = "csv", !.cur = Free, !.passed = @ \cup {main.cur}]
     \/ /\ waits' \in {waits, Told(main.cur)}
        /\ main' = [main EXCEPT !.pc = "csv", !.cur = Free]
  /\ UNCHANGED <<tip, minedAt, blocks, wlock, held, adder, loop, observers, csvList, restarts>>

\* Faulty: TxClaimed is called before the watcher is unlocked.
CsvHandledLocked ==
  /\ main.pc = "csv" /\ main.todo = {}
  /\ main' = [main EXCEPT !.pc = "claimed"]
  /\ UNCHANGED <<tip, minedAt, blocks, wlock, held, adder, loop, observers, csvList, waits,
                 restarts>>

CsvHandled ==
  /\ main.pc = "csv" /\ main.todo = {}
  /\ wlock' = Free
  /\ main' = [main EXCEPT !.pc = "claimed"]
  /\ UNCHANGED <<tip, minedAt, blocks, held, adder, loop, observers, csvList, waits, restarts>>

TxClaimed ==
  /\ main.pc = "claimed" /\ wlock = Free
  /\ csvList' = csvList \ main.passed
  /\ main' = IdleMain
  /\ UNCHANGED <<tip, minedAt, blocks, wlock, held, adder, loop, observers, waits, restarts>>

-----------------------------------------------------------------------------
\* A maker's swap: AwaitPaymentOrCsvAction, and AwaitCsvAction after a cancel or a
\* failed cooperative close, add it to the CSV list from within SendEvent.

AwaitCsv(m) ==
  /\ waits[m] \in {"new", "waiting"} /\ m \notin held /\ adder[m].pc = "idle"
  /\ waits' = [waits EXCEPT ![m] = "waiting"]
  /\ held' = held \cup {m}
  /\ adder' = [adder EXCEPT ![m].pc = "check"]
  /\ UNCHANGED <<tip, minedAt, blocks, main, wlock, loop, observers, csvList, restarts>>

checkTxAboveCsvHight(m) ==
  /\ m \in RpcMakers /\ adder[m].pc = "check"
  /\ \/ adder' = [adder EXCEPT ![m].pc = "lock"]
     \/ /\ Depth(m) >= CsvBlocks
        /\ adder' = [adder EXCEPT ![m].pc = "callback"]
  /\ UNCHANGED <<tip, minedAt, blocks, main, wlock, held, loop, observers, csvList, waits,
                 restarts>>

\* The callback on the spot needs the mutex that the event holds already; only
\* Recover runs the action without it.
AlreadyPassed(m) ==
  /\ adder[m].pc = "callback" /\ m \notin held
  /\ \/ waits' = Told(m) /\ adder' = [adder EXCEPT ![m] = IdleAdder]
     \/ waits' \in {waits, Told(m)} /\ adder' = [adder EXCEPT ![m].pc = "lock"]
  /\ UNCHANGED <<tip, minedAt, blocks, main, wlock, held, loop, observers, csvList, restarts>>

AddWaitForCsvTx(m) ==
  /\ m \in RpcMakers /\ adder[m].pc = "lock" /\ wlock = Free
  /\ csvList' = csvList \cup {m}
  /\ held' = held \ {m}
  /\ adder' = [adder EXCEPT ![m] = IdleAdder]
  /\ UNCHANGED <<tip, minedAt, blocks, main, wlock, loop, observers, waits, restarts>>

\* The invoice is paid or the swap closed cooperatively; the list keeps the swap.
OtherOutcome(m) ==
  /\ waits[m] = "waiting" /\ m \notin held /\ adder[m].pc = "idle"
  /\ waits' = [waits EXCEPT ![m] = "paid"]
  /\ UNCHANGED <<tip, minedAt, blocks, main, wlock, held, adder, loop, observers, csvList,
                 restarts>>

-----------------------------------------------------------------------------
\* A taker's swap.

\* AwaitTxConfirmationAction; AddWaitForConfirmationTx starts the loop, then locks.
AwaitConfirmation(t) ==
  /\ waits[t] = "new"
  /\ waits' = [waits EXCEPT ![t] = "waiting"]
  /\ held' = held \cup {t}
  /\ loop' = [loop EXCEPT ![t] = NewLoop]
  /\ adder' = [adder EXCEPT ![t].pc = "lock"]
  /\ UNCHANGED <<tip, minedAt, blocks, main, wlock, observers, csvList, restarts>>

AddObserver(t) ==
  /\ t \in RpcTakers /\ adder[t].pc = "lock" /\ wlock = Free
  /\ wlock' = t
  /\ observers' = observers \cup {t}
  /\ adder' = [adder EXCEPT ![t].pc = "listed"]
  /\ UNCHANGED <<tip, minedAt, blocks, main, held, loop, csvList, waits, restarts>>

\* The error of GetBlockHeight is dropped, and the height is 0.
FirstHeight(t) ==
  /\ t \in RpcTakers /\ adder[t].pc = "listed"
  /\ \E h \in {0, tip} : adder' = [adder EXCEPT ![t] = [pc |-> "kick", height |-> h]]
  /\ UNCHANGED <<tip, minedAt, blocks, main, wlock, held, loop, observers, csvList, waits,
                 restarts>>

\* The loop takes a height: one it has had is skipped, one past the window cancels.
Receive(l, h) ==
  LET r == [l EXCEPT !.sent = @ \ {h}] IN
  IF h <= l.last THEN r
  ELSE IF h >= StartHeight + SafetyLimit
  THEN [r EXCEPT !.last = h, !.pc = "calling", !.verdict = "canceled"]
  ELSE [r EXCEPT !.last = h, !.pc = "lookup"]

\* The first run is sent with the watcher's mutex held.
FirstRun(t) ==
  /\ adder[t].pc = "kick" /\ loop[t].pc = "select"
  /\ loop' = [loop EXCEPT ![t] = [Receive(@, adder[t].height) EXCEPT !.sent = loop[t].sent]]
  /\ wlock' = Free
  /\ held' = held \ {t}
  /\ adder' = [adder EXCEPT ![t] = IdleAdder]
  /\ UNCHANGED <<tip, minedAt, blocks, main, observers, csvList, waits, restarts>>

ReceiveBlock(t, h) ==
  /\ loop[t].pc = "select" /\ h \in loop[t].sent
  /\ loop' = [loop EXCEPT ![t] = Receive(@, h)]
  /\ UNCHANGED <<tip, minedAt, blocks, main, wlock, held, adder, observers, csvList, waits,
                 restarts>>

\* Faulty: one confirmation too few is enough.
DeepAlmost(t) == Sub(loop[t].last, minedAt[t] - 1) + 1 >= RequiredConfs

\* The confirmations counted from the height the loop was given, which may be older
\* than the block it finds the transaction in.
DeepEnough(t) == Sub(loop[t].last, minedAt[t] - 1) >= RequiredConfs

\* IsTxInMempoolOrRange looks at the chain as it is now.  Not found, unconfirmed and out
\* of sync wait for the next block; any other error cancels.
LookUp(t) ==
  /\ loop[t].pc = "lookup"
  /\ LET call(v) == loop' = [loop EXCEPT ![t].pc = "calling", ![t].verdict = v]
         late == minedAt[t] > StartHeight + SafetyLimit
     IN \/ loop' = [loop EXCEPT ![t].pc = "select"]
        \/ call("canceled")
        \/ minedAt[t] # 0 /\ ~late /\ DeepEnough(t) /\ call("confirmed")
  /\ UNCHANGED <<tip, minedAt, blocks, main, wlock, held, adder, observers, csvList, waits,
                 restarts>>

\* callbackAndLog: SendEvent needs the swap's mutex.
TxCallback(t) ==
  /\ loop[t].pc = "calling" /\ t \notin held
  /\ waits' = [waits EXCEPT ![t] = IF @ = "waiting" THEN loop[t].verdict ELSE @]
  /\ loop' = [loop EXCEPT ![t].pc = "exit"]
  /\ UNCHANGED <<tip, minedAt, blocks, main, wlock, held, adder, observers, csvList, restarts>>

\* The deferred function deletes the loop from the list.
LoopEnds(t) ==
  /\ loop[t].pc = "exit" /\ wlock = Free
  /\ observers' = observers \ {t}
  /\ loop' = [loop EXCEPT ![t] = [NoLoop EXCEPT !.pc = "gone"]]
  /\ UNCHANGED <<tip, minedAt, blocks, main, wlock, held, adder, csvList, waits, restarts>>

-----------------------------------------------------------------------------
\* The process ends: the operator stops it, or the runtime does, which finds the list
\* of loops read without the mutex while it is written.  RecoverSwaps then runs the
\* actions of the waiting swaps, which do not hold the swap's mutex.
RpcRestart ==
  /\ restarts < MaxRpcRestarts
  /\ restarts' = restarts + 1
  /\ blocks' = FirstTick
  /\ main' = IdleMain
  /\ wlock' = Free
  /\ held' = {}
  /\ adder' = [s \in RpcSwaps |->
                 IF waits[s] # "waiting" THEN IdleAdder
                 ELSE [IdleAdder EXCEPT !.pc = IF s \in RpcMakers THEN "check" ELSE "lock"]]
  /\ loop' = [t \in RpcTakers |-> IF waits[t] = "waiting" THEN NewLoop ELSE NoLoop]
  /\ observers' = {}
  /\ csvList' = {}
  /\ UNCHANGED <<tip, minedAt, waits>>

RpcNext ==
  \/ MineBlock \/ BlockTick \/ NewBlockChan
  \/ HandleCsvTx \/ CsvPassedCallback \/ CsvHandled \/ TxClaimed
  \/ \E m \in RpcMakers :
       \/ CheckCsv(m) \/ AwaitCsv(m) \/ checkTxAboveCsvHight(m) \/ AlreadyPassed(m)
       \/ AddWaitForCsvTx(m) \/ OtherOutcome(m)
  \/ \E t \in RpcTakers :
       \/ AwaitConfirmation(t) \/ AddObserver(t) \/ FirstHeight(t) \/ FirstRun(t)
       \/ \E h \in loop[t].sent : ReceiveBlock(t, h)
       \/ LookUp(t) \/ TxCallback(t) \/ LoopEnds(t)
  \/ RpcRestart

MainLoop == \/ HandleCsvTx \/ CsvPassedCallback \/ CsvHandled \/ TxClaimed
            \/ \E m \in RpcMakers : CheckCsv(m)

\* Goroutines that can run do.
RpcFairness ==
  /\ WF_rpcVars(MainLoop)
  /\ \A m \in RpcMakers : WF_rpcVars(checkTxAboveCsvHight(m) \/ AddWaitForCsvTx(m))
  /\ \A t \in RpcTakers : /\ WF_rpcVars(FirstHeight(t) \/ FirstRun(t))
                          /\ WF_rpcVars(LookUp(t) \/ TxCallback(t))

RpcSpec == RpcInit /\ [][RpcNext]_rpcVars /\ RpcFairness

-----------------------------------------------------------------------------
\* Properties.

\* HandleCsvTx waits, with the watcher's mutex, for a swap whose event waits for it, or
\* whose event waits for itself in AddWaitForCsvTx.
CsvInverted ==
  main.pc = "callback" /\ main.cur \in held /\ adder[main.cur].pc \in {"lock", "callback"}

\* A block reached the loop before the first run that AddWaitForConfirmationTx sends:
\* the loop has called back, or waits to, and nobody takes the first run.
OvertakenByBlock(t) == adder[t].pc = "kick" /\ loop[t].pc \in {"calling", "exit"}

\* The watcher's mutex is given back, so that every swap of the chain can add its
\* watches, unless the CSV callback and an event, or a loop and the one who starts it,
\* wait for each other.
WatcherLockReturns ==
  wlock # Free ~> wlock = Free \/ CsvInverted \/ \E t \in RpcTakers : OvertakenByBlock(t)

\* Between its blocks the loop of a waiting taker has seen every height the block
\* watcher has announced: the first run and the list leave no gap, unless the height of
\* the first run could not be had and no block has come since.
NoBlockMissed ==
  \A t \in RpcTakers :
    waits[t] = "waiting" /\ adder[t].pc = "idle" /\ loop[t].pc = "select" /\ loop[t].sent = {}
      /\ main.pc = "select" /\ blocks.pc = "tick" /\ loop[t].last # 0
    => blocks.last <= loop[t].last

\* A maker that waits for its CSV is in the list: what HandleCsvTx removes late, after
\* the callbacks, are only swaps that were told.
MakerIsListed ==
  \A m \in RpcMakers : waits[m] = "waiting" /\ adder[m].pc = "idle" => m \in csvList

\* A taker is told of a confirmation only when its transaction has the required
\* number, unless the loop was given a height two or more blocks below the one that
\* holds the transaction, so that the subtraction wraps around.
ConfirmedUnlessWrapped ==
  [][\A t \in RpcTakers :
       waits[t] = "waiting" /\ waits'[t] = "confirmed"
         => Depth(t) >= RequiredConfs \/ loop[t].last + 1 < minedAt[t]]_rpcVars
=============================================================================
