-------------------------- MODULE ElectrumWatcher --------------------------
(***************************************************************************)
(* The Electrum transaction watcher of a node (lwk/electrumtxwatcher.go     *)
(* over electrum/) and the swaps that wait on it.  Three kinds of goroutine *)
(* meet here: the loop that takes block headers and, with the subscriber's  *)
(* lock h.mu held, calls the observers back; the state machines, whose      *)
(* actions add observers with the machine's mutex held; and, after a        *)
(* restart, Recover, which adds them with no mutex at all.                  *)
(*                                                                          *)
(* h.mu is held exactly while loop = "update".  A swap has one kind of      *)
(* observer, an opening observer for a taker and a CSV observer for a       *)
(* maker; observers counts the entries of txObservers, whose order no       *)
(* property depends on.                                                     *)
(***************************************************************************)
EXTENDS Integers

CONSTANTS
  Takers,         \* swaps of this node that wait for a confirmation
  Makers,         \* swaps of this node that wait for their CSV
  NoSwap,         \* no swap is being called back
  Confs,          \* onchain.LiquidConfs
  PaymentWindow,  \* blocks after the anchor in which a taker may pay
  Csv,            \* relative locktime of the refund path
  Faults,         \* what may go wrong, a subset of WatcherFault
  MaxHeight,      \* bound: blocks
  MaxObservers,   \* bound: observers one swap adds in one process
  MaxCrashes      \* bound: restarts

\* rpcFails: GetHistory or GetRawTransaction errors.  rebootFails: Reboot or
\* SubscribeHeaders errors.  badHeader: a header with no valid height.
\* closed: the header channel is closed.  storeFails: UpdateData errors.
WatcherFault == {"rpcFails", "rebootFails", "badHeader", "closed", "storeFails"}

SwapIds == Takers \cup Makers

ASSUME WatcherAssumption ==
  /\ Takers \cap Makers = {}
  /\ NoSwap \notin SwapIds
  /\ {Confs, PaymentWindow, Csv, MaxHeight, MaxObservers} \subseteq Nat \ {0}
  /\ MaxCrashes \in Nat
  /\ Faults \subseteq WatcherFault

VARIABLES
  tip,          \* height of the chain
  txHeight,     \* [SwapIds -> height of the opening transaction], 0 unconfirmed
  headers,      \* headerSubscription: "live", or "silent" until resubscribed
  loop,         \* "down", "select", "update" (holds h.mu) or "stopped"
  blockHeight,  \* r.blockHeight, 0 before the first header
  terminalErr,  \* r.terminalErr # nil
  observers,    \* [SwapIds -> number of entries in txObservers]
  height,       \* the height Update was called with
  todo,         \* [SwapIds -> entries its range loop has still to visit]
  calling,      \* the callback it makes: [swap, event, pc]
  fsm,          \* [SwapIds -> Phase]: where the swap's state machine is
  mutex,        \* [SwapIds -> s.mutex]: "free", "action" while the waiting state's
                \* action runs, "event" while another event is handled
  recovering,   \* swaps whose Recover has still to add its observer
  start,        \* [SwapIds -> StartingBlockHeight], 0 before it is set
  told,         \* [SwapIds -> the watcher's event that the machine accepted]
  crashes

chainVars == <<tip, txHeight>>
loopVars == <<headers, loop, blockHeight, terminalErr>>
callVars == <<height, todo, calling>>
swapVars == <<fsm, mutex, recovering, start, told>>
vars == <<chainVars, loopVars, observers, callVars, swapVars, crashes>>

\* "new": before the waiting state.  "add": its action is in AddWaitFor...Tx.
\* "wait": the event is awaited.  "later": resting in a state that awaits
\* something else.  "end": removed from activeSwaps.
Phase == {"new", "add", "wait", "later", "end"}
CallEvent == {"confirmed", "late", "csv"}
Idle == [swap |-> NoSwap, event |-> "none", pc |-> "idle"]

TypeOK ==
  /\ tip \in Nat
  /\ txHeight \in [SwapIds -> Nat]
  /\ headers \in {"live", "silent"}
  /\ loop \in {"down", "select", "update", "stopped"}
  /\ blockHeight \in Nat
  /\ terminalErr \in BOOLEAN
  /\ observers \in [SwapIds -> Nat]
  /\ height \in Nat
  /\ todo \in [SwapIds -> Nat]
  /\ calling \in {Idle} \cup
       [swap : SwapIds, event : CallEvent, pc : {"call", "locked", "remove", "keep"}]
  /\ fsm \in [SwapIds -> Phase]
  /\ mutex \in [SwapIds -> {"free", "action", "event"}]
  /\ recovering \subseteq SwapIds
  /\ start \in [SwapIds -> Nat]
  /\ told \in [SwapIds -> CallEvent \cup {"none"}]
  /\ crashes \in Nat

Init ==
  /\ tip = 1
  /\ txHeight = [s \in SwapIds |-> 0]
  /\ headers = "silent"
  /\ loop = "down"
  /\ blockHeight = 0
  /\ terminalErr = FALSE
  /\ observers = [s \in SwapIds |-> 0]
  /\ height = 0
  /\ todo = [s \in SwapIds |-> 0]
  /\ calling = Idle
  /\ fsm = [s \in SwapIds |-> "new"]
  /\ mutex = [s \in SwapIds |-> "free"]
  /\ recovering = {}
  /\ start = [s \in SwapIds |-> 0]
  /\ told = [s \in SwapIds |-> "none"]
  /\ crashes = 0

-----------------------------------------------------------------------------
\* The chain.

\* The next block, with some of the opening transactions that have none yet.
MineBlock ==
  /\ tip < MaxHeight
  /\ tip' = tip + 1
  /\ \E T \in SUBSET {s \in SwapIds : txHeight[s] = 0} :
       txHeight' = [s \in SwapIds |-> IF s \in T THEN tip + 1 ELSE txHeight[s]]
  /\ UNCHANGED <<loopVars, observers, callVars, swapVars, crashes>>

-----------------------------------------------------------------------------
\* The header loop.

\* The first header.  A server may be behind the chain: any height up to the
\* tip.  An invalid first header ends the process, which starts again.
StartWatchingTxs(h) ==
  /\ loop = "down"
  /\ loop' = "select"
  /\ headers' = "live"
  /\ blockHeight' = h
  /\ UNCHANGED <<chainVars, terminalErr, observers, callVars, swapVars, crashes>>

\* Faulty: a header is taken whatever its height.
acceptAnyHeight(h) ==
  /\ loop = "select"
  /\ headers = "live"
  /\ blockHeight' = h
  /\ height' = h
  /\ todo' = observers
  /\ loop' = "update"
  /\ UNCHANGED <<chainVars, headers, terminalErr, observers, calling, swapVars, crashes>>

\* A header is taken; one that is not higher than the last is dropped.  Update
\* takes h.mu and visits the observers registered at that moment.
acceptBlockHeight(h) ==
  /\ loop = "select"
  /\ headers = "live"
  /\ h > blockHeight
  /\ blockHeight' = h
  /\ height' = h
  /\ todo' = observers
  /\ loop' = "update"
  /\ UNCHANGED <<chainVars, headers, terminalErr, observers, calling, swapVars, crashes>>

\* parseBlockHeight refuses a header: the watcher stops and says so.
fail ==
  /\ "badHeader" \in Faults
  /\ loop = "select"
  /\ headers = "live"
  /\ loop' = "stopped"
  /\ terminalErr' = TRUE
  /\ UNCHANGED <<chainVars, headers, blockHeight, observers, callVars, swapVars, crashes>>

\* The header channel is closed: the loop returns and no error is kept.
SubscriptionClosed ==
  /\ "closed" \in Faults
  /\ loop = "select"
  /\ headers = "live"
  /\ loop' = "stopped"
  /\ UNCHANGED <<chainVars, headers, blockHeight, terminalErr, observers, callVars,
                 swapVars, crashes>>

\* Faulty: the ticker does not renew a subscription that failed.
ResubscribeOnce ==
  /\ loop = "select"
  /\ headers = "live"
  /\ headers' \in {"live"} \cup (IF "rebootFails" \in Faults THEN {"silent"} ELSE {})
  /\ UNCHANGED <<chainVars, loop, blockHeight, terminalErr, observers, callVars,
                 swapVars, crashes>>

\* The resubscribe ticker.  The client is shut down first, so that a failure
\* leaves the loop without headers until the next tick.
Resubscribe ==
  /\ loop = "select"
  /\ headers' \in {"live"} \cup (IF "rebootFails" \in Faults THEN {"silent"} ELSE {})
  /\ UNCHANGED <<chainVars, loop, blockHeight, terminalErr, observers, callVars,
                 swapVars, crashes>>

-----------------------------------------------------------------------------
\* Update: one observer after the other, with h.mu held.

\* A height above the tip the watcher knows is an error: no callback either.
hasConfirmations(tx, tipHeight, required) ==
  /\ tx > 0
  /\ tx <= tipHeight
  /\ tipHeight - tx + 1 >= required

OutsideWindow(s, h) == h < start[s] \/ h >= start[s] + PaymentWindow

\* Faulty: one confirmation too few.
OpeningVerdictEarly(s, h) ==
  IF OutsideWindow(s, h) THEN "late"
  ELSE IF hasConfirmations(txHeight[s], h, Confs - 1) THEN "confirmed" ELSE "none"

\* What an observer finds at a height, before the calls that may fail.
OpeningVerdict(s, h) ==
  IF OutsideWindow(s, h) THEN "late"
  ELSE IF hasConfirmations(txHeight[s], h, Confs) THEN "confirmed" ELSE "none"

\* Faulty: the block after the tip is counted.
CsvVerdictEarly(s, h) == IF hasConfirmations(txHeight[s], h + 1, Csv) THEN "csv" ELSE "none"

CsvVerdict(s, h) == IF hasConfirmations(txHeight[s], h, Csv) THEN "csv" ELSE "none"

Verdict(s, h) == IF s \in Takers THEN OpeningVerdict(s, h) ELSE CsvVerdict(s, h)

\* The deadline is checked before the server is asked.  Failing calls are
\* bounded to heights before the last one.
CallFails(s, h) ==
  /\ "rpcFails" \in Faults
  /\ h < MaxHeight
  /\ ~(s \in Takers /\ OutsideWindow(s, h))

Callback(s) ==
  /\ loop = "update"
  /\ calling = Idle
  /\ todo[s] > 0
  /\ todo' = [todo EXCEPT ![s] = @ - 1]
  /\ \/ /\ Verdict(s, height) # "none"
        /\ calling' = [swap |-> s, event |-> Verdict(s, height), pc |-> "call"]
     \/ /\ Verdict(s, height) = "none" \/ CallFails(s, height)
        /\ calling' = Idle
  /\ UNCHANGED <<chainVars, loopVars, observers, height, swapVars, crashes>>

\* OnTxConfirmed and OnCsvPassed.  For a swap that is not active the first
\* returns ErrSwapDoesNotExist and the second nil: the observer goes in both.
GetActiveSwap(s) ==
  /\ calling.swap = s
  /\ calling.pc = "call"
  /\ \/ /\ fsm[s] = "end"
        /\ calling' = [calling EXCEPT !.pc = "remove"]
     \/ /\ fsm[s] # "end"
        /\ mutex[s] = "free"
        /\ calling' = [calling EXCEPT !.pc = "locked"]
  /\ UNCHANGED <<chainVars, loopVars, observers, height, todo, swapVars, crashes>>

\* SendEvent with the machine's mutex.  A waiting machine takes the event; any
\* other rejects it, which the service turns into nil.  A failed save returns
\* an error, before the transition or after it, and the observer stays.
SendEvent(s) ==
  /\ calling.swap = s
  /\ calling.pc = "locked"
  /\ \/ /\ fsm[s] = "wait"
        /\ \E p \in {"later", "end"} : fsm' = [fsm EXCEPT ![s] = p]
        /\ told' = [told EXCEPT ![s] = calling.event]
        /\ calling' = [calling EXCEPT !.pc = "remove"]
     \/ /\ fsm[s] # "wait"
        /\ calling' = [calling EXCEPT !.pc = "remove"]
        /\ UNCHANGED <<fsm, told>>
     \/ /\ "storeFails" \in Faults
        /\ height < MaxHeight
        /\ calling' = [calling EXCEPT !.pc = "keep"]
        /\ \/ UNCHANGED <<fsm, told>>
           \/ /\ fsm[s] = "wait"
              /\ fsm' = [fsm EXCEPT ![s] = "later"]
              /\ told' = [told EXCEPT ![s] = calling.event]
  /\ UNCHANGED <<chainVars, loopVars, observers, height, todo, mutex, recovering, start,
                 crashes>>

\* Faulty: the observer goes although the callback returned an error.
DeregisterAlways(s) ==
  /\ calling.swap = s
  /\ calling.pc \in {"remove", "keep"}
  /\ observers' = [observers EXCEPT ![s] = 0]
  /\ calling' = Idle
  /\ UNCHANGED <<chainVars, loopVars, height, todo, swapVars, crashes>>

\* Every entry of the swap is removed; the range loop still visits the old ones.
Deregister(s) ==
  /\ calling.swap = s
  /\ calling.pc \in {"remove", "keep"}
  /\ observers' = IF calling.pc = "remove" THEN [observers EXCEPT ![s] = 0] ELSE observers
  /\ calling' = Idle
  /\ UNCHANGED <<chainVars, loopVars, height, todo, swapVars, crashes>>

UpdateReturns ==
  /\ loop = "update"
  /\ calling = Idle
  /\ \A s \in SwapIds : todo[s] = 0
  /\ loop' = "select"
  /\ UNCHANGED <<chainVars, headers, blockHeight, terminalErr, observers, callVars,
                 swapVars, crashes>>

-----------------------------------------------------------------------------
\* The state machines, as far as they use the watcher.

Running == loop # "down"
HeightKnown == Running /\ ~terminalErr
MutexFree(s) == mutex[s] = "free" /\ ~(calling.swap = s /\ calling.pc = "locked")

\* Before the opening transaction can exist, GetBlockHeight sets the taker's
\* anchor, once.
setLiquidPaymentWindowAnchor(s) ==
  /\ s \in Takers
  /\ HeightKnown
  /\ fsm[s] = "new"
  /\ start[s] = 0
  /\ start' = [start EXCEPT ![s] = blockHeight]
  /\ UNCHANGED <<chainVars, loopVars, observers, callVars, fsm, mutex, recovering, told,
                 crashes>>

\* The waiting state's action is run by SendEvent.  A taker's is
\* AwaitTxConfirmation, which fails without a height or outside the window.
BeginWait(s) ==
  /\ Running
  /\ fsm[s] = "new"
  /\ s \in Takers => start[s] > 0
  /\ MutexFree(s)
  /\ IF s \in Takers /\ (~HeightKnown \/ OutsideWindow(s, blockHeight))
     THEN /\ fsm' = [fsm EXCEPT ![s] = "later"]
          /\ mutex' = mutex
     ELSE /\ fsm' = [fsm EXCEPT ![s] = "add"]
          /\ mutex' = [mutex EXCEPT ![s] = "action"]
  /\ UNCHANGED <<chainVars, loopVars, observers, callVars, recovering, start, told, crashes>>

\* AddWaitForConfirmationTx or AddWaitForCsvTx: Register needs h.mu.
Register(s) ==
  /\ fsm[s] = "add"
  /\ loop # "update"
  /\ observers' = [observers EXCEPT ![s] = @ + 1]
  /\ fsm' = [fsm EXCEPT ![s] = "wait"]
  /\ UNCHANGED <<chainVars, loopVars, callVars, mutex, recovering, start, told, crashes>>

\* The action returns NoOp and SendEvent saves and unlocks.
ActionReturns(s) ==
  /\ mutex[s] = "action"
  /\ fsm[s] = "wait"
  /\ mutex' = [mutex EXCEPT ![s] = "free"]
  /\ UNCHANGED <<chainVars, loopVars, observers, callVars, fsm, recovering, start, told,
                 crashes>>

\* A message, a payment or the timer for a waiting swap.
OtherEvent(s) ==
  /\ Running
  /\ fsm[s] = "wait"
  /\ MutexFree(s)
  /\ mutex' = [mutex EXCEPT ![s] = "event"]
  /\ UNCHANGED <<chainVars, loopVars, observers, callVars, fsm, recovering, start, told,
                 crashes>>

\* Faulty: a taker's machine can enter its waiting state again, too.
OtherEventRestartsWait(s) ==
  /\ mutex[s] = "event"
  /\ observers[s] < MaxObservers
  /\ fsm' = [fsm EXCEPT ![s] = "add"]
  /\ mutex' = [mutex EXCEPT ![s] = "action"]
  /\ UNCHANGED <<chainVars, loopVars, observers, callVars, recovering, start, told, crashes>>

\* It is rejected, moves the machine on, ends the swap, or takes a maker to
\* WaitCsv, whose action adds an observer again with the mutex still held.
OtherEventEnds(s) ==
  /\ mutex[s] = "event"
  /\ \/ /\ \E p \in {"wait", "later", "end"} : fsm' = [fsm EXCEPT ![s] = p]
        /\ mutex' = [mutex EXCEPT ![s] = "free"]
     \/ /\ s \in Makers
        /\ observers[s] < MaxObservers
        /\ fsm' = [fsm EXCEPT ![s] = "add"]
        /\ mutex' = [mutex EXCEPT ![s] = "action"]
  /\ UNCHANGED <<chainVars, loopVars, observers, callVars, recovering, start, told, crashes>>

-----------------------------------------------------------------------------
\* Restart.

\* Only the records survive.  A waiting state is in the record; the step into
\* one for the first time is not.
Crash ==
  /\ crashes < MaxCrashes
  /\ Running
  /\ crashes' = crashes + 1
  /\ loop' = "down"
  /\ headers' = "silent"
  /\ blockHeight' = 0
  /\ terminalErr' = FALSE
  /\ observers' = [s \in SwapIds |-> 0]
  /\ height' = 0
  /\ todo' = [s \in SwapIds |-> 0]
  /\ calling' = Idle
  /\ mutex' = [s \in SwapIds |-> "free"]
  /\ fsm' = [s \in SwapIds |->
               IF fsm[s] # "add" THEN fsm[s]
               ELSE IF observers[s] > 0 \/ s \in recovering THEN "wait" ELSE "new"]
  /\ recovering' = {s \in SwapIds : fsm'[s] = "wait"}
  /\ UNCHANGED <<chainVars, start, told>>

\* Recover runs the waiting state's action without the mutex, next to the
\* handlers.  Its failure is an ActionFailed event, which takes the mutex.
Recover(s) ==
  /\ Running
  /\ s \in recovering
  /\ recovering' = recovering \ {s}
  /\ IF s \in Takers /\ (~HeightKnown \/ OutsideWindow(s, blockHeight))
     THEN /\ MutexFree(s)
          /\ fsm' = [fsm EXCEPT ![s] = IF @ = "wait" THEN "later" ELSE @]
          /\ UNCHANGED observers
     ELSE /\ loop # "update"
          /\ observers' = [observers EXCEPT ![s] = @ + 1]
          /\ UNCHANGED fsm
  /\ UNCHANGED <<chainVars, loopVars, callVars, mutex, start, told, crashes>>

Next ==
  \/ MineBlock
  \/ \E h \in 1..tip : StartWatchingTxs(h) \/ acceptBlockHeight(h)
  \/ fail
  \/ SubscriptionClosed
  \/ Resubscribe
  \/ UpdateReturns
  \/ \E s \in SwapIds :
       \/ Callback(s) \/ GetActiveSwap(s) \/ SendEvent(s) \/ Deregister(s)
       \/ setLiquidPaymentWindowAnchor(s) \/ BeginWait(s) \/ Register(s)
       \/ ActionReturns(s) \/ OtherEvent(s) \/ OtherEventEnds(s) \/ Recover(s)
  \/ Crash

Spec == Init /\ [][Next]_vars

\* The loop, the callbacks and the machines' own steps are goroutines that the
\* runtime schedules; blocks keep coming.  The ticker fires for ever, so that a
\* server that answers infinitely often is resubscribed to, and a Go mutex is
\* handed to a waiter that keeps asking: strong fairness for these.
FairSpec ==
  /\ Spec
  /\ WF_vars(MineBlock)
  /\ WF_vars(\E h \in 1..tip : StartWatchingTxs(h))
  /\ WF_vars(UpdateReturns)
  /\ SF_vars(Resubscribe /\ headers' = "live")
  /\ SF_vars(acceptBlockHeight(tip))
  /\ \A s \in SwapIds :
       /\ WF_vars(Callback(s))
       /\ SF_vars(GetActiveSwap(s))
       /\ WF_vars(SendEvent(s))
       /\ WF_vars(Deregister(s))
       /\ SF_vars(Register(s))
       /\ WF_vars(ActionReturns(s))
       /\ WF_vars(OtherEventEnds(s))

-----------------------------------------------------------------------------
\* A swap that waits has an observer, or its Recover has still to add it: no
\* order of Update, Deregister (which drops every entry of a swap), second
\* registrations, failing saves and restarts leaves a machine waiting for an
\* event that nothing will send (block_subscriber.go, Register, Update).
WaitingIsObserved ==
  Running => \A s \in SwapIds : fsm[s] = "wait" => observers[s] > 0 \/ s \in recovering

\* A taker goes on to pay only for a transaction that really has the required
\* confirmations and was in a block before the deadline, although the header,
\* the history and the event are read at different times
\* (observeOpeningTX.Callback).
ConfirmedIsConfirmed ==
  \A s \in SwapIds : told[s] = "confirmed" =>
    /\ hasConfirmations(txHeight[s], tip, Confs)
    /\ txHeight[s] < start[s] + PaymentWindow

\* A maker is told of the CSV only when its refund is valid in the next block
\* (observeCSVTX.Callback).
CsvIsMature ==
  \A s \in SwapIds : told[s] = "csv" => hasConfirmations(txHeight[s], tip, Csv)

\* The watcher cancels no swap before its deadline, even if servers lag, repeat
\* old headers, or are behind the anchor after a restart: the observer's test
\* for a height below the anchor never decides (acceptBlockHeight,
\* observeOpeningTX.Callback).
CancelIsDue ==
  \A s \in SwapIds : told[s] = "late" => tip >= start[s] + PaymentWindow

\* Update waits for the mutex of a machine that waits for h.mu.
Inverted(s) == calling.swap = s /\ calling.pc = "call" /\ mutex[s] = "action" /\ fsm[s] = "add"

\* The two locks are taken in both orders, but only a maker that goes to
\* WaitCsv while it is being called back can meet itself there: a taker's
\* machine and Update never wait for each other (block_subscriber.go, Update;
\* actions.go, AwaitTxConfirmationAction).
TakerNeverInverted == \A s \in Takers : ~Inverted(s)

\* A swap with an observer and news in the chain hears of it, unless the
\* watcher stops, the process restarts, or a maker's two locks are taken in
\* opposite orders.
NewsIsDelivered ==
  \A s \in SwapIds :
    (fsm[s] = "wait" /\ observers[s] > 0 /\ blockHeight < tip /\ Verdict(s, tip) # "none")
      ~> (fsm[s] # "wait" \/ loop \in {"stopped", "down"} \/ \E m \in Makers : Inverted(m))
=============================================================================
