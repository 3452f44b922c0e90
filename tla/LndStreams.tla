----------------------------- MODULE LndStreams -----------------------------
(***************************************************************************)
(* What peerswapd hears from lnd: the payment watcher, the transaction      *)
(* watcher and the message listener of lnd/, each of which subscribes to a  *)
(* gRPC stream and leaves a goroutine behind that reads it.  The subject is *)
(* the maps that keep a swap from being watched twice, and what becomes of  *)
(* a watch whose subscription fails or whose stream ends.                   *)
(*                                                                          *)
(* One watch of one swap is followed, a maker's for its invoice ("pay") or  *)
(* its CSV ("csv") or a taker's for the confirmation ("conf"), beside the   *)
(* messages of two swaps.  lnd is external: it settles or cancels an        *)
(* invoice, reports a transaction, and may end any stream.                  *)
(***************************************************************************)
EXTENDS Naturals

CONSTANTS
  LndSwaps,             \* swaps that messages are about
  NoSwap,               \* none of them
  MaxAdds,              \* bound: AddWait... calls of the watch
  MaxMessages,          \* bound: messages of a swap in the stream
  MaxStreamFaults       \* bound: failed subscriptions and ended streams

ASSUME LndAssumption ==
  NoSwap \notin LndSwaps /\ {MaxAdds, MaxMessages, MaxStreamFaults} \subseteq Nat

VARIABLES
  watchKind,      \* "pay", "csv" or "conf"
  key,       \* the map the watch is checked against holds the swap
  watch,     \* [adds, adding, live, deaf]: calls so far, calls that have yet to subscribe,
             \* goroutines with a stream, goroutines whose stream is gone
  event,     \* what lnd has to tell: "none", "yes" or "cancelled"
  told,      \* the callback was called
  troubled,  \* a subscription failed or a stream ended
  stream,    \* the custom messages: [queue, hand, open], hand the swap handled now
  busy,      \* swaps whose machine another event holds
  halt,      \* the daemon's shutdown: "no", "waits" in PaymentWatcher.Stop or "done"
  faults

lndVars == <<watchKind, key, watch, event, told, troubled, stream, busy, halt, faults>>

LndInit ==
  /\ watchKind \in {"pay", "csv", "conf"}
  /\ key = FALSE
  /\ watch = [adds |-> 0, adding |-> 0, live |-> 0, deaf |-> 0]
  /\ event = "none"
  /\ told = FALSE /\ troubled = FALSE
  /\ stream = [queue |-> [s \in LndSwaps |-> 0], hand |-> NoSwap, open |-> TRUE]
  /\ busy = {}
  /\ halt = "no"
  /\ faults = 0

StreamFault == faults < MaxStreamFaults /\ faults' = faults + 1

-----------------------------------------------------------------------------
\* Adding a watch.

\* AddWaitForCsvTx checks its own map and writes that of the confirmations, which a maker
\* never asks: the key it checks stays absent.
WritesOwnKey == watchKind # "csv"

\* AddWaitForPayment, AddWaitForConfirmationTx and AddWaitForCsvTx up to the unlock.
AddWait ==
  /\ halt = "no" /\ watch.adds < MaxAdds
  /\ key' = (key \/ WritesOwnKey)
  /\ watch' = [watch EXCEPT !.adds = @ + 1, !.adding = IF key THEN @ ELSE @ + 1]
  /\ UNCHANGED <<watchKind, event, told, troubled, stream, busy, halt, faults>>

\* SubscribeSingleInvoice, RegisterConfirmationsNtfn: the goroutine starts.
SubscribeStream ==
  /\ watch.adding > 0
  /\ watch' = [watch EXCEPT !.adding = @ - 1, !.live = @ + 1]
  /\ UNCHANGED <<watchKind, key, event, told, troubled, stream, busy, halt, faults>>

\* The call returns; nothing removes the key.
SubscribeFails ==
  /\ watch.adding > 0 /\ StreamFault
  /\ watch' = [watch EXCEPT !.adding = @ - 1]
  /\ troubled' = TRUE
  /\ UNCHANGED <<watchKind, key, event, told, stream, busy, halt>>

-----------------------------------------------------------------------------
\* The goroutine of a stream.

\* The deferred calls of a goroutine that ends: the key is deleted.
WatchEnds ==
  /\ key' = FALSE
  /\ watch' = [watch EXCEPT !.live = @ - 1]

\* Faulty: the callback is not called.
NotifiedSilently ==
  /\ watch.live > 0 /\ event = "yes"
  /\ WatchEnds
  /\ UNCHANGED <<watchKind, event, told, troubled, stream, busy, halt, faults>>

\* SETTLED, the confirmations, or the block at which the CSV has passed: the callback is
\* called and the goroutine ends.
Notified ==
  /\ watch.live > 0 /\ event = "yes"
  /\ told' = TRUE
  /\ WatchEnds
  /\ UNCHANGED <<watchKind, event, troubled, stream, busy, halt, faults>>

\* Faulty: the goroutine of a cancelled invoice goes on reading.
InvoiceCancelledIgnored == FALSE /\ UNCHANGED lndVars

\* CANCELED ends the goroutine without a callback.
InvoiceCancelled ==
  /\ watch.live > 0 /\ event = "cancelled"
  /\ WatchEnds
  /\ UNCHANGED <<watchKind, event, told, troubled, stream, busy, halt, faults>>

\* The stream breaks with an error, or GetBlockHeight or the block subscription fails after
\* the confirmations came: the goroutine ends.
StreamFails ==
  /\ watch.live > 0 /\ StreamFault
  /\ WatchEnds
  /\ troubled' = TRUE
  /\ UNCHANGED <<watchKind, event, told, stream, busy, halt>>

\* lnd closes the stream.  The payment watcher's goroutine ends; addTxWatcher's reader
\* returns without a word and leaves the goroutine of the watch waiting.
StreamEof ==
  /\ watch.live > 0 /\ StreamFault
  /\ IF watchKind = "pay" THEN WatchEnds
     ELSE key' = key /\ watch' = [watch EXCEPT !.live = @ - 1, !.deaf = @ + 1]
  /\ troubled' = TRUE
  /\ UNCHANGED <<watchKind, event, told, stream, busy, halt>>

-----------------------------------------------------------------------------
\* The message listener: one goroutine, which calls the handlers of a message itself.

MessageSent(s) ==
  /\ stream.open /\ stream.queue[s] < MaxMessages
  /\ stream' = [stream EXCEPT !.queue[s] = @ + 1]
  /\ UNCHANGED <<watchKind, key, watch, event, told, troubled, busy, halt, faults>>

TakeMessage(s) ==
  /\ stream.open /\ stream.hand = NoSwap /\ stream.queue[s] > 0
  /\ stream' = [stream EXCEPT !.queue[s] = @ - 1, !.hand = s]
  /\ UNCHANGED <<watchKind, key, watch, event, told, troubled, busy, halt, faults>>

\* The handler waits for the machine of its swap, and so does every message behind it.
HandleCustomMessage(s) ==
  /\ stream.hand = s /\ s \notin busy
  /\ stream' = [stream EXCEPT !.hand = NoSwap]
  /\ UNCHANGED <<watchKind, key, watch, event, told, troubled, busy, halt, faults>>

\* Nothing subscribes again once the stream has ended.
MessagesEnd ==
  /\ stream.open /\ stream.hand = NoSwap /\ StreamFault
  /\ stream' = [stream EXCEPT !.open = FALSE]
  /\ UNCHANGED <<watchKind, key, watch, event, told, troubled, busy, halt>>

-----------------------------------------------------------------------------
\* lnd, the machines and the shutdown.

LndEvent(e) ==
  /\ event = "none" /\ (e = "cancelled" => watchKind = "pay")
  /\ event' = e
  /\ UNCHANGED <<watchKind, key, watch, told, troubled, stream, busy, halt, faults>>

\* An event that has its swap's machine to itself, a payment for instance, and its end.
MachineBusy(s) ==
  /\ s \notin busy /\ busy' = busy \cup {s}
  /\ UNCHANGED <<watchKind, key, watch, event, told, troubled, stream, halt, faults>>

MachineFree(s) ==
  /\ s \in busy /\ busy' = busy \ {s}
  /\ UNCHANGED <<watchKind, key, watch, event, told, troubled, stream, halt, faults>>

\* Stop cancels a context no stream of the payment watcher was opened with, and waits for
\* their goroutines.
StopPayments ==
  /\ watchKind = "pay" /\ halt = "no"
  /\ halt' = "waits"
  /\ UNCHANGED <<watchKind, key, watch, event, told, troubled, stream, busy, faults>>

StopReturns ==
  /\ halt = "waits" /\ watch.live = 0
  /\ halt' = "done"
  /\ UNCHANGED <<watchKind, key, watch, event, told, troubled, stream, busy, faults>>

LndNext ==
  \/ AddWait \/ SubscribeStream \/ SubscribeFails
  \/ Notified \/ InvoiceCancelled \/ StreamFails \/ StreamEof
  \/ \E e \in {"yes", "cancelled"} : LndEvent(e)
  \/ \E s \in LndSwaps : \/ MessageSent(s) \/ TakeMessage(s) \/ HandleCustomMessage(s)
                         \/ MachineBusy(s) \/ MachineFree(s)
  \/ MessagesEnd \/ StopPayments \/ StopReturns

\* Goroutines run; an invoice is paid or expires.
LndFairness ==
  /\ WF_lndVars(Notified \/ InvoiceCancelled)
  /\ WF_lndVars(watchKind = "pay" /\ \E e \in {"yes", "cancelled"} : LndEvent(e))
  /\ WF_lndVars(StopReturns)

LndSpec == LndInit /\ [][LndNext]_lndVars /\ LndFairness

-----------------------------------------------------------------------------
\* Properties.

\* An invoice and a confirmation are watched by at most one goroutine, however often the
\* swap asks; the CSV is not, as AddWaitForCsvTx never sets the key it checks.
OneStreamPerWatch == watchKind # "csv" => watch.adding + watch.live + watch.deaf <= 1

\* A key that bars a swap from watching again while nobody listens is left behind by a
\* failed subscription or a stream that lnd closed, never by a watch that delivered (the
\* deferred deletes of paymentwatcher.go and txwatcher.go).
KeyMeansListener == key /\ ~troubled => watch.adding + watch.live > 0

\* Once a watch listens, what lnd has to tell reaches the swap, unless the stream ends
\* (AddWaitForPayment, AddWaitForConfirmationTx, AddWaitForCsvTx).
EventIsTold == event = "yes" /\ watch.live > 0 ~> told \/ troubled

\* The daemon's shutdown, which waits for streams it does not cancel, ends with the last
\* open invoice (PaymentWatcher.Stop).
StopEnds == halt = "waits" ~> halt = "done"
=============================================================================
