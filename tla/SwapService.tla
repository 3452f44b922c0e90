---------------------------- MODULE SwapService ----------------------------
(***************************************************************************)
(* The life of the daemon around its swaps: the order in which              *)
(* cmd/peerswap-plugin (Core Lightning) and cmd/peerswaplnd/peerswapd (LND) *)
(* start, the upgrade of the database version, the recovery of stored       *)
(* swaps, and the admission of new ones by commands and peer requests, which*)
(* share the map activeSwaps and the swap bucket.                           *)
(*                                                                          *)
(* What a swap does between its first and its last save is Swap's subject;  *)
(* here it runs, and some event ends it.  One id can have two state         *)
(* machines: its own, made by a command or a request, and the copy that     *)
(* RecoverSwaps reads from the store.                                       *)
(***************************************************************************)
EXTENDS Naturals

CONSTANTS
  Ids,             \* swap ids
  Chans,           \* short channel ids
  NoChan,          \* the empty scid of a machine whose request is not applied
  MaxServiceStops  \* bound: crashes and restarts

ASSUME ServiceAssumption ==
  /\ NoChan \notin Chans
  /\ MaxServiceStops \in Nat

VARIABLES
  flavour,    \* "lnd" or "cln": which daemon this is
  phase,      \* how far its start has come
  chains,     \* the chains this process was started with
  dbVersion,  \* the version bucket: "none", "old" or "current"
  assetOf,    \* [Ids -> the asset of the swap]
  rec,        \* [Ids -> [st, chan]]: the swap bucket
  work,       \* ids whose record is in a state with work to do on the chain
  active,     \* [Ids -> which machine activeSwaps holds: "none", "own" or "copy"]
  own,        \* [Ids -> [pc, chan]]: the machine made in this process
  copy,       \* [Ids -> [pc, chan]]: the machine RecoverSwaps read
  early,      \* ids admitted before RecoverSwaps returned
  raced,      \* {i, j}: j was locked while i's request was not yet applied
  svcStops    \* crashes so far

svcVars == <<flavour, phase, chains, dbVersion, assetOf, rec, work, active, own, copy, early, raced, svcStops>>
chainVars == <<chains, assetOf, work>>

Assets == {"btc", "lbtc", "other"}
Enableable == {"btc", "lbtc"}
Phase == {"down", "started", "ready", "checked", "upgraded", "recovering", "serving", "refused"}
NoRecord == [st |-> "none", chan |-> NoChan]
NoMachine == [pc |-> "none", chan |-> NoChan]

\* own: "locked" (registered, scid empty), "applied" (scid set), "running" (saved),
\* "finishing" (finished, RemoveActiveSwap pending), "stuck" (registered, SendEvent or
\* SwapOut returned an error).  copy: "listed", "locked", "running", "finishing",
\* "refused".  Either: "gone".
MachinePc == {"none", "listed", "locked", "applied", "running", "finishing", "stuck",
              "refused", "gone"}

ServiceTypeOK ==
  /\ flavour \in {"lnd", "cln"}
  /\ phase \in Phase
  /\ chains \subseteq Enableable
  /\ assetOf \in [Ids -> Assets \cup {"none"}]
  /\ work \subseteq Ids
  /\ dbVersion \in {"none", "old", "current"}
  /\ rec \in [Ids -> [st : {"none", "open", "done"}, chan : Chans \cup {NoChan}]]
  /\ active \in [Ids -> {"none", "own", "copy"}]
  /\ own \in [Ids -> [pc : MachinePc, chan : Chans \cup {NoChan}]]
  /\ copy \in [Ids -> [pc : MachinePc, chan : Chans \cup {NoChan}]]
  /\ early \subseteq Ids
  /\ raced \subseteq SUBSET Ids
  /\ svcStops \in Nat

ServiceInit ==
  /\ flavour \in {"lnd", "cln"}
  /\ phase = "down"
  /\ chains = {}
  /\ assetOf = [i \in Ids |-> "none"]
  /\ work = {}
  /\ dbVersion = "none"
  /\ rec = [i \in Ids |-> NoRecord]
  /\ active = [i \in Ids |-> "none"]
  /\ own = [i \in Ids |-> NoMachine]
  /\ copy = [i \in Ids |-> NoMachine]
  /\ early = {}
  /\ raced = {}
  /\ svcStops = 0

-----------------------------------------------------------------------------
\* The map of active swaps.

Registered(i) == active[i] # "none"

\* swap.Data.GetScid() of the machine activeSwaps holds for i: empty until
\* SendEvent has applied the request.
GetScid(i) ==
  CASE active[i] = "own" /\ own[i].pc # "locked" -> own[i].chan
    [] active[i] = "copy" -> copy[i].chan
    [] OTHER -> NoChan

\* Faulty: the scids of the active swaps are not looked at.
ChannelNeverTaken(c) == FALSE

\* lockSwap refuses a channel on which a registered machine has its scid.
ChannelTaken(c) == \E j \in Ids : Registered(j) /\ GetScid(j) = c

\* The machines whose scid lockSwap cannot see yet.
NotYetApplied(c) == {j \in Ids : active[j] = "own" /\ own[j].pc = "locked" /\ own[j].chan = c}

Races(i, c) == {{i, j} : j \in NotYetApplied(c) \ {i}}

-----------------------------------------------------------------------------
\* The start of the daemon.

\* Up to swapService.Start: the chains of the configuration whose daemons answer are set
\* up, and without any of them run ends.  The handlers of the service are registered.
StartDaemon(C) ==
  /\ phase = "down"
  /\ C # {}
  /\ phase' = "started"
  /\ chains' = C
  /\ UNCHANGED <<flavour, assetOf, work, dbVersion, rec, active, own, copy, early, raced, svcStops>>

StartPlugin(C) == flavour = "cln" /\ StartDaemon(C)
StartPeerswapd(C) == flavour = "lnd" /\ StartDaemon(C)

\* On Core Lightning SetReady follows at once and opens the commands.
SetReady ==
  /\ flavour = "cln"
  /\ phase = "started"
  /\ phase' = "ready"
  /\ UNCHANGED <<flavour, chainVars, dbVersion, rec, active, own, copy, early, raced, svcStops>>

\* ListAll: the records of the swap bucket.
ListAll == {i \in Ids : rec[i].st # "none"}

HasActiveSwaps == \E i \in ListAll : rec[i].st = "open"

\* SafeUpgrade up to SetVersion.  An error ends run: the process on LND, but on
\* Core Lightning outer waits for lightningd and the plugin stays.
SafeUpgrade ==
  /\ phase = IF flavour = "cln" THEN "ready" ELSE "started"
  /\ phase' = CASE dbVersion = "current" -> "upgraded"
                [] dbVersion # "current" /\ HasActiveSwaps -> "refused"
                [] OTHER -> "checked"
  /\ UNCHANGED <<flavour, chainVars, dbVersion, rec, active, own, copy, early, raced, svcStops>>

SetVersion ==
  /\ phase = "checked"
  /\ phase' = "upgraded"
  /\ dbVersion' = "current"
  /\ UNCHANGED <<flavour, chainVars, rec, active, own, copy, early, raced, svcStops>>

\* Faulty: finished records are recovered too.
RecoverFinishedSwaps ==
  /\ phase = "upgraded"
  /\ phase' = "recovering"
  /\ copy' = [i \in Ids |-> IF i \in ListAll
                             THEN [pc |-> "listed", chan |-> rec[i].chan] ELSE NoMachine]
  /\ UNCHANGED <<flavour, chainVars, dbVersion, rec, active, own, early, raced, svcStops>>

\* RecoverSwaps: ListAll, then a goroutine for every record that is not finished.
RecoverSwaps ==
  /\ phase = "upgraded"
  /\ phase' = "recovering"
  /\ copy' = [i \in Ids |-> IF i \in ListAll /\ rec[i].st = "open"
                             THEN [pc |-> "listed", chan |-> rec[i].chan] ELSE NoMachine]
  /\ UNCHANGED <<flavour, chainVars, dbVersion, rec, active, own, early, raced, svcStops>>

\* The goroutine's lockSwap; when it is refused the swap is not recovered.
RecoverLock(i) ==
  /\ copy[i].pc = "listed"
  /\ IF ChannelTaken(copy[i].chan)
     THEN /\ copy' = [copy EXCEPT ![i].pc = "refused"]
          /\ UNCHANGED <<active, raced>>
     ELSE /\ copy' = [copy EXCEPT ![i].pc = "locked"]
          /\ active' = [active EXCEPT ![i] = "copy"]
          /\ raced' = raced \cup Races(i, copy[i].chan)
  /\ UNCHANGED <<flavour, chainVars, phase, dbVersion, rec, own, early, svcStops>>

\* Memory is lost with the process.
ProcessEnds ==
  /\ phase' = "down"
  /\ chains' = {}
  /\ active' = [i \in Ids |-> "none"]
  /\ own' = [i \in Ids |-> NoMachine]
  /\ copy' = [i \in Ids |-> NoMachine]
  /\ UNCHANGED <<flavour, assetOf, early, raced>>

\* getOnChainServices hands out what a chain that is not enabled left nil, and the action
\* that uses it takes the whole process down.
HasChain(i) == assetOf[i] \in chains
NilServices == ProcessEnds /\ UNCHANGED <<work, rec, dbVersion, svcStops>>

\* Recover runs the state's action and the events after it, and saves.
Recovered(i) ==
  /\ \/ /\ copy' = [copy EXCEPT ![i].pc = "running"]
        /\ rec' = [rec EXCEPT ![i] = [st |-> "open", chan |-> copy[i].chan]]
        /\ UNCHANGED work
     \/ /\ copy' = [copy EXCEPT ![i].pc = "finishing"]
        /\ rec' = [rec EXCEPT ![i] = [st |-> "done", chan |-> copy[i].chan]]
        /\ work' = work \ {i}
  /\ UNCHANGED <<flavour, chains, assetOf, phase, dbVersion, active, own, early, raced, svcStops>>

Recover(i) ==
  /\ copy[i].pc = "locked"
  /\ IF i \in work /\ ~HasChain(i) THEN NilServices ELSE Recovered(i)

\* Faulty: the goroutines are not waited for.
RecoverSwapsReturnsAtOnce ==
  /\ phase = "recovering"
  /\ phase' = "serving"
  /\ UNCHANGED <<flavour, chainVars, dbVersion, rec, active, own, copy, early, raced, svcStops>>

\* wg.Wait returns when every goroutine has.  The listeners and the gRPC server of
\* the LND daemon start after it.
RecoverSwapsReturns ==
  /\ phase = "recovering"
  /\ \A i \in Ids : copy[i].pc \notin {"listed", "locked", "finishing"}
  /\ phase' = "serving"
  /\ UNCHANGED <<flavour, chainVars, dbVersion, rec, active, own, copy, early, raced, svcStops>>

\* The process ends.  The operator may install another release.
Stop ==
  /\ phase # "down"
  /\ svcStops < MaxServiceStops
  /\ svcStops' = svcStops + 1
  /\ dbVersion' \in {dbVersion, IF dbVersion = "current" THEN "old" ELSE dbVersion}
  /\ ProcessEnds
  /\ UNCHANGED <<work, rec>>

-----------------------------------------------------------------------------
\* New swaps.

\* The command's checks come first; Core Lightning's ask isReady, LND's exist only
\* once the gRPC server runs.
CommandsOpen == IF flavour = "cln" THEN phase \notin {"down", "started"} ELSE phase = "serving"

\* OnCustomMsg is not gated by isReady; LND listens after RecoverSwaps.
RequestsOpen == IF flavour = "cln" THEN phase # "down" ELSE phase = "serving"

\* lockSwap for a new machine.  An unknown chain makes SwapOut and SwapIn return with
\* the machine still registered.
lockSwap(i, c, asset) ==
  /\ own[i].pc = "none" /\ rec[i].st = "none"
  /\ ~ChannelTaken(c)
  /\ active' = [active EXCEPT ![i] = "own"]
  /\ own' = [own EXCEPT ![i] = [pc |-> IF asset \in Enableable THEN "locked" ELSE "stuck",
                                chan |-> IF asset \in Enableable THEN c ELSE NoChan]]
  /\ assetOf' = [assetOf EXCEPT ![i] = asset]
  /\ raced' = raced \cup Races(i, c)
  /\ early' = IF phase = "serving" THEN early ELSE early \cup {i}
  /\ UNCHANGED <<flavour, phase, chains, dbVersion, rec, work, copy, svcStops>>

\* The swapout and swapin commands.  A refused command changes nothing, so the checks
\* on amount, channel, balance, connection and peer are the choice not to take the step.
SwapCommand(i, c, asset) ==
  /\ CommandsOpen
  /\ asset \in chains
  /\ lockSwap(i, c, asset)

\* OnSwapInRequestReceived and OnSwapOutRequestReceived.  Ids of requests are new.
RequestReceived(i, c, asset) ==
  /\ RequestsOpen
  /\ asset \in Enableable
  /\ lockSwap(i, c, asset)

\* SendEvent: ApplyToSwapData sets the request, and with it the scid.
ApplyToSwapData(i) ==
  /\ active[i] = "own" /\ own[i].pc = "locked"
  /\ own' = [own EXCEPT ![i].pc = "applied"]
  /\ UNCHANGED <<flavour, chainVars, phase, dbVersion, rec, active, copy, early, raced, svcStops>>

\* The first UpdateData.  When it fails SendEvent returns the error and the machine
\* stays registered.
UpdateData(i) ==
  /\ active[i] = "own" /\ own[i].pc = "applied"
  /\ \/ /\ own' = [own EXCEPT ![i].pc = "running"]
        /\ rec' = [rec EXCEPT ![i] = [st |-> "open", chan |-> own[i].chan]]
     \/ /\ own' = [own EXCEPT ![i].pc = "stuck"]
        /\ UNCHANGED rec
  /\ UNCHANGED <<flavour, chainVars, phase, dbVersion, active, copy, early, raced, svcStops>>

Running(i) == \/ active[i] = "own" /\ own[i].pc = "running"
              \/ active[i] = "copy" /\ copy[i].pc = "running"

\* The machine enters a state with work on the chain, which needs its services, or leaves
\* the last one: a taker that gives its key away.
ChainWork(i) ==
  /\ Running(i)
  /\ IF i \notin work /\ ~HasChain(i) THEN NilServices
     ELSE /\ work' = IF i \in work THEN work \ {i} ELSE work \cup {i}
          /\ UNCHANGED <<flavour, phase, chains, dbVersion, assetOf, rec, active, own, copy,
                         early, raced, svcStops>>

\* An event takes the registered machine to a final state, which is saved.
FinishOwn(i) ==
  /\ active[i] = "own" /\ own[i].pc = "running"
  /\ own' = [own EXCEPT ![i].pc = "finishing"]
  /\ rec' = [rec EXCEPT ![i] = [st |-> "done", chan |-> own[i].chan]]
  /\ work' = work \ {i}
  /\ UNCHANGED <<flavour, phase, chains, assetOf, dbVersion, active, copy, early, raced, svcStops>>

FinishCopy(i) ==
  /\ active[i] = "copy" /\ copy[i].pc = "running"
  /\ copy' = [copy EXCEPT ![i].pc = "finishing"]
  /\ rec' = [rec EXCEPT ![i] = [st |-> "done", chan |-> copy[i].chan]]
  /\ work' = work \ {i}
  /\ UNCHANGED <<flavour, phase, chains, assetOf, dbVersion, active, own, early, raced, svcStops>>

\* RemoveActiveSwap deletes by id, whichever machine the entry holds.
RemoveActiveSwap(i) ==
  /\ \/ /\ own[i].pc = "finishing"
        /\ own' = [own EXCEPT ![i].pc = "gone"]
        /\ UNCHANGED copy
     \/ /\ copy[i].pc = "finishing"
        /\ copy' = [copy EXCEPT ![i].pc = "gone"]
        /\ UNCHANGED own
  /\ active' = [active EXCEPT ![i] = "none"]
  /\ UNCHANGED <<flavour, chainVars, phase, dbVersion, rec, early, raced, svcStops>>

ServiceNext ==
  \/ \E C \in SUBSET Enableable : StartPlugin(C) \/ StartPeerswapd(C)
  \/ SetReady \/ SafeUpgrade \/ SetVersion
  \/ RecoverSwaps \/ RecoverSwapsReturns \/ Stop
  \/ \E i \in Ids :
       \/ RecoverLock(i) \/ Recover(i)
       \/ \E c \in Chans, a \in Assets : RequestReceived(i, c, a) \/ SwapCommand(i, c, a)
       \/ ApplyToSwapData(i) \/ UpdateData(i)
       \/ ChainWork(i) \/ FinishOwn(i) \/ FinishCopy(i) \/ RemoveActiveSwap(i)

ServiceSpec == ServiceInit /\ [][ServiceNext]_svcVars

-----------------------------------------------------------------------------
\* Properties.

\* lockSwap keeps one active swap per channel, as the protocol asks, except for two
\* admissions that overlap: a machine is registered before its request is applied, so
\* that a second lockSwap in between finds an empty scid.
OneSwapPerChannelUnlessRaced ==
  \A i, j \in Ids :
    i # j /\ Registered(i) /\ Registered(j) /\ GetScid(i) \in Chans /\ GetScid(i) = GetScid(j)
      => {i, j} \in raced

\* No swap was admitted during the start, and no two admissions on one channel overlapped.
Regular == early = {} /\ raced = {}

\* Two unfinished records never share a channel.  When admissions overlapped they can,
\* and recovery then refuses one, which leaves its channel open to the next swap.
StoredSwapsShareNoChannel ==
  Regular => \A i, j \in Ids :
               i # j /\ rec[i].st = "open" /\ rec[j].st = "open" => rec[i].chan # rec[j].chan

\* An entry of activeSwaps that has no record is being admitted, or its save failed
\* and it keeps its channel: no path registers a machine and forgets it without one.
NoForgottenEntry ==
  \A i \in Ids : active[i] = "own" /\ rec[i].st = "none" => own[i].chan \in Chans

\* Once RecoverSwaps has returned, every unfinished record is registered: none is left
\* behind because another swap had taken its channel.
RecoveryIsComplete ==
  Regular /\ phase = "serving" => \A i \in Ids : rec[i].st = "open" => Registered(i)

\* SafeUpgrade changes the version only while every swap is finished, except for swaps
\* that Core Lightning's open commands and handlers admitted during the start.
UpgradeOnlyWhenIdle ==
  [][dbVersion # "current" /\ dbVersion' = "current"
       => \A i \in Ids : rec[i].st = "open" => i \in early]_svcVars

\* A finished record stays finished: no save of a machine that a restart or a second
\* machine of the same swap left behind reopens it, except for a swap admitted while
\* RecoverSwaps was listing.
FinishedStaysFinished ==
  [][\A i \in Ids : rec[i].st = "done" /\ i \notin early => rec'[i].st = "done"]_svcVars

\* A swap with work left on its chain is finished only by a process that was started with
\* that chain: one started without it ends in RecoverSwaps, again and again, and the record
\* stays (getOnChainServices).
ChainWorkNeedsChain ==
  [][\A i \in work : rec[i].st = "open" /\ rec'[i].st = "done" => HasChain(i)]_svcVars

\* Behind LND no swap is admitted before the upgrade check and the recovery are done, so
\* that a refused upgrade admits none: "peerswap will not start up".  Core Lightning's
\* handlers and commands are open from the start, and stay open.
LndAdmitsAfterRecovery == flavour = "lnd" => early = {}
=============================================================================
