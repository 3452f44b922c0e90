------------------------------ MODULE PeerSync ------------------------------
(***************************************************************************)
(* Peer synchronisation of one node (peersync/): the poll loop, the cleanup *)
(* loop and the message handler, three goroutines over one bucket of peer   *)
(* records.  Every write of a record is a save of a whole Peer value that   *)
(* was read in an earlier transaction.                                      *)
(*                                                                          *)
(* A capability is [ver, rate]: the protocol version, and all that a peer   *)
(* may announce differently under one version (assets, admission, premium). *)
(* Of a record's timestamps the model keeps what the code compares:         *)
(* lastObservedAt is fresh, stale (older than half the timeout) or expired; *)
(* whether lastPollAt is due is left open, since ticker and poll interval   *)
(* are both ten seconds.                                                    *)
(***************************************************************************)
EXTENDS Naturals, Sequences

CONSTANTS
  Peers,         \* peers of the node
  Pollers,       \* peers that poll and ask of their own accord; the others only answer
  Versions,      \* protocol versions peers may run
  Rates,         \* what else a capability may say
  BusSize,       \* capacity of the subscriber's channel
  Happenings,    \* the kinds of changes in the surroundings a run admits
  MaxSyncEvents  \* bound: changes in the surroundings

ASSUME SyncAssumption ==
  /\ Pollers \subseteq Peers
  /\ Versions \subseteq Nat \ {0}
  /\ BusSize \in Nat \ {0}
  /\ Happenings \subseteq {"change", "connection", "policy", "stream", "restart"}
  /\ MaxSyncEvents \in Nat

VARIABLES
  peerCap,    \* [Peers -> the capability the peer announces]
  conn,       \* connected peers
  suspected,  \* peers the policy lists as suspicious
  book,       \* [Peers -> record of the store]
  poll,       \* pollPeers: [pc, force, known, cur, snap], snap of the peers to visit
  handler,    \* processMessage: [pc, from, request, cap, found]
  sweep,      \* cleanupExpired: [pc, keep]
  inbox,      \* the channel of the message bus
  listening,  \* "no" before Subscribe, "yes", "deaf" once the stream has ended
  requested,  \* peers whose lastRequestedAt is within the request interval
  asked,      \* peers that have a REQUEST_POLL of ours to answer
  marked,     \* [Peers -> messages sent to the peer since it was suspected]
  syncEvents

syncVars == <<peerCap, conn, suspected, book, poll, handler, sweep, inbox, listening,
              requested, asked, marked, syncEvents>>
world == <<peerCap, conn, suspected, listening, syncEvents>>

Cap == [ver : Versions, rate : Rates]
NoCap == [ver |-> 0, rate |-> 0]
NoPeer == [known |-> FALSE]
PeerRecord == {NoPeer} \cup [known : {TRUE}, cap : Cap, seen : {"fresh", "stale", "expired"}]
IdlePoll == [pc |-> "idle"]
IdleHandler == [pc |-> "idle"]
IdleSweep == [pc |-> "idle"]

SyncInit ==
  /\ peerCap \in [Peers -> Cap]
  /\ conn \in SUBSET Peers
  /\ suspected = {}
  /\ book = [p \in Peers |-> NoPeer]
  /\ poll = IdlePoll
  /\ handler = IdleHandler
  /\ sweep = IdleSweep
  /\ inbox = <<>>
  /\ listening = "no"
  /\ requested = {}
  /\ asked = {}
  /\ marked = [p \in Peers |-> 0]
  /\ syncEvents = 0

\* sendCapability to the peers P; a request is one they will answer.
Send(P, isRequest) ==
  /\ asked' = IF isRequest THEN asked \cup P ELSE asked
  /\ marked' = [p \in Peers |-> IF p \in P \cap suspected THEN marked[p] + 1 ELSE marked[p]]

SendNothing == UNCHANGED <<asked, marked>>

-----------------------------------------------------------------------------
\* Start: performInitialSync asks every connected peer, and only then subscribes.

InitialSync ==
  /\ listening = "no"
  /\ listening' = "asking"
  /\ Send(conn \ suspected, TRUE)
  /\ UNCHANGED <<peerCap, conn, suspected, book, poll, handler, sweep, inbox, requested,
                 syncEvents>>

Subscribe ==
  /\ listening = "asking"
  /\ listening' = "yes"
  /\ SendNothing
  /\ UNCHANGED <<peerCap, conn, suspected, book, poll, handler, sweep, inbox, requested,
                 syncEvents>>

Started == listening \in {"yes", "deaf"}

-----------------------------------------------------------------------------
\* The poll loop, and ForcePollAllPeers, which is the same with force.

\* GetAllPeerStates.
PollPeers(force) ==
  /\ Started /\ poll.pc = "idle"
  /\ LET known == {p \in Peers : book[p].known} IN
       poll' = [pc |-> "loop", force |-> force, known |-> known, cur |-> CHOOSE p \in Peers : TRUE,
                snap |-> [p \in known |-> book[p]]]
  /\ SendNothing
  /\ UNCHANGED <<world, book, handler, sweep, inbox, requested>>

\* The peers of the snapshot the loop has still to visit, and the loop after p.
ToVisit == DOMAIN poll.snap
Visited(p) == [poll EXCEPT !.pc = "loop", !.snap = [q \in ToVisit \ {p} |-> poll.snap[q]]]

\* The next peer of the snapshot, unless it is not due or suspicious.
PollPeer(p, due) ==
  /\ poll.pc = "loop" /\ p \in ToVisit
  /\ poll' = IF (poll.force \/ due) /\ p \notin suspected
             THEN [poll EXCEPT !.pc = "send", !.cur = p]
             ELSE Visited(p)
  /\ SendNothing
  /\ UNCHANGED <<world, book, handler, sweep, inbox, requested>>

\* Faulty: a stale peer is sent a plain poll.
StaleNever(r) == FALSE

\* capabilityIsStale: a plain poll brings no answer, a request does.
capabilityIsStale(r) == r.seen # "fresh"

\* The send fails when the peer is not connected; the record is then left alone.
PollSend ==
  /\ poll.pc = "send"
  /\ IF poll.cur \in conn
     THEN /\ poll' = [poll EXCEPT !.pc = "save"]
          /\ Send({poll.cur}, capabilityIsStale(poll.snap[poll.cur]))
     ELSE /\ poll' = Visited(poll.cur)
          /\ SendNothing
  /\ UNCHANGED <<world, book, handler, sweep, inbox, requested>>

\* MarkAsPolled on the snapshot's value, which is then saved over the record.
PollSave ==
  /\ poll.pc = "save"
  /\ book' = [book EXCEPT ![poll.cur] = poll.snap[poll.cur]]
  /\ poll' = Visited(poll.cur)
  /\ SendNothing
  /\ UNCHANGED <<world, handler, sweep, inbox, requested>>

\* requestUnknownConnectedPeers: pruneRequestTimes, then allowRequest for each.
RequestUnknown ==
  /\ poll.pc = "loop" /\ ToVisit = {}
  /\ LET unknown == {p \in conn \ suspected : p \notin poll.known}
         allowed == {p \in unknown : poll.force \/ p \notin requested}
     IN /\ requested' = (requested \cap conn) \cup allowed
        /\ Send(allowed, TRUE)
  /\ poll' = IdlePoll
  /\ UNCHANGED <<world, book, handler, sweep, inbox>>

-----------------------------------------------------------------------------
\* The message handler.

\* Faulty: the capability received last is kept, whatever its version.
MergeTakesLast(local, remote) == remote

\* MergeCapabilities prefers the newer version.
MergeCapabilities(local, remote) == IF remote.ver < local.ver THEN local ELSE remote

\* A message of a suspicious peer is dropped; otherwise findPeer reads its record.
HandleMessage ==
  /\ handler.pc = "idle" /\ inbox # <<>>
  /\ inbox' = Tail(inbox)
  /\ LET m == Head(inbox) IN
       handler' = IF m.from \in suspected THEN IdleHandler
                  ELSE [pc |-> "save", from |-> m.from, request |-> m.request, cap |-> m.cap,
                        found |-> IF book[m.from].known THEN book[m.from].cap ELSE NoCap]
  /\ SendNothing
  /\ UNCHANGED <<world, book, poll, sweep, requested>>

\* UpdateCapability and SavePeerState.
StoreCapability ==
  /\ handler.pc = "save"
  /\ LET f == handler.found IN
       book' = [book EXCEPT ![handler.from] =
                  [known |-> TRUE, seen |-> "fresh",
                   cap |-> IF f = NoCap THEN handler.cap ELSE MergeCapabilities(f, handler.cap)]]
  /\ handler' = IF handler.request THEN [pc |-> "answer", from |-> handler.from] ELSE IdleHandler
  /\ SendNothing
  /\ UNCHANGED <<world, poll, sweep, inbox, requested>>

\* The answer to a request is a POLL.
AnswerRequest ==
  /\ handler.pc = "answer"
  /\ handler' = IdleHandler
  /\ Send({handler.from} \cap conn, FALSE)
  /\ UNCHANGED <<world, book, poll, sweep, inbox, requested>>

-----------------------------------------------------------------------------
\* The cleanup loop.

\* connectedPeers.  An error skips the sweep, but the Core Lightning adapter takes a
\* failed listpeers for an empty list.
ListConnected ==
  /\ Started /\ sweep.pc = "idle"
  /\ \E keep \in {conn, {}} : sweep' = [pc |-> "sweep", keep |-> keep]
  /\ SendNothing
  /\ UNCHANGED <<world, book, poll, handler, inbox, requested>>

shouldKeepPeer(p) == p \in sweep.keep

\* CleanupExpiredExcept, in one transaction.
CleanupExpired ==
  /\ sweep.pc = "sweep"
  /\ sweep' = IdleSweep
  /\ book' = [p \in Peers |->
       IF book[p].known /\ book[p].seen = "expired" /\ ~shouldKeepPeer(p) THEN NoPeer ELSE book[p]]
  /\ SendNothing
  /\ UNCHANGED <<world, poll, handler, inbox, requested>>

-----------------------------------------------------------------------------
\* Time and the peers.

Older(r) == [r EXCEPT !.seen = IF @ = "fresh" THEN "stale" ELSE "expired"]

\* A record, and what the goroutines have read of it, grow old together.
Age(p) ==
  /\ book[p].known /\ book[p].seen # "expired"
  /\ book' = [book EXCEPT ![p] = Older(@)]
  /\ poll' = IF poll.pc # "idle" /\ p \in ToVisit
             THEN [poll EXCEPT !.snap[p] = Older(@)] ELSE poll
  /\ SendNothing
  /\ UNCHANGED <<world, handler, sweep, inbox, requested>>

RequestInterval(p) ==
  /\ p \in requested
  /\ requested' = requested \ {p}
  /\ SendNothing
  /\ UNCHANGED <<world, book, poll, handler, sweep, inbox>>

\* publish drops the message when the channel is full.
Publish(p, isRequest) ==
  inbox' = IF listening = "yes" /\ Len(inbox) < BusSize
           THEN Append(inbox, [from |-> p, request |-> isRequest, cap |-> peerCap[p]])
           ELSE inbox

\* A poller may poll or ask at any time, and every peer answers what it was asked.
PeerSends(p, isRequest) ==
  /\ p \in conn \cap Pollers /\ listening = "yes" /\ Len(inbox) < BusSize
  /\ Publish(p, isRequest)
  /\ SendNothing
  /\ UNCHANGED <<world, book, poll, handler, sweep, requested>>

PeerAnswers(p) ==
  /\ p \in conn \cap asked
  /\ Publish(p, FALSE)
  /\ asked' = asked \ {p}
  /\ UNCHANGED <<world, book, poll, handler, sweep, requested, marked>>

Surroundings(kind) ==
  /\ kind \in Happenings /\ syncEvents < MaxSyncEvents
  /\ syncEvents' = syncEvents + 1
  /\ UNCHANGED <<book>>

\* The peer changes what it announces; upgrades and downgrades are among it.
PeerChanges(p, c) ==
  /\ c # peerCap[p]
  /\ peerCap' = [peerCap EXCEPT ![p] = c]
  /\ Surroundings("change")
  /\ UNCHANGED <<conn, suspected, poll, handler, sweep, inbox, listening, requested, asked, marked>>

Disconnect(p) ==
  /\ p \in conn
  /\ conn' = conn \ {p}
  /\ asked' = asked \ {p}
  /\ Surroundings("connection")
  /\ UNCHANGED <<peerCap, suspected, poll, handler, sweep, inbox, listening, requested, marked>>

\* PeerSync.RequestPoll
RequestPoll(p) == Send({p} \ suspected, Started)

\* The PEER_ONLINE handler and OnConnect call RequestPoll, unless the listener's stream
\* has ended.
Connect(p) ==
  /\ p \notin conn
  /\ conn' = conn \cup {p}
  /\ RequestPoll(p) \/ SendNothing
  /\ Surroundings("connection")
  /\ UNCHANGED <<peerCap, suspected, poll, handler, sweep, inbox, listening, requested>>

\* AddToSuspiciousPeerList and RemoveFromSuspiciousPeerList.
Suspect(p) ==
  /\ suspected' = IF p \in suspected THEN suspected \ {p} ELSE suspected \cup {p}
  /\ marked' = [marked EXCEPT ![p] = 0]
  /\ Surroundings("policy")
  /\ UNCHANGED <<peerCap, conn, poll, handler, sweep, inbox, listening, requested, asked>>

\* consumeStream ends on an error and nothing subscribes again.
StreamEnds ==
  /\ listening = "yes"
  /\ listening' = "deaf"
  /\ Surroundings("stream")
  /\ UNCHANGED <<peerCap, conn, suspected, poll, handler, sweep, inbox, requested, asked, marked>>

RestartSync ==
  /\ Started
  /\ listening' = "no"
  /\ poll' = IdlePoll /\ handler' = IdleHandler /\ sweep' = IdleSweep
  /\ inbox' = <<>> /\ requested' = {}
  /\ Surroundings("restart")
  /\ UNCHANGED <<peerCap, conn, suspected, asked, marked>>

CleanupLoop == ListConnected \/ CleanupExpired

SyncNext ==
  \/ InitialSync \/ Subscribe
  \/ \E force \in BOOLEAN : PollPeers(force)
  \/ PollSend \/ PollSave \/ RequestUnknown
  \/ HandleMessage \/ StoreCapability \/ AnswerRequest
  \/ CleanupLoop
  \/ StreamEnds \/ RestartSync
  \/ \E p \in Peers :
       \/ \E due \in BOOLEAN : PollPeer(p, due)
       \/ Age(p) \/ RequestInterval(p)
       \/ \E r \in BOOLEAN : PeerSends(p, r)
       \/ PeerAnswers(p) \/ \E c \in Cap : PeerChanges(p, c)
       \/ Disconnect(p) \/ Connect(p) \/ Suspect(p)

PollLoop == \/ PollPeers(FALSE) \/ PollSend \/ PollSave \/ RequestUnknown
            \/ \E p \in Peers, due \in BOOLEAN : PollPeer(p, due)
HandlerLoop == HandleMessage \/ StoreCapability \/ AnswerRequest

\* The goroutines run, time passes, a peer's turn comes when it is due, and a connected
\* peer answers.
SyncFairness ==
  /\ WF_syncVars(PollLoop) /\ WF_syncVars(HandlerLoop)
  /\ \A p \in Peers : /\ SF_syncVars(PollPeer(p, TRUE)) /\ WF_syncVars(PeerAnswers(p))
                      /\ WF_syncVars(Age(p)) /\ WF_syncVars(RequestInterval(p))

SyncSpec == SyncInit /\ [][SyncNext]_syncVars /\ SyncFairness

-----------------------------------------------------------------------------
\* Properties.

\* The version stored for a peer goes down only by a lost update: the poll loop or the
\* handler saves a record it had read before the other, or the sweep, wrote it.
VersionFallsOnlyByOverlap ==
  [][\A p \in Peers :
       book[p].known /\ book'[p].known /\ book'[p].cap.ver < book[p].cap.ver
         => \/ poll.pc = "save" /\ poll.cur = p /\ poll.snap[p].cap # book[p].cap
            \/ handler.pc = "save" /\ handler.from = p /\ handler.found # book[p].cap]_syncVars

\* A peer listed as suspicious gets at most what the poll loop and the handler had
\* already decided to send: two messages.
SuspectGetsLittle == \A p \in Peers : p \in suspected => marked[p] <= 2

\* What the node holds of the peer is what it announces, or of a newer version than that.
Current(p) == book[p].known /\ (book[p].cap = peerCap[p] \/ book[p].cap.ver > peerCap[p].ver)

\* While the node listens, a peer that stays connected and is not suspected, even one
\* that only answers requests, is heard again and again: its current capability gets
\* into the store, unless it went back to an older version, which MergeCapabilities
\* never believes.
PeersAreHeard ==
  \A p \in Peers :
    <>[](p \in conn /\ p \notin suspected /\ listening = "yes") => []<>Current(p)
=============================================================================
