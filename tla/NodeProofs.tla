----------------------------- MODULE NodeProofs -----------------------------
(***************************************************************************)
(* Proofs about a node around its swaps: the peers' capabilities, the       *)
(* policy file, and what a swap costs.  Each section is about one module,   *)
(* with its own variables.                                                  *)
(***************************************************************************)
EXTENDS PeerSync, Policy, Admission, FiniteSetTheorems, TLAPS

\* A leaf is tried with Zenon, then with Z3; the leaves that need Z3 say so.
USE Zenon, SMT, SMTT(20)

-----------------------------------------------------------------------------
(***************************************************************************)
(* Peer synchronisation.  Three goroutines save whole records they read     *)
(* earlier; the type of what each of them holds, and that a stored          *)
(* capability has a version above 0, show that a version falls by an        *)
(* overlap only.  A count of what the poll loop and the handler have        *)
(* decided to send bounds what a suspected peer gets.                       *)
(***************************************************************************)

\* What a goroutine holds: a record of a known peer, a snapshot of the book, the poll
\* loop at a peer, a message, the handler about to save or to answer.
KnownPeer == [known : {TRUE}, cap : Cap, seen : {"fresh", "stale", "expired"}]

Snaps == UNION {[S -> KnownPeer] : S \in SUBSET Peers}

AnyPeer == CHOOSE p \in Peers : TRUE

PollRec == [pc : {"loop", "send", "save"}, force : BOOLEAN, known : SUBSET Peers,
            cur : Peers \cup {AnyPeer}, snap : Snaps]

Message == [from : Peers, request : BOOLEAN, cap : Cap]

Storing == [pc : {"save"}, from : Peers, request : BOOLEAN, cap : Cap, found : Cap \cup {NoCap}]

Answering == [pc : {"answer"}, from : Peers]

\* While it sends or saves, the poll loop is at a peer of its snapshot.
SyncTypeOK ==
  /\ peerCap \in [Peers -> Cap]
  /\ conn \subseteq Peers
  /\ book \in [Peers -> PeerRecord]
  /\ poll \in {IdlePoll} \cup PollRec
  /\ poll.pc \in {"send", "save"} => poll.cur \in ToVisit
  /\ handler \in {IdleHandler} \cup Storing \cup Answering
  /\ inbox \in Seq(Message)

\* Messages to p that the poll loop and the handler have decided to send.
Decided(p) ==
  (IF poll.pc = "send" /\ poll.cur = p THEN 1 ELSE 0)
  + (IF handler.pc \in {"save", "answer"} /\ handler.from = p THEN 1 ELSE 0)

\* Nothing is counted twice: what p got and what is decided for it stays within the bound.
MarkInv ==
  /\ marked \in [Peers -> Nat]
  /\ \A p \in Peers : p \in suspected => marked[p] + Decided(p) <= 2

\* A snapshot is a record for each of its peers.
LEMMA SnapFacts ==
  ASSUME NEW f \in Snaps
  PROVE  /\ DOMAIN f \subseteq Peers
         /\ \A q \in DOMAIN f : f[q] \in KnownPeer
         /\ \A p : [q \in DOMAIN f \ {p} |-> f[q]] \in Snaps
         /\ \A p \in DOMAIN f, r \in KnownPeer : [f EXCEPT ![p] = r] \in Snaps
<1>1. PICK S \in SUBSET Peers : f \in [S -> KnownPeer]
  BY DEF Snaps
<1>2. \A p : [q \in DOMAIN f \ {p} |-> f[q]] \in [S \ {p} -> KnownPeer] /\ S \ {p} \in SUBSET Peers
  BY <1>1
<1>3. \A p \in DOMAIN f, r \in KnownPeer : [f EXCEPT ![p] = r] \in [S -> KnownPeer]
  BY <1>1
<1> QED
  BY <1>1, <1>2, <1>3 DEF Snaps

\* Ageing a record keeps it one.
LEMMA OlderType ==
  ASSUME NEW r \in KnownPeer
  PROVE  Older(r) \in KnownPeer /\ Older(r).cap = r.cap
BY DEF Older, KnownPeer

\* A record is that of an unknown or of a known peer.
LEMMA PeerRecords == PeerRecord = {NoPeer} \cup KnownPeer
BY DEF PeerRecord, KnownPeer

\* A record that is known has all its fields.
LEMMA KnownRecord ==
  ASSUME SyncTypeOK, NEW p \in Peers, book[p].known
  PROVE  book[p] \in KnownPeer
BY PeerRecords, SMT, SMTT(20) DEF SyncTypeOK, NoPeer

\* The poll loop stays a record when it moves on.
LEMMA PollUpdates ==
  ASSUME NEW r \in PollRec, NEW p \in Peers, NEW c \in {"loop", "send", "save"}, NEW f \in Snaps
  PROVE  /\ [r EXCEPT !.pc = c] \in PollRec
         /\ [r EXCEPT !.pc = c, !.cur = p] \in PollRec
         /\ [r EXCEPT !.pc = c, !.snap = f] \in PollRec
         /\ [r EXCEPT !.snap = f] \in PollRec
BY DEF PollRec

\* So it does when it has visited a peer.
LEMMA VisitedType ==
  ASSUME poll \in PollRec, NEW p
  PROVE  Visited(p) \in PollRec /\ Visited(p).pc = "loop"
<1>1. poll.snap \in Snaps
  BY DEF PollRec
<1>2. [q \in ToVisit \ {p} |-> poll.snap[q]] \in Snaps
  BY <1>1, SnapFacts DEF ToVisit
<1>3. Visited(p) = [poll EXCEPT !.pc = "loop", !.snap = [q \in ToVisit \ {p} |-> poll.snap[q]]]
  BY DEF Visited
<1> HIDE DEF Visited
<1> QED
  BY <1>2, <1>3 DEF PollRec

\* A loop or a handler at work is not the idle one.
LEMMA NotIdle ==
  ASSUME SyncTypeOK, poll.pc # "idle"
  PROVE  poll \in PollRec /\ poll.snap \in Snaps
BY SMT, SMTT(20) DEF SyncTypeOK, IdlePoll, PollRec

\* Every step keeps the types.
LEMMA SyncStep ==
  ASSUME SyncTypeOK, [SyncNext]_syncVars
  PROVE  SyncTypeOK'
<1>1. ASSUME UNCHANGED <<book, poll, handler, inbox>>, peerCap' \in [Peers -> Cap], conn' \subseteq Peers
      PROVE  SyncTypeOK'
  BY <1>1 DEF SyncTypeOK, ToVisit
<1>2. CASE InitialSync \/ Subscribe \/ StreamEnds \/ ListConnected \/ UNCHANGED syncVars
  BY <1>1, <1>2
  DEF InitialSync, Subscribe, StreamEnds, ListConnected, world, syncVars, SyncTypeOK,
     Surroundings
<1>3. ASSUME NEW force \in BOOLEAN, PollPeers(force)
      PROVE  SyncTypeOK'
  <2> DEFINE known == {p \in Peers : book[p].known}
  <2>1. [p \in known |-> book[p]] \in [known -> KnownPeer] /\ known \in SUBSET Peers
    BY KnownRecord
  <2>2. [p \in known |-> book[p]] \in Snaps
    BY <2>1 DEF Snaps
  <2>3. poll' = [pc |-> "loop", force |-> force, known |-> known, cur |-> AnyPeer,
                 snap |-> [p \in known |-> book[p]]]
    BY <1>3 DEF PollPeers, AnyPeer
  <2>4. poll' \in PollRec /\ poll'.pc = "loop"
    BY <2>1, <2>2, <2>3 DEF PollRec
  <2> QED
    BY <1>3, <2>4 DEF PollPeers, SyncTypeOK, world
<1>4. ASSUME NEW p \in Peers, NEW due \in BOOLEAN, PollPeer(p, due)
      PROVE  SyncTypeOK'
  <2>1. poll \in PollRec /\ p \in ToVisit /\ poll.snap \in Snaps
    BY <1>4, NotIdle DEF PollPeer
  <2>2. CASE poll' = [poll EXCEPT !.pc = "send", !.cur = p]
    <3>1. poll' \in PollRec /\ poll'.cur = p /\ poll'.snap = poll.snap
      <4>1. poll' \in PollRec
        BY <2>1, <2>2, PollUpdates
      <4>2. poll'.cur = p /\ poll'.snap = poll.snap
        BY <2>1, <2>2 DEF PollRec
      <4> QED
        BY <4>1, <4>2
    <3> QED
      BY <1>4, <2>1, <3>1 DEF PollPeer, SyncTypeOK, world, ToVisit
  <2>3. CASE poll' = Visited(p)
    BY <1>4, <2>1, <2>3, VisitedType DEF PollPeer, SyncTypeOK, world
  <2> QED
    BY <1>4, <2>2, <2>3 DEF PollPeer
<1>5. CASE PollSend
  <2>1. poll \in PollRec /\ poll.cur \in ToVisit /\ poll.snap \in Snaps
    BY <1>5, NotIdle DEF PollSend, SyncTypeOK
  <2>2. CASE poll' = [poll EXCEPT !.pc = "save"]
    <3>1. poll' \in PollRec /\ poll'.cur = poll.cur /\ poll'.snap = poll.snap
      BY <2>1, <2>2 DEF PollRec
    <3> QED
      BY <1>5, <2>1, <3>1 DEF PollSend, SyncTypeOK, world, ToVisit
  <2>3. CASE poll' = Visited(poll.cur)
    BY <1>5, <2>1, <2>3, VisitedType DEF PollSend, SyncTypeOK, world
  <2> QED
    BY <1>5, <2>2, <2>3 DEF PollSend
<1>6. CASE PollSave
  <2>1. poll \in PollRec /\ poll.cur \in ToVisit /\ poll.snap \in Snaps
    BY <1>6, NotIdle DEF PollSave, SyncTypeOK
  <2>2. poll.snap[poll.cur] \in PeerRecord
    BY <2>1, SnapFacts, PeerRecords DEF ToVisit
  <2>3. book' \in [Peers -> PeerRecord]
    BY <1>6, <2>2 DEF PollSave, SyncTypeOK
  <2> QED
    BY <1>6, <2>1, <2>3, VisitedType DEF PollSave, SyncTypeOK, world
<1>7. CASE RequestUnknown
  BY <1>7 DEF RequestUnknown, SyncTypeOK, world, IdlePoll
<1>8. CASE HandleMessage
  <2> DEFINE m == Head(inbox)
  <2>1. m \in Message /\ inbox' \in Seq(Message)
    BY <1>8, SMT, SMTT(20) DEF HandleMessage, SyncTypeOK
  <2>2. \/ handler' = IdleHandler
        \/ handler' = [pc |-> "save", from |-> m.from, request |-> m.request, cap |-> m.cap,
                       found |-> IF book[m.from].known THEN book[m.from].cap ELSE NoCap]
    BY <1>8 DEF HandleMessage
  <2>3. /\ m.from \in Peers /\ m.request \in BOOLEAN /\ m.cap \in Cap
        /\ book[m.from].known => book[m.from].cap \in Cap
    BY <2>1, KnownRecord DEF Message, KnownPeer
  <2> HIDE DEF m
  <2>4. handler' \in {IdleHandler} \cup Storing
    BY <2>2, <2>3, SMT, SMTT(20) DEF Storing
  <2> QED
    BY <1>8, <2>1, <2>4 DEF HandleMessage, SyncTypeOK, world, ToVisit
<1>9. CASE StoreCapability
  <2>1. handler \in Storing
    BY <1>9, SMT, SMTT(20) DEF StoreCapability, SyncTypeOK, IdleHandler, Answering
  <2> DEFINE c == IF handler.found = NoCap THEN handler.cap
                  ELSE MergeCapabilities(handler.found, handler.cap)
  <2>2. c \in Cap /\ handler.from \in Peers
    BY <2>1 DEF Storing, MergeCapabilities
  <2> HIDE DEF c
  <2>3. [known |-> TRUE, seen |-> "fresh", cap |-> c] \in PeerRecord
    BY <2>2, PeerRecords DEF KnownPeer
  <2>4. book' = [book EXCEPT ![handler.from] = [known |-> TRUE, seen |-> "fresh", cap |-> c]]
    BY <1>9 DEF StoreCapability, c
  <2>5. book' \in [Peers -> PeerRecord]
    BY <2>3, <2>4 DEF SyncTypeOK
  <2>6. handler' \in {IdleHandler} \cup Answering
    BY <1>9, <2>2 DEF StoreCapability, Answering
  <2> QED
    BY <1>9, <2>5, <2>6 DEF StoreCapability, SyncTypeOK, world, ToVisit
<1>10. CASE AnswerRequest
  BY <1>10 DEF AnswerRequest, SyncTypeOK, world, ToVisit
<1>11. CASE CleanupExpired
  <2>1. book' \in [Peers -> PeerRecord]
    BY <1>11, PeerRecords DEF CleanupExpired, SyncTypeOK
  <2> QED
    BY <1>11, <2>1 DEF CleanupExpired, SyncTypeOK, world, ToVisit
<1>12. CASE RestartSync
  BY <1>12, SMT, SMTT(20) DEF RestartSync, SyncTypeOK, Surroundings, IdlePoll, IdleHandler
<1>13. ASSUME NEW p \in Peers, Age(p)
       PROVE  SyncTypeOK'
  <2>1. Older(book[p]) \in PeerRecord
    BY <1>13, KnownRecord, OlderType, PeerRecords DEF Age
  <2>2. book' \in [Peers -> PeerRecord]
    BY <1>13, <2>1 DEF Age, SyncTypeOK
  <2>3. CASE poll' = poll
    BY <1>13, <2>2, <2>3 DEF Age, SyncTypeOK, world, ToVisit
  <2>4. CASE poll.pc # "idle" /\ p \in ToVisit /\ poll' = [poll EXCEPT !.snap[p] = Older(@)]
    <3> DEFINE f == [poll.snap EXCEPT ![p] = Older(poll.snap[p])]
    <3>1. poll \in PollRec /\ poll.snap \in Snaps
      BY <2>4, NotIdle
    <3>2. f \in Snaps /\ DOMAIN f = DOMAIN poll.snap
      BY <2>4, <3>1, SnapFacts, OlderType DEF ToVisit
    <3>3. poll' = [poll EXCEPT !.snap = f]
      BY <2>4
    <3> HIDE DEF f
    <3>4. poll' \in PollRec /\ poll'.pc = poll.pc /\ poll'.cur = poll.cur /\ poll'.snap = f
      BY <3>1, <3>2, <3>3 DEF PollRec
    <3> QED
      BY <1>13, <2>2, <3>2, <3>4 DEF Age, SyncTypeOK, world, ToVisit
  <2> QED
    BY <1>13, <2>3, <2>4 DEF Age
<1>14. ASSUME NEW p \in Peers,
              RequestInterval(p) \/ Disconnect(p) \/ Connect(p) \/ Suspect(p)
              \/ \E c \in Cap : PeerChanges(p, c)
       PROVE  SyncTypeOK'
  BY <1>1, <1>14 DEF RequestInterval, Disconnect, Connect, Suspect, PeerChanges, Surroundings,
     world, SyncTypeOK
<1>15. ASSUME NEW p \in Peers, PeerAnswers(p) \/ \E r \in BOOLEAN : PeerSends(p, r)
       PROVE  SyncTypeOK'
  <2>1. PICK r \in BOOLEAN : Publish(p, r)
    BY <1>15 DEF PeerAnswers, PeerSends
  <2>2. [from |-> p, request |-> r, cap |-> peerCap[p]] \in Message
    BY DEF Message, SyncTypeOK
  <2>3. inbox' \in Seq(Message)
    BY <2>1, <2>2, SMT, SMTT(20) DEF Publish, SyncTypeOK
  <2> QED
    BY <1>15, <2>3 DEF PeerAnswers, PeerSends, SyncTypeOK, world, ToVisit
<1> QED
  BY <1>2, <1>3, <1>4, <1>5, <1>6, <1>7, <1>8, <1>9, <1>10, <1>11, <1>12, <1>13, <1>14, <1>15
     DEF SyncNext, CleanupLoop

\* The types hold in every state.
LEMMA SyncTypes == SyncSpec => []SyncTypeOK
<1>1. SyncInit => SyncTypeOK
  <2> SUFFICES ASSUME SyncInit
               PROVE  SyncTypeOK
    OBVIOUS
  <2>1. inbox \in Seq(Message) /\ poll.pc = "idle"
    BY SMT, SMTT(20) DEF SyncInit, IdlePoll
  <2> QED
    BY <2>1, PeerRecords DEF SyncInit, SyncTypeOK
<1>2. SyncTypeOK /\ [SyncNext]_syncVars => SyncTypeOK'
  BY SyncStep
<1> QED
  BY <1>1, <1>2, PTL DEF SyncSpec

\* Merging never lowers the version.
LEMMA MergeKeepsVersion ==
  ASSUME NEW c \in Cap, NEW d \in Cap
  PROVE  MergeCapabilities(c, d).ver >= c.ver /\ c # NoCap
<1>1. c.ver \in Nat \ {0} /\ d.ver \in Nat \ {0}
  BY SyncAssumption DEF Cap
<1>2. NoCap.ver = 0
  BY DEF NoCap
<1> QED
  BY <1>1, <1>2, SMT, SMTT(20) DEF MergeCapabilities

\* SavePeerState lowers the version stored for a peer only when the goroutine that saves
\* had read the record before another one wrote it.
THEOREM VersionsFallByOverlap == SyncSpec => VersionFallsOnlyByOverlap
<1>1. SyncTypeOK /\ [SyncNext]_syncVars
      => [\A p \in Peers :
            book[p].known /\ book'[p].known /\ book'[p].cap.ver < book[p].cap.ver
              => \/ poll.pc = "save" /\ poll.cur = p /\ poll.snap[p].cap # book[p].cap
                 \/ handler.pc = "save" /\ handler.from = p /\ handler.found # book[p].cap]_syncVars
  <2> SUFFICES ASSUME SyncTypeOK, [SyncNext]_syncVars, NEW p \in Peers, book[p].known, book'[p].known,
                      book'[p].cap.ver < book[p].cap.ver
               PROVE  \/ poll.pc = "save" /\ poll.cur = p /\ poll.snap[p].cap # book[p].cap
                      \/ handler.pc = "save" /\ handler.from = p /\ handler.found # book[p].cap
    OBVIOUS
  <2>1. book[p] \in KnownPeer /\ book[p].cap \in Cap /\ book[p].cap.ver \in Nat
    BY KnownRecord, SyncAssumption DEF KnownPeer, Cap
  <2>2. book'[p].cap # book[p].cap
    BY <2>1, SMT, SMTT(20)
  <2>3. CASE PollSave
    BY <2>2, <2>3 DEF PollSave, SyncTypeOK
  <2>4. CASE StoreCapability
    <3>1. handler \in Storing /\ handler.pc = "save"
      BY <2>4, SMT, SMTT(20) DEF StoreCapability, SyncTypeOK, IdleHandler, Answering
    <3>2. handler.from = p
      BY <2>2, <2>4 DEF StoreCapability, SyncTypeOK
    <3> SUFFICES ASSUME handler.found = book[p].cap
                 PROVE  FALSE
      BY <3>1, <3>2
    <3>3. handler.found # NoCap /\ handler.cap \in Cap
      BY <2>1, <3>1, MergeKeepsVersion DEF Storing
    <3>4. book'[p].cap = MergeCapabilities(book[p].cap, handler.cap)
      BY <2>4, <3>2, <3>3 DEF StoreCapability, SyncTypeOK
    <3>5. book'[p].cap.ver >= book[p].cap.ver /\ book'[p].cap.ver \in Nat
      BY <2>1, <3>3, <3>4, MergeKeepsVersion, SyncAssumption DEF MergeCapabilities, Cap
    <3> QED
      BY <2>1, <3>5, SMT, SMTT(20)
  <2>5. CASE CleanupExpired
    BY <2>2, <2>5 DEF CleanupExpired, NoPeer
  <2>6. ASSUME NEW q \in Peers, Age(q)
        PROVE  FALSE
    BY <2>1, <2>2, <2>6, OlderType DEF Age, SyncTypeOK
  <2>7. ASSUME book' = book
        PROVE  FALSE
    BY <2>2, <2>7
  <2> QED
    BY <2>3, <2>4, <2>5, <2>6, <2>7 DEF SyncNext, CleanupLoop, syncVars, world, Surroundings,
       InitialSync, Subscribe, PollPeers, PollPeer, PollSend, RequestUnknown, HandleMessage,
       AnswerRequest, ListConnected, StreamEnds, RestartSync, RequestInterval, PeerSends,
       PeerAnswers, PeerChanges, Disconnect, Connect, Suspect
<1> QED
  BY <1>1, SyncTypes, PTL DEF SyncSpec, VersionFallsOnlyByOverlap

-----------------------------------------------------------------------------
\* What a suspected peer gets.

\* A step that decides on nothing and sends nothing to a suspected peer.
LEMMA MarkKept ==
  ASSUME MarkInv, suspected' = suspected, marked' \in [Peers -> Nat],
         \A p \in Peers : p \in suspected => marked'[p] = marked[p] /\ Decided(p)' <= Decided(p),
         \A p \in Peers : Decided(p) \in Nat /\ Decided(p)' \in Nat
  PROVE  MarkInv'
BY SMT, SMTT(20) DEF MarkInv

\* At most two messages to a peer are decided at a time.
LEMMA DecidedType ==
  /\ \A p : Decided(p) \in 0..2
  /\ \A p : Decided(p)' \in 0..2
BY SMT, SMTT(20) DEF Decided

\* Sending to nobody who is suspected.
LEMMA SendKeeps ==
  ASSUME MarkInv, NEW P, NEW b, Send(P, b), P \cap suspected = {}
  PROVE  marked' = marked
BY DEF Send, MarkInv

\* Every step keeps the count.
LEMMA MarkStep ==
  ASSUME SyncTypeOK, MarkInv, [SyncNext]_syncVars
  PROVE  MarkInv'
<1>1. ASSUME suspected' = suspected, marked' = marked,
             \A p \in Peers : p \in suspected => Decided(p)' <= Decided(p)
      PROVE  MarkInv'
  <2>1. marked' \in [Peers -> Nat]
    BY <1>1 DEF MarkInv
  <2>2. \A p \in Peers : Decided(p) \in Nat /\ Decided(p)' \in Nat
    BY DecidedType, SMT, SMTT(20)
  <2> QED
    BY <1>1, <2>1, <2>2, MarkKept
<1>2. ASSUME poll' = poll, handler' = handler
      PROVE  \A p \in Peers : Decided(p)' <= Decided(p)
  <2>1. \A p \in Peers : Decided(p)' = Decided(p) /\ Decided(p) \in 0..2
    BY <1>2, DecidedType DEF Decided
  <2> QED
    BY <2>1, SMT, SMTT(20)
<1>3. CASE InitialSync
  <2>1. marked' = marked
    BY <1>3, SendKeeps DEF InitialSync
  <2> QED
    BY <1>1, <1>2, <1>3, <2>1 DEF InitialSync
<1>4. CASE Subscribe \/ ListConnected \/ CleanupExpired \/ StreamEnds \/ UNCHANGED syncVars
  BY <1>1, <1>2, <1>4
  DEF Subscribe, ListConnected, CleanupExpired, StreamEnds, SendNothing, world,
     syncVars
<1>5. CASE \/ \E force \in BOOLEAN : PollPeers(force)
           \/ PollSave
           \/ RestartSync
  <2>1. poll'.pc \in {"loop", "idle"} /\ (handler' = handler \/ handler'.pc = "idle")
    <3>1. ASSUME NEW force \in BOOLEAN, PollPeers(force)
          PROVE  poll'.pc = "loop" /\ handler' = handler
      BY <3>1 DEF PollPeers
    <3>2. CASE PollSave
      BY <3>2, NotIdle, VisitedType DEF PollSave
    <3>3. CASE RestartSync
      BY <3>3 DEF RestartSync, IdlePoll, IdleHandler
    <3> QED
      BY <1>5, <3>1, <3>2, <3>3
  <2>3. \A p \in Peers : Decided(p)' <= Decided(p)
    BY <2>1, SMT, SMTT(20) DEF Decided
  <2> QED
    BY <1>1, <1>5, <2>3 DEF PollPeers, PollSave, RestartSync, SendNothing, world
<1>6. CASE RequestUnknown
  <2>1. marked' = marked
    BY <1>6, SendKeeps DEF RequestUnknown
  <2>2. poll'.pc = "idle" /\ handler' = handler
    BY <1>6 DEF RequestUnknown, IdlePoll
  <2>3. \A p \in Peers : Decided(p)' <= Decided(p)
    BY <2>2, SMT, SMTT(20) DEF Decided
  <2> QED
    BY <1>1, <1>6, <2>1, <2>3 DEF RequestUnknown, world
<1>7. ASSUME NEW q \in Peers, NEW due \in BOOLEAN, PollPeer(q, due)
      PROVE  MarkInv'
  <2>1. poll \in PollRec
    BY <1>7, NotIdle DEF PollPeer
  <2>2. \/ poll'.pc = "send" /\ poll'.cur = q /\ q \notin suspected
        \/ poll'.pc = "loop"
    BY <1>7, <2>1, VisitedType DEF PollPeer, PollRec
  <2>3. \A p \in Peers : p \in suspected => Decided(p)' <= Decided(p)
    BY <1>7, <2>2, SMT, SMTT(20) DEF PollPeer, Decided
  <2> QED
    BY <1>1, <1>7, <2>3 DEF PollPeer, SendNothing, world
<1>8. CASE PollSend
  <2>1. poll \in PollRec /\ poll.pc = "send" /\ handler' = handler /\ suspected' = suspected
    BY <1>8, NotIdle DEF PollSend, world
  <2>2. poll'.pc \in {"save", "loop"}
    BY <1>8, <2>1, VisitedType DEF PollSend, PollRec
  <2>3. marked \in [Peers -> Nat]
    BY DEF MarkInv
  <2>4. /\ marked' \in [Peers -> Nat]
        /\ \A p \in Peers : marked'[p] <= IF p = poll.cur THEN marked[p] + 1 ELSE marked[p]
    BY <1>8, <2>3, SMT, SMTT(20) DEF PollSend, Send, SendNothing
  <2>5. \A p \in Peers : Decided(p)' = IF p = poll.cur THEN Decided(p) - 1 ELSE Decided(p)
    BY <2>1, <2>2, SMT, SMTT(20) DEF Decided
  <2>6. \A p \in Peers : Decided(p) \in 0..2
    BY DecidedType
  <2> QED
    BY <2>1, <2>3, <2>4, <2>5, <2>6, SMT, SMTT(20) DEF MarkInv
<1>9. CASE HandleMessage
  <2>1. poll' = poll /\ handler.pc = "idle"
        /\ (handler'.pc = "idle" \/ (handler'.pc = "save" /\ handler'.from \notin suspected))
    BY <1>9 DEF HandleMessage, IdleHandler
  <2>2. \A p \in Peers : p \in suspected => Decided(p)' <= Decided(p)
    BY <2>1, SMT, SMTT(20) DEF Decided
  <2> QED
    BY <1>1, <1>9, <2>2 DEF HandleMessage, SendNothing, world
<1>10. CASE StoreCapability
  <2>1. poll' = poll /\ handler.pc = "save"
        /\ (handler'.pc = "idle" \/ (handler'.pc = "answer" /\ handler'.from = handler.from))
    BY <1>10 DEF StoreCapability, IdleHandler
  <2>2. \A p \in Peers : Decided(p)' <= Decided(p)
    BY <2>1, SMT, SMTT(20) DEF Decided
  <2> QED
    BY <1>1, <1>10, <2>2 DEF StoreCapability, SendNothing, world
<1>11. CASE AnswerRequest
  <2>1. /\ poll' = poll /\ handler.pc = "answer" /\ handler'.pc = "idle"
        /\ suspected' = suspected
    BY <1>11 DEF AnswerRequest, IdleHandler, world
  <2>2. marked \in [Peers -> Nat]
    BY DEF MarkInv
  <2>3. /\ marked' \in [Peers -> Nat]
        /\ \A p \in Peers : marked'[p] <= IF p = handler.from THEN marked[p] + 1 ELSE marked[p]
    BY <1>11, <2>2, SMT, SMTT(20) DEF AnswerRequest, Send
  <2>4. \A p \in Peers : Decided(p)' = IF p = handler.from THEN Decided(p) - 1 ELSE Decided(p)
    BY <2>1, SMT, SMTT(20) DEF Decided
  <2>5. \A p \in Peers : Decided(p) \in 0..2
    BY DecidedType
  <2> QED
    BY <2>1, <2>2, <2>3, <2>4, <2>5, SMT, SMTT(20) DEF MarkInv
<1>12. ASSUME NEW q \in Peers, Age(q)
       PROVE  MarkInv'
  <2>1. /\ poll' = poll \/ (poll \in PollRec /\ poll' = [poll EXCEPT !.snap[q] = Older(@)])
        /\ handler' = handler
    BY <1>12, NotIdle DEF Age
  <2>2. poll'.pc = poll.pc /\ (poll.pc # "idle" => poll'.cur = poll.cur)
    BY <2>1 DEF PollRec
  <2>3. \A p \in Peers : Decided(p)' = Decided(p) /\ Decided(p) \in 0..2
    BY <2>1, <2>2, DecidedType DEF Decided
  <2> QED
    BY <1>1, <1>12, <2>3, SMT, SMTT(20) DEF Age, SendNothing, world
<1>13. ASSUME NEW q \in Peers,
              \/ RequestInterval(q) \/ PeerAnswers(q) \/ Disconnect(q)
              \/ \E r \in BOOLEAN : PeerSends(q, r)
              \/ \E c \in Cap : PeerChanges(q, c)
       PROVE  MarkInv'
  BY <1>1, <1>2, <1>13 DEF RequestInterval, PeerAnswers, Disconnect, PeerSends, PeerChanges,
     SendNothing, world
<1>14. ASSUME NEW q \in Peers, Connect(q)
       PROVE  MarkInv'
  <2>1. marked' = marked
    BY <1>14, SendKeeps DEF Connect, RequestPoll, SendNothing
  <2> QED
    BY <1>1, <1>2, <1>14, <2>1 DEF Connect
<1>15. ASSUME NEW q \in Peers, Suspect(q)
       PROVE  MarkInv'
  <2>1. /\ marked' \in [Peers -> Nat] /\ marked'[q] = 0
        /\ \A p \in Peers \ {q} : marked'[p] = marked[p] /\ (p \in suspected' => p \in suspected)
    BY <1>15 DEF Suspect, MarkInv
  <2>2. \A p \in Peers : Decided(p)' = Decided(p) /\ Decided(p)' \in 0..2
    BY <1>15, DecidedType DEF Suspect, Decided
  <2> QED
    BY <2>1, <2>2, SMT, SMTT(20) DEF MarkInv
<1> QED
  BY <1>3, <1>4, <1>5, <1>6, <1>7, <1>8, <1>9, <1>10, <1>11, <1>12, <1>13, <1>14, <1>15
     DEF SyncNext, CleanupLoop

\* pollPeers and processMessage ask the policy before they decide to send, so that a peer
\* put on the list of suspicious peers gets two more messages at most.
THEOREM SuspectsGetLittle == SyncSpec => []SuspectGetsLittle
<1>1. SyncInit => MarkInv
  BY SMT, SMTT(20) DEF SyncInit, MarkInv
<1>2. SyncTypeOK /\ MarkInv /\ [SyncNext]_syncVars => MarkInv'
  BY MarkStep
<1>3. MarkInv => SuspectGetsLittle
  <2> SUFFICES ASSUME MarkInv, NEW p \in Peers, p \in suspected
               PROVE  marked[p] <= 2
    BY DEF SuspectGetsLittle
  <2>1. marked[p] \in Nat /\ marked[p] + Decided(p) <= 2 /\ Decided(p) \in 0..2
    BY DecidedType DEF MarkInv
  <2> QED
    BY <2>1, SMT, SMTT(20)
<1> QED
  BY <1>1, <1>2, <1>3, SyncTypes, PTL DEF SyncSpec

-----------------------------------------------------------------------------
(***************************************************************************)
(* The policy file.  Removing a line keeps every other line, in its order,  *)
(* and adding one at the end changes no other key; a thread that has read   *)
(* the file and was not overtaken by a writer holds what the file says.     *)
(***************************************************************************)

(* The lines of the file. *)

\* What a line of the file can be.
Line == [key : {"allow_new_swaps"}, value : BOOLEAN] \cup [key : Lists, value : Pubkeys]
          \cup {Garbled}

\* A finite set of numbers is counted by the rank of its members.
LEMMA Ranks ==
  ASSUME NEW n \in Nat, NEW S \in SUBSET (1..n)
  PROVE  /\ Cardinality(S) \in Nat
         /\ \A k \in S : Rank(S, k) \in 1..Cardinality(S)
         /\ \A j, k \in S : j < k => Rank(S, j) < Rank(S, k)
         /\ \A i \in 1..Cardinality(S) : \E k \in S : Rank(S, k) = i
<1> DEFINE Below(k) == {m \in S : m <= k}
<1>1. IsFiniteSet(S) /\ Cardinality(S) \in Nat
  <2>1. IsFiniteSet(1..n)
    BY FS_Interval, SMT, SMTT(20)
  <2>2. IsFiniteSet(S)
    BY <2>1, FS_Subset
  <2> QED BY <2>2, FS_CardinalityType
<1>2. ASSUME NEW k \in S
      PROVE  /\ IsFiniteSet(Below(k)) /\ Cardinality(Below(k)) \in Nat
             /\ Cardinality(Below(k)) <= Cardinality(S) /\ Cardinality(Below(k)) # 0
  <2>1. Below(k) \in SUBSET S /\ k \in Below(k)
    OBVIOUS
  <2>2. IsFiniteSet(Below(k)) /\ Cardinality(Below(k)) <= Cardinality(S)
    BY <1>1, <2>1, FS_Subset
  <2>3. Cardinality(Below(k)) \in Nat
    BY <2>2, FS_CardinalityType
  <2>4. Cardinality(Below(k)) # 0
    BY <2>1, <2>2, FS_EmptySet
  <2> QED BY <2>2, <2>3, <2>4
<1>3. \A k \in S : Rank(S, k) \in 1..Cardinality(S)
  BY <1>1, <1>2, SMT, SMTT(20) DEF Rank
<1>4. ASSUME NEW j \in S, NEW k \in S, j < k
      PROVE  Rank(S, j) < Rank(S, k)
  <2>1. Below(j) \in SUBSET Below(k) /\ k \notin Below(j) /\ k \in Below(k)
    <3>1. \A m \in S : m \in Nat
      OBVIOUS
    <3>2. \A m \in S : m <= j => m <= k
      BY <1>4, <3>1, SMT, SMTT(20)
    <3>3. ~(k <= j) /\ k <= k
      BY <1>4, <3>1, SMT, SMTT(20)
    <3> QED BY <3>2, <3>3
  <2>2. IsFiniteSet(Below(k))
    BY <1>2
  <2>3. Cardinality(Below(j)) <= Cardinality(Below(k)) /\ Cardinality(Below(j)) # Cardinality(Below(k))
    BY <2>1, <2>2, FS_Subset
  <2>4. Cardinality(Below(j)) \in Nat /\ Cardinality(Below(k)) \in Nat
    BY <1>2
  <2> QED BY <2>3, <2>4, SMT, SMTT(20) DEF Rank
<1>5. \A i \in 1..Cardinality(S) : \E k \in S : Rank(S, k) = i
  <2> DEFINE r == [k \in S |-> Rank(S, k)]
             T == 1..Cardinality(S)
  <2>1. r \in [S -> T]
    BY <1>3
  <2>2. \A j, k \in S : r[j] = r[k] => j = k
    <3>1. \A j, k \in S : j < k => r[j] < r[k]
      BY <1>4
    <3>2. \A j, k \in S : r[j] \in Nat /\ j \in Nat /\ (j < k \/ k < j \/ j = k)
      BY <1>1, <1>3, SMT, SMTT(20)
    <3> QED BY <3>1, <3>2, SMT, SMTT(20)
  <2>3. r \in Injection(S, T)
    BY <2>1, <2>2 DEF Injection, IsInjective
  <2>4. IsFiniteSet(T) /\ Cardinality(T) = Cardinality(S)
    BY <1>1, FS_Interval, SMT, SMTT(20)
  <2>5. r \in Surjection(S, T)
    BY <2>3, <2>4, FS_Injection
  <2>6. \A i \in T : \E k \in S : r[k] = i
    BY <2>5 DEF Surjection
  <2> QED BY <2>6
<1> QED BY <1>1, <1>3, <1>4, <1>5

\* The lines removeLineFromFile keeps.
Others(f, line) == {k \in DOMAIN f : f[k] # line}

\* Removing a line keeps the others, in their order: what stood at k is at its
\* rank among them.
LEMMA WithoutKeeps ==
  ASSUME NEW f \in Seq(Line), NEW line
  PROVE  LET g == Without(f, line)
             S == Others(f, line)
         IN  /\ g \in Seq(Line)
             /\ \A i \in DOMAIN g : Nth(S, i) \in S /\ g[i] = f[Nth(S, i)] /\ Rank(S, Nth(S, i)) = i
             /\ \A k \in S : Rank(S, k) \in DOMAIN g /\ g[Rank(S, k)] = f[k]
             /\ \A j, k \in S : Rank(S, j) <= Rank(S, k) <=> j <= k
<1> DEFINE S == Others(f, line)
           N == Cardinality(S)
           g == Without(f, line)
<1>1. Len(f) \in Nat /\ DOMAIN f = 1..Len(f) /\ S \in SUBSET (1..Len(f))
      /\ \A k \in DOMAIN f : f[k] \in Line
  BY SMT, SMTT(20) DEF Others
<1>2. /\ N \in Nat
      /\ \A k \in S : Rank(S, k) \in 1..N
      /\ \A j, k \in S : j < k => Rank(S, j) < Rank(S, k)
      /\ \A i \in 1..N : \E k \in S : Rank(S, k) = i
  <2> HIDE DEF S
  <2> QED BY <1>1, Ranks
<1>3. g = [i \in 1..N |-> f[Nth(S, i)]]
  BY DEF Without, Others
<1>a. \A k \in S : k \in DOMAIN f /\ k \in Nat
  BY <1>1, SMT, SMTT(20)
<1> HIDE DEF S, N, g
<1>b. \A k \in S : Rank(S, k) \in Nat
  BY <1>2, SMT, SMTT(20)
<1>4. \A j, k \in S : Rank(S, j) <= Rank(S, k) <=> j <= k
  <2>1. \A j, k \in S : j < k \/ j = k \/ k < j
    BY <1>a, SMT, SMTT(20)
  <2>2. ASSUME NEW j \in S, NEW k \in S
        PROVE  Rank(S, j) <= Rank(S, k) <=> j <= k
    <3>1. CASE j < k  BY <3>1, <1>2, <1>a, <1>b, SMT, SMTT(20)
    <3>2. CASE j = k  BY <3>2, <1>a, <1>b, SMT, SMTT(20)
    <3>3. CASE k < j  BY <3>3, <1>2, <1>a, <1>b, SMT, SMTT(20)
    <3> QED BY <2>1, <3>1, <3>2, <3>3
  <2> QED BY <2>2
<1>5. \A i \in 1..N : Nth(S, i) \in S /\ Rank(S, Nth(S, i)) = i
  BY <1>2 DEF Nth
<1>6. DOMAIN g = 1..N /\ \A i \in 1..N : g[i] = f[Nth(S, i)]
  BY <1>3
<1>7. g \in Seq(Line)
  <2>1. \A i \in 1..N : f[Nth(S, i)] \in Line
    BY <1>1, <1>5, <1>a
  <2>2. g \in [1..N -> Line]
    BY <1>3, <2>1
  <2> QED BY <1>2, <2>2, SMT, SMTT(20)
<1>8. \A k \in S : Nth(S, Rank(S, k)) = k
  <2> TAKE k \in S
  <2> DEFINE j == Nth(S, Rank(S, k))
  <2>1. j \in S /\ Rank(S, j) = Rank(S, k)
    BY <1>2, <1>5
  <2> HIDE DEF j
  <2>2. j <= k /\ k <= j
    BY <2>1, <1>4, <1>b, SMT, SMTT(20)
  <2>3. j = k
    BY <2>1, <2>2, <1>a, SMT, SMTT(20)
  <2> QED BY <2>3 DEF j
<1>9. \A k \in S : Rank(S, k) \in DOMAIN g /\ g[Rank(S, k)] = f[k]
  BY <1>2, <1>6, <1>8
<1>10. \A i \in DOMAIN g : Nth(S, i) \in S /\ g[i] = f[Nth(S, i)] /\ Rank(S, Nth(S, i)) = i
  BY <1>5, <1>6
<1> QED BY <1>4, <1>7, <1>9, <1>10 DEF S, g

\* Removing a line that sets something else leaves what the file says of
\* allow_new_swaps, and a line that does not parse.
LEMMA WithoutAllow ==
  ASSUME NEW f \in Seq(Line), NEW line,
         line.key \notin {"allow_new_swaps", "garbled"}
  PROVE  /\ AllowOf(Without(f, line)) <=> AllowOf(f)
         /\ Parses(Without(f, line)) => Parses(f)
<1> DEFINE S == Others(f, line)
           g == Without(f, line)
<1>1. /\ g \in Seq(Line)
      /\ \A i \in DOMAIN g : Nth(S, i) \in S /\ g[i] = f[Nth(S, i)] /\ Rank(S, Nth(S, i)) = i
      /\ \A k \in S : Rank(S, k) \in DOMAIN g /\ g[Rank(S, k)] = f[k]
      /\ \A j, k \in S : Rank(S, j) <= Rank(S, k) <=> j <= k
  BY WithoutKeeps
<1>2. AllowLines(f) \subseteq S /\ \A k \in S : k \in DOMAIN f
  BY DEF AllowLines, Others
<1>3. \A k \in DOMAIN f : f[k] = Garbled => k \in S
  BY SMT, SMTT(20) DEF Others, Garbled
<1> HIDE DEF S, g
<1>4. \A k \in AllowLines(f) : Rank(S, k) \in AllowLines(g) /\ g[Rank(S, k)] = f[k]
  BY <1>1, <1>2 DEF AllowLines
<1>5. \A i \in AllowLines(g) : /\ Nth(S, i) \in AllowLines(f) /\ Rank(S, Nth(S, i)) = i
                               /\ g[i] = f[Nth(S, i)]
  BY <1>1, <1>2 DEF AllowLines
<1>6. \A j, k \in AllowLines(f) : Rank(S, j) <= Rank(S, k) <=> j <= k
  BY <1>1, <1>2
<1>7. AllowOf(g) => AllowOf(f)
  <2>1. CASE AllowLines(g) = {}
    BY <2>1, <1>4 DEF AllowOf
  <2>2. ASSUME NEW i \in AllowLines(g), g[i].value, \A m \in AllowLines(g) : m <= i
        PROVE  AllowOf(f)
    <3>1. \A m \in AllowLines(f) : m <= Nth(S, i)
      BY <2>2, <1>4, <1>5, <1>6, SMT, SMTT(20)
    <3> QED BY <2>2, <3>1, <1>5 DEF AllowOf
  <2> QED BY <2>1, <2>2 DEF AllowOf
<1>8. AllowOf(f) => AllowOf(g)
  <2>1. CASE AllowLines(f) = {}
    BY <2>1, <1>5 DEF AllowOf
  <2>2. ASSUME NEW k \in AllowLines(f), f[k].value, \A m \in AllowLines(f) : m <= k
        PROVE  AllowOf(g)
    <3>1. \A i \in AllowLines(g) : i <= Rank(S, k)
      BY <2>2, <1>5, <1>6, SMT, SMTT(20)
    <3> QED BY <2>2, <3>1, <1>4 DEF AllowOf
  <2> QED BY <2>1, <2>2 DEF AllowOf
<1>9. Parses(g) => Parses(f)
  BY <1>1, <1>3 DEF Parses
<1> QED BY <1>7, <1>8, <1>9 DEF g

\* An appended line comes last.
LEMMA AppendAllow ==
  ASSUME NEW f \in Seq(Line), NEW line \in Line
  PROVE  /\ Append(f, line) \in Seq(Line)
         /\ Parses(Append(f, line)) => Parses(f)
         /\ line.key # "allow_new_swaps" => (AllowOf(Append(f, line)) <=> AllowOf(f))
         /\ line = AllowLine(TRUE) => AllowOf(Append(f, line))
         /\ line = AllowLine(FALSE) => ~AllowOf(Append(f, line))
<1> DEFINE g == Append(f, line)
           n == Len(f)
<1>1. /\ g \in Seq(Line) /\ n \in Nat /\ DOMAIN f = 1..n /\ DOMAIN g = 1..(n + 1)
      /\ g[n + 1] = line /\ \A k \in 1..n : g[k] = f[k]
  OBVIOUS
<1> HIDE DEF g, n
<1>2. Parses(g) => Parses(f)
  BY <1>1, SMT, SMTT(20) DEF Parses
<1>3. ASSUME line.key # "allow_new_swaps"
      PROVE  AllowOf(g) <=> AllowOf(f)
  <2>1. AllowLines(g) = AllowLines(f)
    BY <1>1, <1>3, SMT, SMTT(20) DEF AllowLines
  <2>2. \A k \in AllowLines(f) : g[k] = f[k]
    BY <1>1 DEF AllowLines
  <2> QED BY <2>1, <2>2 DEF AllowOf
<1>4. line.key = "allow_new_swaps" =>
        n + 1 \in AllowLines(g) /\ \A k \in AllowLines(g) : k <= n + 1 /\ (n + 1 <= k => k = n + 1)
  BY <1>1, SMT, SMTT(20) DEF AllowLines
<1>5. line = AllowLine(TRUE) => AllowOf(g)
  <2> SUFFICES ASSUME line = AllowLine(TRUE) PROVE AllowOf(g)
    OBVIOUS
  <2>1. line.key = "allow_new_swaps" /\ line.value = TRUE
    BY DEF AllowLine
  <2>2. n + 1 \in AllowLines(g) /\ g[n + 1].value /\ \A k \in AllowLines(g) : k <= n + 1
    BY <2>1, <1>1, <1>4
  <2> QED BY <2>2 DEF AllowOf
<1>6. line = AllowLine(FALSE) => ~AllowOf(g)
  <2> SUFFICES ASSUME line = AllowLine(FALSE) PROVE ~AllowOf(g)
    OBVIOUS
  <2>1. line.key = "allow_new_swaps" /\ line.value = FALSE
    BY DEF AllowLine
  <2>2. n + 1 \in AllowLines(g)
    BY <2>1, <1>4
  <2>3. \A k \in AllowLines(g) : (\A m \in AllowLines(g) : m <= k) => ~g[k].value
    BY <2>1, <2>2, <1>1, <1>4
  <2> QED BY <2>2, <2>3 DEF AllowOf
<1> QED BY <1>1, <1>2, <1>3, <1>5, <1>6 DEF g

-----------------------------------------------------------------------------
(* The threads, the settings and the file. *)

\* What reading a file gives, and what a thread can be doing.
Read == {Parse(f) : f \in Seq(Line)}

Thread == [op : {"idle", "disable", "enable", "add", "remove", "reload"},
           pc : {"idle", "remove", "append", "open", "assign", "reopen"},
           list : Lists \cup {"none"}, peer : Pubkeys \cup {"none"},
           read : Read, clean : BOOLEAN]

\* The types, and what a command is about when it writes.  An open last line is
\* a line.
PolicyTypeOK ==
  /\ file \in Seq(Line) /\ newline \in BOOLEAN /\ (newline \/ Len(file) # 0)
  /\ cmd \in Thread /\ reloader \in Thread
  /\ cmd.pc = "remove" => cmd.op \in {"disable", "enable", "remove"}
  /\ cmd.pc = "append" =>
       \/ cmd.op \in {"disable", "enable"}
       \/ cmd.op = "add" /\ cmd.list \in Lists /\ cmd.peer \in Pubkeys

\* A thread that nothing has overtaken holds what the file says.
UpToDate(t) == t.pc = "assign" /\ t.clean => t.read = Parse(file)

\* So do the settings, unless they are suspect.
ReadInv ==
  /\ UpToDate(cmd) /\ UpToDate(reloader)
  /\ polUp /\ ~suspect => settings = Parse(file)

\* The idle thread.
LEMMA Idle ==
  /\ NoThread \in Thread /\ NoThread.pc = "idle" /\ NoThread.op = "idle"
  /\ \A o, c : [NoThread EXCEPT !.op = o, !.pc = c].pc = c
<1>1. <<>> \in Seq(Line)
  OBVIOUS
<1>2. Parse(<<>>) \in Read
  BY <1>1 DEF Read
<1> QED BY <1>2 DEF NoThread, Thread

\* A thread that is overtaken goes on, but no longer holds what the file says.
LEMMA OvertakenFacts ==
  ASSUME NEW t \in Thread
  PROVE  /\ Overtaken(t) \in Thread /\ Overtaken(t).pc = t.pc
         /\ Overtaken(t).op = t.op /\ Overtaken(t).list = t.list /\ Overtaken(t).peer = t.peer
         /\ Overtaken(t).pc = "assign" => ~Overtaken(t).clean
<1>1. CASE t.pc # "assign"
  BY <1>1 DEF Overtaken
<1>2. CASE t.pc = "assign"
  <2>1. Overtaken(t) = [t EXCEPT !.clean = FALSE]
    BY <1>2 DEF Overtaken
  <2> QED BY <2>1, <1>2 DEF Thread
<1> QED BY <1>1, <1>2

\* A thread that has read the file holds what it says.
LEMMA AfterReadFacts ==
  ASSUME NEW t \in Thread, file \in Seq(Line)
  PROVE  /\ AfterRead(t) \in Thread /\ AfterRead(t).pc \in {"assign", "idle"}
         /\ AfterRead(t).pc = "assign" => AfterRead(t).read = Parse(file)
<1> DEFINE u == [t EXCEPT !.pc = "assign", !.read = Parse(file), !.clean = TRUE]
<1>1. Parse(file) \in Read
  BY DEF Read
<1>2. u \in Thread /\ u.pc = "assign" /\ u.read = Parse(file)
  BY <1>1 DEF Thread
<1>3. AfterRead(t) = u \/ AfterRead(t) = NoThread
  BY DEF AfterRead
<1> HIDE DEF u
<1> QED BY <1>2, <1>3, Idle

-----------------------------------------------------------------------------
(* The steps. *)

\* What starts a command.
LEMMA BeginFacts ==
  ASSUME PolicyTypeOK, NEW op, NEW c, NEW l, NEW p, Begin(op, c, l, p),
         op \in {"disable", "enable", "add", "remove"}, c \in {"remove", "append"},
         l \in Lists \cup {"none"}, p \in Pubkeys \cup {"none"}
  PROVE  /\ cmd' \in Thread /\ cmd'.op = op /\ cmd'.pc = c /\ cmd'.list = l /\ cmd'.peer = p
         /\ UNCHANGED <<file, newline, settings, path, polUp, reloader, suspect, decreed>>
<1>1. cmd' = [NoThread EXCEPT !.op = op, !.pc = c, !.list = l, !.peer = p]
  BY DEF Begin
<1>2. NoThread \in Thread
  BY Idle
<1>3. cmd' \in Thread /\ cmd'.op = op /\ cmd'.pc = c /\ cmd'.list = l /\ cmd'.peer = p
  BY <1>1, <1>2 DEF Thread
<1> QED BY <1>3 DEF Begin, memory

\* A command that starts.
Begins ==
  \/ DisableSwaps \/ EnableSwaps
  \/ \E l \in Lists, p \in Pubkeys : AddToList(l, p) \/ RemoveFromList(l, p)

\* The five ways a call begins.
LEMMA BeginsFacts ==
  ASSUME PolicyTypeOK, Begins
  PROVE  /\ PolicyTypeOK' /\ cmd'.pc # "assign"
         /\ UNCHANGED <<file, newline, settings, path, polUp, reloader, suspect, decreed>>
<1>1. CASE DisableSwaps \/ EnableSwaps
  <2>1. PICK op \in {"disable", "enable"} : Begin(op, "remove", "none", "none")
    BY <1>1 DEF DisableSwaps, EnableSwaps
  <2>2. /\ cmd' \in Thread /\ cmd'.op = op /\ cmd'.pc = "remove"
        /\ UNCHANGED <<file, newline, settings, path, polUp, reloader, suspect, decreed>>
    BY <2>1, BeginFacts
  <2> QED BY <2>2 DEF PolicyTypeOK
<1>2. ASSUME NEW l \in Lists, NEW p \in Pubkeys, AddToList(l, p)
      PROVE  /\ PolicyTypeOK' /\ cmd'.pc # "assign"
             /\ UNCHANGED <<file, newline, settings, path, polUp, reloader, suspect, decreed>>
  <2>1. Begin("add", "append", l, p)
    BY <1>2 DEF AddToList
  <2>2. /\ cmd' \in Thread /\ cmd'.op = "add" /\ cmd'.pc = "append" /\ cmd'.list = l /\ cmd'.peer = p
        /\ UNCHANGED <<file, newline, settings, path, polUp, reloader, suspect, decreed>>
    BY <2>1, BeginFacts
  <2> QED BY <2>2 DEF PolicyTypeOK
<1>3. ASSUME NEW l \in Lists, NEW p \in Pubkeys, RemoveFromList(l, p)
      PROVE  /\ PolicyTypeOK' /\ cmd'.pc # "assign"
             /\ UNCHANGED <<file, newline, settings, path, polUp, reloader, suspect, decreed>>
  <2>1. Begin("remove", "remove", l, p)
    BY <1>3 DEF RemoveFromList
  <2>2. /\ cmd' \in Thread /\ cmd'.op = "remove" /\ cmd'.pc = "remove"
        /\ UNCHANGED <<file, newline, settings, path, polUp, reloader, suspect, decreed>>
    BY <2>1, BeginFacts
  <2> QED BY <2>2 DEF PolicyTypeOK
<1> QED BY <1>1, <1>2, <1>3 DEF Begins

\* The lines a command writes are lines.
LEMMA NewLineType ==
  ASSUME PolicyTypeOK, cmd.pc = "append"
  PROVE  /\ NewLine \in Line
         /\ cmd.op = "disable" => NewLine = AllowLine(FALSE)
         /\ cmd.op = "enable" => NewLine = AllowLine(TRUE)
         /\ cmd.op \notin {"disable", "enable"} => NewLine.key # "allow_new_swaps"
<1>1. CASE cmd.op = "disable"
  BY <1>1 DEF NewLine, AllowLine, Line
<1>2. CASE cmd.op = "enable"
  BY <1>2 DEF NewLine, AllowLine, Line
<1>3. CASE cmd.op \notin {"disable", "enable"}
  <2>1. cmd.list \in Lists /\ cmd.peer \in Pubkeys /\ NewLine = ListLine(cmd.list, cmd.peer)
    BY <1>3 DEF NewLine, PolicyTypeOK
  <2>2. cmd.list # "allow_new_swaps"
    BY <2>1, PolicyAssumption
  <2> QED BY <1>3, <2>1, <2>2 DEF ListLine, Line
<1> QED BY <1>1, <1>2, <1>3

\* AddLine appends its line, or spoils the file.
LEMMA AddLineFacts ==
  ASSUME PolicyTypeOK, AddLine
  PROVE  /\ file' \in Seq(Line)
         /\ file' = Append(file, NewLine) \/ ~Parses(file)'
<1>1. CASE newline
  <2>1. file' = Append(file, NewLine)
    BY <1>1 DEF AddLine, Written
  <2>2. NewLine \in Line /\ file \in Seq(Line)
    BY NewLineType DEF AddLine, PolicyTypeOK
  <2> QED BY <2>1, <2>2, SMT, SMTT(20)
<1>2. CASE ~newline
  <2>1. file' = [file EXCEPT ![Len(file)] = Garbled]
    BY <1>2 DEF AddLine, Written
  <2>2. file \in Seq(Line) /\ Len(file) # 0 /\ Garbled \in Line
    BY <1>2 DEF PolicyTypeOK, Line
  <2>3. Len(file) \in DOMAIN file
    BY <2>2, SMT, SMTT(20)
  <2>4. file' \in Seq(Line) /\ Len(file) \in DOMAIN file' /\ file'[Len(file)] = Garbled
    BY <2>1, <2>2, <2>3, SMT, SMTT(20)
  <2> QED BY <2>4 DEF Parses
<1> QED BY <1>1, <1>2 DEF PolicyTypeOK

\* Every step keeps the types.
LEMMA PolicyTypeStep ==
  ASSUME PolicyTypeOK, PolicyNext
  PROVE  PolicyTypeOK'
<1>a. /\ file \in Seq(Line) /\ newline \in BOOLEAN /\ (newline \/ Len(file) # 0)
      /\ cmd \in Thread /\ reloader \in Thread
  BY DEF PolicyTypeOK
<1>b. NoThread \in Thread /\ NoThread.pc = "idle"
  BY Idle
<1>1. CASE Begins
  BY <1>1, BeginsFacts
<1>2. CASE RemoveLine
  <2>1. file' \in Seq(Line) /\ newline' = TRUE /\ reloader' \in Thread
    <3>1. file' = Without(file, OldLine) /\ newline' = TRUE /\ reloader' = Overtaken(reloader)
      BY <1>2 DEF RemoveLine, Written
    <3> QED BY <3>1, <1>a, WithoutKeeps, OvertakenFacts
  <2>2. cmd' = [cmd EXCEPT !.pc = IF cmd.op = "remove" THEN "open" ELSE "append"]
        /\ cmd.op \in {"disable", "enable", "remove"}
    BY <1>2 DEF RemoveLine, PolicyTypeOK
  <2>3. cmd' \in Thread /\ cmd'.op = cmd.op /\ cmd'.pc = IF cmd.op = "remove" THEN "open" ELSE "append"
    BY <2>2, <1>a DEF Thread
  <2> QED BY <2>1, <2>2, <2>3, SMT, SMTT(20) DEF PolicyTypeOK
<1>3. CASE AddLine
  <2>1. file' \in Seq(Line) /\ newline' = TRUE /\ reloader' \in Thread
    <3>1. newline' = TRUE /\ reloader' = Overtaken(reloader)
      BY <1>3 DEF AddLine, Written
    <3> QED BY <3>1, <1>3, <1>a, AddLineFacts, OvertakenFacts
  <2>2. cmd' \in Thread /\ cmd'.pc = "open"
    BY <1>3, <1>a DEF AddLine, Thread
  <2> QED BY <2>1, <2>2 DEF PolicyTypeOK
<1>4. CASE CommandFails
  BY <1>4, <1>a, <1>b DEF CommandFails, memory, PolicyTypeOK
<1>5. CASE CmdRead
  <2>1. cmd' = AfterRead(cmd) /\ UNCHANGED <<file, newline, reloader>>
    BY <1>5 DEF CmdRead
  <2>2. cmd' \in Thread /\ cmd'.pc \in {"assign", "idle"}
    BY <2>1, <1>a, AfterReadFacts
  <2> QED BY <2>1, <2>2, <1>a DEF PolicyTypeOK
<1>6. CASE CmdAssign
  <2>1. cmd' = [NoThread EXCEPT !.op = cmd.op, !.pc = "reopen"] /\ UNCHANGED <<file, newline, reloader>>
    BY <1>6 DEF CmdAssign
  <2>2. cmd' \in Thread /\ cmd'.pc = "reopen"
    BY <2>1, <1>a, <1>b DEF Thread
  <2> QED BY <2>1, <2>2, <1>a DEF PolicyTypeOK
<1>7. CASE CmdReopen
  BY <1>7, <1>a, <1>b DEF CmdReopen, PolicyTypeOK
<1>8. CASE ReloadRead
  <2>1. reloader' = AfterRead([NoThread EXCEPT !.op = "reload"]) /\ UNCHANGED <<file, newline, cmd>>
    BY <1>8 DEF ReloadRead
  <2>2. [NoThread EXCEPT !.op = "reload"] \in Thread
    BY <1>b DEF Thread
  <2>3. reloader' \in Thread
    BY <2>1, <2>2, <1>a, AfterReadFacts
  <2> QED BY <2>1, <2>3 DEF PolicyTypeOK
<1>9. CASE ReloadAssign
  <2>1. /\ reloader' = [NoThread EXCEPT !.op = "reload", !.pc = "reopen"]
        /\ UNCHANGED <<file, newline, cmd>>
    BY <1>9 DEF ReloadAssign
  <2>2. reloader' \in Thread
    BY <2>1, <1>b DEF Thread
  <2> QED BY <2>1, <2>2 DEF PolicyTypeOK
<1>10. CASE ReloadReopen
  BY <1>10, <1>b DEF ReloadReopen, PolicyTypeOK
<1>11. CASE EditFile
  <2>1. PICK line \in {AllowLine(b) : b \in BOOLEAN} \cup {ListLine(l, p) : l \in Lists, p \in Pubkeys} :
          file' = Append(file, line)
    BY <1>11, SMT, SMTT(20) DEF EditFile
  <2>2. line \in Line
    BY <2>1, SMT, SMTT(20) DEF AllowLine, ListLine, Line
  <2>3. file' \in Seq(Line) /\ Len(file') # 0
    BY <2>1, <2>2, <1>a, SMT, SMTT(20)
  <2>4. newline' \in BOOLEAN /\ cmd' = Overtaken(cmd) /\ reloader' = Overtaken(reloader)
    BY <1>11, SMT, SMTT(20) DEF EditFile
  <2>5. /\ reloader' \in Thread /\ cmd' \in Thread /\ cmd'.pc = cmd.pc /\ cmd'.op = cmd.op
        /\ cmd'.list = cmd.list /\ cmd'.peer = cmd.peer
    BY <2>4, <1>a, OvertakenFacts, SMT, SMTT(20)
  <2> QED BY <2>3, <2>4, <2>5, SMT, SMTT(20) DEF PolicyTypeOK
<1>12. CASE StopPolicy
  <2>1. file' \in Seq(Line) /\ newline' \in BOOLEAN /\ (newline' \/ Len(file') # 0)
    <3>1. CASE UNCHANGED <<file, newline>>
      BY <3>1, <1>a
    <3>2. ASSUME NEW n \in 0 .. Len(Without(file, OldLine)), newline' = TRUE,
                 file' = SubSeq(Without(file, OldLine), 1, n)
          PROVE  file' \in Seq(Line)
      <4>1. Without(file, OldLine) \in Seq(Line)
        BY <1>a, WithoutKeeps
      <4> HIDE DEF Without
      <4> QED BY <3>2, <4>1, SMT, SMTT(20)
    <3> QED BY <3>1, <3>2, <1>12 DEF StopPolicy
  <2> QED BY <2>1, <1>12, <1>b DEF StopPolicy, PolicyTypeOK
<1> QED BY <1>1, <1>2, <1>3, <1>4, <1>5, <1>6, <1>7, <1>8, <1>9, <1>10, <1>11, <1>12
        DEF PolicyNext, Begins

\* Every step keeps it: a write overtakes what was read before it, and makes the
\* settings suspect until a thread assigns what it has read since.
LEMMA ReadStep ==
  ASSUME PolicyTypeOK, ReadInv, PolicyNext
  PROVE  ReadInv'
<1>a. file \in Seq(Line) /\ cmd \in Thread /\ reloader \in Thread
  BY DEF PolicyTypeOK
<1>b. NoThread \in Thread /\ NoThread.pc = "idle"
  BY Idle
<1>1. CASE Begins
  BY <1>1, BeginsFacts, SMT, SMTT(20) DEF ReadInv, UpToDate
<1>2. CASE RemoveLine \/ AddLine
  <2>1. suspect' = TRUE /\ reloader' = Overtaken(reloader)
    BY <1>2 DEF RemoveLine, AddLine, Written
  <2>2. cmd'.pc # "assign"
    BY <1>2, <1>a DEF RemoveLine, AddLine, Thread
  <2>3. reloader'.pc = "assign" => ~reloader'.clean
    BY <2>1, <1>a, OvertakenFacts
  <2> QED BY <2>1, <2>2, <2>3 DEF ReadInv, UpToDate
<1>3. CASE CommandFails
  BY <1>3, <1>b DEF CommandFails, memory, ReadInv, UpToDate
<1>4. CASE CmdRead
  <2>1. cmd' = AfterRead(cmd) /\ UNCHANGED <<file, settings, polUp, reloader, suspect>>
    BY <1>4 DEF CmdRead, memory
  <2>2. cmd'.pc = "assign" => cmd'.read = Parse(file)
    BY <2>1, <1>a, AfterReadFacts
  <2> QED BY <2>1, <2>2 DEF ReadInv, UpToDate
<1>5. CASE CmdAssign
  <2>1. /\ settings' = cmd.read /\ suspect' = ~cmd.clean /\ cmd.pc = "assign"
        /\ UNCHANGED <<file, polUp, reloader>>
    BY <1>5 DEF CmdAssign
  <2>2. cmd'.pc # "assign"
    BY <1>5, Idle DEF CmdAssign
  <2>3. suspect' \/ settings' = Parse(file)
    BY <2>1 DEF ReadInv, UpToDate
  <2> QED BY <2>1, <2>2, <2>3 DEF ReadInv, UpToDate
<1>6. CASE CmdReopen
  BY <1>6, <1>b DEF CmdReopen, ReadInv, UpToDate
<1>7. CASE ReloadRead
  <2>1. /\ reloader' = AfterRead([NoThread EXCEPT !.op = "reload"])
        /\ UNCHANGED <<file, settings, polUp, cmd, suspect>>
    BY <1>7 DEF ReloadRead, memory
  <2>2. [NoThread EXCEPT !.op = "reload"] \in Thread
    BY <1>b DEF Thread
  <2>3. reloader'.pc = "assign" => reloader'.read = Parse(file)
    BY <2>1, <2>2, <1>a, AfterReadFacts
  <2> QED BY <2>1, <2>3 DEF ReadInv, UpToDate
<1>8. CASE ReloadAssign
  <2>1. /\ settings' = reloader.read /\ suspect' = ~reloader.clean /\ reloader.pc = "assign"
        /\ UNCHANGED <<file, polUp, cmd>>
    BY <1>8 DEF ReloadAssign
  <2>2. reloader'.pc # "assign"
    BY <1>8, Idle DEF ReloadAssign
  <2>3. suspect' \/ settings' = Parse(file)
    BY <2>1 DEF ReadInv, UpToDate
  <2> QED BY <2>1, <2>2, <2>3 DEF ReadInv, UpToDate
<1>9. CASE ReloadReopen
  BY <1>9, <1>b DEF ReloadReopen, ReadInv, UpToDate
<1>10. CASE EditFile
  <2>1. suspect' = TRUE /\ cmd' = Overtaken(cmd) /\ reloader' = Overtaken(reloader)
    BY <1>10 DEF EditFile
  <2>2. /\ reloader'.pc = "assign" => ~reloader'.clean
        /\ cmd'.pc = "assign" => ~cmd'.clean
    BY <2>1, <1>a, OvertakenFacts
  <2> QED BY <2>1, <2>2 DEF ReadInv, UpToDate
<1>11. CASE StopPolicy
  BY <1>11, <1>b DEF StopPolicy, ReadInv, UpToDate
<1> QED BY <1>1, <1>2, <1>3, <1>4, <1>5, <1>6, <1>7, <1>8, <1>9, <1>10, <1>11
        DEF PolicyNext, Begins

\* A line about a list leaves what was decided; the lines of a command that
\* decides say what it decided.
LEMMA DecreeStep ==
  ASSUME PolicyTypeOK, DecreePersists, PolicyNext
  PROVE  DecreePersists'
<1>a. file \in Seq(Line) /\ cmd \in Thread
  BY DEF PolicyTypeOK
<1>1. CASE UNCHANGED <<file, decreed>>
  BY <1>1 DEF DecreePersists
<1>2. CASE decreed' = "none"
  BY <1>2 DEF DecreePersists
<1>3. CASE RemoveLine
  <2>1. CASE cmd.op # "remove"
    BY <2>1, <1>2, <1>3 DEF RemoveLine
  <2>2. CASE cmd.op = "remove"
    <3>1. file' = Without(file, OldLine) /\ decreed' = decreed /\ OldLine = ListLine(cmd.list, cmd.peer)
      BY <2>2, <1>3 DEF RemoveLine, Written, OldLine
    <3>2. OldLine.key \notin {"allow_new_swaps", "garbled"}
      BY <3>1, <1>a, PolicyAssumption DEF ListLine, Thread
    <3>3. (AllowOf(file') <=> AllowOf(file)) /\ (Parses(file') => Parses(file))
      BY <3>1, <3>2, <1>a, WithoutAllow
    <3> QED BY <3>1, <3>3 DEF DecreePersists
  <2> QED BY <2>1, <2>2
<1>4. CASE AddLine
  <2>1. CASE ~Parses(file')
    BY <2>1 DEF DecreePersists
  <2>2. CASE file' = Append(file, NewLine)
    <3>1. /\ NewLine \in Line
          /\ cmd.op = "disable" => NewLine = AllowLine(FALSE)
          /\ cmd.op = "enable" => NewLine = AllowLine(TRUE)
          /\ cmd.op \notin {"disable", "enable"} => NewLine.key # "allow_new_swaps"
      BY <1>4, NewLineType DEF AddLine
    <3>2. /\ cmd.op = "disable" => decreed' = "off" /\ ~AllowOf(file')
          /\ cmd.op = "enable" => decreed' = "on" /\ AllowOf(file')
          /\ cmd.op \notin {"disable", "enable"} =>
               decreed' = decreed /\ (AllowOf(file') <=> AllowOf(file))
          /\ Parses(file') => Parses(file)
      <4>1. /\ cmd.op = "disable" => decreed' = "off"
            /\ cmd.op = "enable" => decreed' = "on"
            /\ cmd.op \notin {"disable", "enable"} => decreed' = decreed
        BY <1>4 DEF AddLine
      <4> QED BY <4>1, <3>1, <2>2, <1>a, AppendAllow
    <3> QED BY <3>2 DEF DecreePersists
  <2> QED BY <2>1, <2>2, <1>4, AddLineFacts
<1>5. CASE EditFile
  <2>1. PICK line \in Line :
          /\ file' = Append(file, line)
          /\ decreed' = IF line.key = "allow_new_swaps" THEN "none" ELSE decreed
    <3>1. \A line \in {AllowLine(b) : b \in BOOLEAN} \cup {ListLine(l, p) : l \in Lists, p \in Pubkeys} :
            line \in Line
      BY SMT, SMTT(20) DEF AllowLine, ListLine, Line
    <3> QED BY <3>1, <1>5, SMT, SMTT(20) DEF EditFile
  <2>2. CASE line.key # "allow_new_swaps"
    <3>1. /\ AllowOf(Append(file, line)) <=> AllowOf(file)
          /\ Parses(Append(file, line)) => Parses(file)
      BY <2>2, <1>a, AppendAllow
    <3>2. file' = Append(file, line) /\ decreed' = decreed
      BY <2>1, <2>2
    <3> QED BY <3>1, <3>2 DEF DecreePersists
  <2> QED BY <2>1, <2>2, <1>2
<1>6. CASE Begins
  BY <1>1, <1>6, BeginsFacts
<1>7. CASE CommandFails \/ CmdRead \/ CmdAssign \/ CmdReopen
  BY <1>1, <1>7 DEF CommandFails, CmdRead, CmdAssign, CmdReopen
<1>8. CASE ReloadRead \/ ReloadAssign \/ ReloadReopen
  BY <1>1, <1>8 DEF ReloadRead, ReloadAssign, ReloadReopen
<1>9. CASE StopPolicy
  BY <1>1, <1>2, <1>9 DEF StopPolicy
<1> QED BY <1>3, <1>4, <1>5, <1>6, <1>7, <1>8, <1>9 DEF PolicyNext, Begins

\* The inductive invariant of the policy.
PolicyInv == PolicyTypeOK /\ ReadInv /\ DecreePersists

\* The invariant holds in every state.
LEMMA PolicyInvariance == PolicySpec => []PolicyInv
<1>1. PolicyInit => PolicyInv
  <2> SUFFICES ASSUME PolicyInit PROVE PolicyInv
    OBVIOUS
  <2>1. PolicyTypeOK
    BY Idle, SMT, SMTT(20) DEF PolicyInit, PolicyTypeOK
  <2>2. ReadInv
    BY Idle DEF PolicyInit, ReadInv, UpToDate
  <2>3. DecreePersists
    BY DEF PolicyInit, DecreePersists
  <2> QED BY <2>1, <2>2, <2>3 DEF PolicyInv
<1>2. PolicyInv /\ [PolicyNext]_polVars => PolicyInv'
  <2> SUFFICES ASSUME PolicyInv, [PolicyNext]_polVars PROVE PolicyInv'
    OBVIOUS
  <2>1. CASE PolicyNext
    BY <2>1, PolicyTypeStep, ReadStep, DecreeStep DEF PolicyInv
  <2>2. CASE UNCHANGED polVars
    <3>1. PolicyTypeOK'
      BY <2>2 DEF PolicyInv, PolicyTypeOK, polVars
    <3>2. ReadInv'
      BY <2>2 DEF PolicyInv, ReadInv, UpToDate, polVars
    <3>3. DecreePersists'
      BY <2>2 DEF PolicyInv, DecreePersists, polVars
    <3> QED BY <3>1, <3>2, <3>3 DEF PolicyInv
  <2> QED BY <2>1, <2>2
<1> QED BY <1>1, <1>2, PTL DEF PolicySpec

\* Whatever the commands, reloads, edits and crashes, settings that nothing has
\* made suspect are what the file says.
THEOREM SettingsAreTheFile == PolicySpec => []SettingsMatchFile
<1>1. PolicyInv => SettingsMatchFile
  BY DEF PolicyInv, ReadInv, SettingsMatchFile
<1> QED BY <1>1, PolicyInvariance, PTL

\* What EnableSwaps or DisableSwaps decided stays in the file, through the
\* commands on the lists, reloads and restarts.
THEOREM DecreesPersist == PolicySpec => []DecreePersists
<1>1. PolicyInv => DecreePersists
  BY DEF PolicyInv
<1> QED BY <1>1, PolicyInvariance, PTL

-----------------------------------------------------------------------------
(***************************************************************************)
(* What a swap costs: the premium and the balance a deal is checked         *)
(* against, while rates and balances move, for every amount and rate.       *)
(***************************************************************************)

\* A deal, and the rates it may ask for.
DealRec == [pc : DealPcs, kind : {"out", "in"}, amt : Nat, ppm : Int, limit : Int,
            premium : Int, fee : Nat]

Rate == [{"peer", "default"} -> Int \cup {NoRate}]

\* The part of the types the two results rest on.
DealTypeOK ==
  /\ deal \in DealRec
  /\ local \in Int
  /\ rateOf \in Rate

\* From the request on, the limit is what the user's rate allows; who is committed keeps it.
LimitInv ==
  /\ deal.pc \in {"requested", "received", "checked", "agreed", "committed"}
     => deal.limit = Compute(deal.amt, deal.ppm)
  /\ deal.pc = "committed" => deal.premium <= deal.limit

\* A premium is an integer,
LEMMA ComputeType ==
  ASSUME NEW amt \in Nat, NEW ppm \in Int
  PROVE  Compute(amt, ppm) \in Int
<1>1. Parts \in Nat \ {0} /\ amt * ppm \in Int /\ amt * (-ppm) \in Int
  BY AdmissionAssumption, SMT, SMTT(20)
<1>2. (amt * ppm) \div Parts \in Int /\ (amt * (-ppm)) \div Parts \in Int
  BY <1>1, SMT, SMTT(20)
<1> QED
  BY <1>2, SMT, SMTT(20) DEF Compute

\* and so is a rate.
LEMMA RateType ==
  ASSUME DealTypeOK, NEW kind
  PROVE  GetRate(kind) \in Int
BY AdmissionAssumption, SMT, SMTT(20) DEF DealTypeOK, Rate, GetRate

\* A deal stays one when it moves on.
LEMMA DealUpdates ==
  ASSUME NEW d \in DealRec, NEW c \in DealPcs, NEW l \in Int, NEW f \in Nat, NEW r \in Int
  PROVE  /\ [d EXCEPT !.pc = c] \in DealRec
         /\ [d EXCEPT !.pc = c, !.limit = l, !.fee = f] \in DealRec
         /\ [d EXCEPT !.pc = c, !.premium = r] \in DealRec
         /\ [d EXCEPT !.pc = c, !.premium = r, !.fee = f] \in DealRec
BY DEF DealRec

\* A refused deal keeps its figures.
LEMMA RefuseKeeps ==
  ASSUME deal \in DealRec, Refuse(deal)
  PROVE  deal' \in DealRec /\ deal'.pc = "refused"
BY DEF Refuse, DealRec, DealPcs

\* A command starts a deal.
LEMMA CalledStep ==
  ASSUME DealTypeOK, NEW kind \in {"out", "in"}, NEW amt \in Amounts, NEW ppm \in Ppms,
         Called(kind, amt, ppm)
  PROVE  (DealTypeOK /\ LimitInv)'
<1>1. amt \in Nat /\ ppm \in Int
  BY AdmissionAssumption
<1>2. deal' \in DealRec /\ deal'.pc = "called"
  <2>1. deal' = [pc |-> "called", kind |-> kind, amt |-> amt, ppm |-> ppm, limit |-> 0,
                 premium |-> 0, fee |-> 0]
    BY DEF Called, NoDeal
  <2> QED
    BY <1>1, <2>1, SMT, SMTT(20) DEF DealRec, DealPcs
<1> QED
  BY <1>2 DEF Called, DealTypeOK, LimitInv

\* A step that ends the deal, or only advances it.
LEMMA Advance ==
  ASSUME DealTypeOK, LimitInv, local' \in Int, rateOf' \in Rate, deal' \in DealRec,
         \/ deal' = deal
         \/ deal'.pc = "refused"
         \/ /\ deal.pc \in {"requested", "received", "checked", "agreed"}
            /\ deal'.pc \in {"received", "checked", "agreed"}
            /\ deal'.limit = deal.limit /\ deal'.amt = deal.amt /\ deal'.ppm = deal.ppm
  PROVE  (DealTypeOK /\ LimitInv)'
BY DEF DealTypeOK, LimitInv

\* Every step keeps the types and the limit.
LEMMA DealStep ==
  ASSUME DealTypeOK, LimitInv, [AdmissionNext]_adVars
  PROVE  (DealTypeOK /\ LimitInv)'
<1>0. deal \in DealRec /\ local \in Int /\ rateOf \in Rate
  BY DEF DealTypeOK
<1>1. ASSUME NEW amt \in Amounts, NEW ppm \in Ppms,
             ClnSwapOut(amt, ppm) \/ LndSwapOut(amt, ppm) \/ ClnSwapIn(amt, ppm) \/ LndSwapIn(amt, ppm)
      PROVE  (DealTypeOK /\ LimitInv)'
  BY <1>1, CalledStep DEF ClnSwapOut, LndSwapOut, ClnSwapIn, LndSwapIn
<1>2. CASE Request
  <2>1. UNCHANGED <<local, rateOf>>
    BY <1>2 DEF Request
  <2>2. CASE Refuse(deal)
    BY <1>0, <2>1, <2>2, RefuseKeeps, Advance
  <2>3. ASSUME NEW fee \in OpeningFees,
               deal' = [deal EXCEPT !.pc = "requested", !.limit = Compute(deal.amt, deal.ppm),
                                    !.fee = IF deal.kind = "in" THEN fee ELSE 0]
        PROVE  (DealTypeOK /\ LimitInv)'
    <3>1. fee \in Nat /\ deal.amt \in Nat /\ deal.ppm \in Int
      BY <1>0, AdmissionAssumption DEF DealRec
    <3>2. Compute(deal.amt, deal.ppm) \in Int
      BY <3>1, ComputeType
    <3>3. deal' \in DealRec
      BY <1>0, <2>3, <3>1, <3>2, DealUpdates DEF DealPcs
    <3>4. /\ deal'.pc = "requested" /\ deal'.limit = Compute(deal.amt, deal.ppm)
          /\ deal'.amt = deal.amt /\ deal'.ppm = deal.ppm
      BY <1>0, <2>3 DEF DealRec
    <3> QED
      BY <1>0, <2>1, <3>3, <3>4 DEF DealTypeOK, LimitInv, Compute
  <2> QED
    BY <1>2, <2>2, <2>3 DEF Request
<1>3. CASE RefusePremium \/ FeeNotPaid
  BY <1>0, <1>3, RefuseKeeps, Advance DEF RefusePremium, FeeNotPaid
<1>4. CASE OnRequestReceived
  <2>1. UNCHANGED <<local, rateOf>> /\ deal.pc = "requested"
    BY <1>4 DEF OnRequestReceived
  <2>2. CASE deal' = [deal EXCEPT !.pc = "received"]
    <3>1. /\ deal' \in DealRec /\ deal'.pc = "received" /\ deal'.limit = deal.limit
          /\ deal'.amt = deal.amt /\ deal'.ppm = deal.ppm
      BY <1>0, <2>2 DEF DealRec, DealPcs
    <3> QED
      BY <1>0, <2>1, <3>1, Advance
  <2>3. CASE Refuse(deal)
    BY <1>0, <2>1, <2>3, RefuseKeeps, Advance
  <2> QED
    BY <1>4, <2>2, <2>3 DEF OnRequestReceived
<1>5. CASE CheckRequest
  <2>1. UNCHANGED <<local, rateOf>> /\ deal.pc = "received"
    BY <1>5 DEF CheckRequest
  <2>2. CASE deal' = [deal EXCEPT !.pc = "checked"]
    <3>1. /\ deal' \in DealRec /\ deal'.pc = "checked" /\ deal'.limit = deal.limit
          /\ deal'.amt = deal.amt /\ deal'.ppm = deal.ppm
      BY <1>0, <2>2 DEF DealRec, DealPcs
    <3> QED
      BY <1>0, <2>1, <3>1, Advance
  <2>3. CASE Refuse(deal)
    BY <1>0, <2>1, <2>3, RefuseKeeps, Advance
  <2> QED
    BY <1>5, <2>2, <2>3 DEF CheckRequest
<1>6. CASE Agree
  <2> DEFINE premium == Compute(deal.amt, GetRate(deal.kind))
  <2>1. UNCHANGED <<local, rateOf>> /\ deal.pc = "checked"
    BY <1>6 DEF Agree
  <2>2. premium \in Int
    BY <1>0, RateType, ComputeType DEF DealRec
  <2>3. CASE Refuse(deal)
    BY <1>0, <2>1, <2>3, RefuseKeeps, Advance
  <2>4. \/ Refuse(deal)
        \/ deal' = [deal EXCEPT !.pc = "agreed", !.premium = premium]
        \/ \E fee \in OpeningFees : deal' = [deal EXCEPT !.pc = "agreed", !.premium = premium, !.fee = fee]
    BY <1>6 DEF Agree
  <2> HIDE DEF premium
  <2>5. ASSUME ~Refuse(deal)
        PROVE  /\ deal' \in DealRec /\ deal'.pc = "agreed" /\ deal'.limit = deal.limit
               /\ deal'.amt = deal.amt /\ deal'.ppm = deal.ppm
    BY <1>0, <2>2, <2>4, <2>5, AdmissionAssumption DEF DealRec, DealPcs
  <2> QED
    BY <1>0, <2>1, <2>3, <2>5, Advance
<1>7. CASE PayFeeInvoice \/ OpenSwapIn
  <2>1. rateOf' = rateOf /\ deal.pc = "agreed" /\ local' \in {local, local - deal.fee}
    BY <1>7 DEF PayFeeInvoice, OpenSwapIn
  <2>2. local' \in Int
    BY <1>0, <2>1, SMT, SMTT(20) DEF DealRec
  <2>3. Refuse(deal) \/ (deal' = [deal EXCEPT !.pc = "committed"] /\ CheckPremiumAmount(deal))
    BY <1>7 DEF PayFeeInvoice, OpenSwapIn
  <2>4. CASE Refuse(deal)
    BY <1>0, <2>1, <2>2, <2>4, RefuseKeeps, Advance
  <2>5. CASE deal' = [deal EXCEPT !.pc = "committed"] /\ CheckPremiumAmount(deal)
    <3>1. /\ deal' \in DealRec /\ deal'.pc = "committed" /\ deal'.limit = deal.limit
          /\ deal'.amt = deal.amt /\ deal'.ppm = deal.ppm /\ deal'.premium = deal.premium
      BY <1>0, <2>5 DEF DealRec, DealPcs
    <3> QED
      BY <1>0, <2>1, <2>2, <2>5, <3>1 DEF DealTypeOK, LimitInv, CheckPremiumAmount
  <2> QED
    BY <2>3, <2>4, <2>5
<1>8. ASSUME NEW who \in {"peer", "default"}, NEW rate \in Int \cup {NoRate}, Stored(who, rate)
      PROVE  (DealTypeOK /\ LimitInv)'
  <2>1. rateOf' \in Rate
    BY <1>0, <1>8 DEF Stored, Rate
  <2> QED
    BY <1>0, <1>8, <2>1, Advance DEF Stored
<1>9. CASE \/ \E ppm \in Ppms : UpdatePremiumRate(ppm) \/ UpdateGlobalPremiumRate(ppm)
           \/ DeletePremiumRate
  BY <1>8, <1>9, AdmissionAssumption
  DEF UpdatePremiumRate, UpdateGlobalPremiumRate, DeletePremiumRate
<1>10. CASE \/ ChannelMoves \/ PurseMoves \/ UNCHANGED adVars
            \/ \E who \in {"initiator", "responder"} : PolicyMoves(who)
  <2>1. local' \in Int /\ rateOf' = rateOf /\ deal' = deal
    BY <1>0, <1>10, SMT, SMTT(20) DEF ChannelMoves, PurseMoves, PolicyMoves, adVars
  <2> QED
    BY <1>0, <2>1, Advance
<1> QED
  BY <1>1, <1>2, <1>3, <1>4, <1>5, <1>6, <1>7, <1>9, <1>10 DEF AdmissionNext

\* They hold in every state.
LEMMA DealInvariant == AdmissionSpec => [](DealTypeOK /\ LimitInv)
<1>1. AdmissionInit => DealTypeOK /\ LimitInv
  <2> SUFFICES ASSUME AdmissionInit
               PROVE  DealTypeOK /\ LimitInv
    OBVIOUS
  <2>1. deal \in DealRec /\ deal.pc = "none"
    BY SMT, SMTT(20) DEF AdmissionInit, NoDeal, DealRec, DealPcs
  <2>2. local \in Int /\ rateOf \in Rate
    BY AdmissionAssumption, SMT, SMTT(20) DEF AdmissionInit, Rate
  <2> QED
    BY <2>1, <2>2 DEF DealTypeOK, LimitInv
<1>2. DealTypeOK /\ LimitInv /\ [AdmissionNext]_adVars => (DealTypeOK /\ LimitInv)'
  BY DealStep
<1> QED
  BY <1>1, <1>2, PTL DEF AdmissionSpec

\* However the responder's rates change after the request, CheckPremiumAmount lets no
\* premium pass that is above what the user's limit rate allows.
THEOREM PremiumIsBounded == AdmissionSpec => []CostIsBounded
<1>1. DealTypeOK /\ LimitInv => CostIsBounded
  BY DEF LimitInv, CostIsBounded
<1> QED
  BY <1>1, DealInvariant, PTL

\* However the balance moved since the command, PayFeeInvoiceAction pays the fee only from
\* a channel that can still pay the swap, whatever SpendableMsat made of it.
THEOREM FeeLeavesEnough == AdmissionSpec => CoveredWhenPaid
<1>1. DealTypeOK /\ [AdmissionNext]_adVars
      => [deal.pc = "agreed" /\ deal'.pc = "committed" /\ deal.kind = "out"
            => local' >= Reserve + deal.amt]_adVars
  <2> SUFFICES ASSUME DealTypeOK, [AdmissionNext]_adVars, deal.pc = "agreed", deal'.pc = "committed",
                      deal.kind = "out"
               PROVE  local' >= Reserve + deal.amt
    OBVIOUS
  <2>0. deal \in DealRec /\ deal' # deal /\ ~Refuse(deal)
    BY RefuseKeeps DEF DealTypeOK
  <2>1. PayFeeInvoice
    BY <2>0
    DEF AdmissionNext, adVars, ClnSwapOut, LndSwapOut, ClnSwapIn, LndSwapIn, Called,
        Request,
       RefusePremium, OnRequestReceived, CheckRequest, Agree, FeeNotPaid, OpenSwapIn,
       UpdatePremiumRate, UpdateGlobalPremiumRate, DeletePremiumRate, Stored, ChannelMoves,
       PurseMoves, PolicyMoves
  <2>2. local' = local - deal.fee /\ local >= Reserve + (deal.amt + deal.fee)
    BY <2>0, <2>1 DEF PayFeeInvoice, ProbePayment, PayerBalance
  <2>3. local \in Int /\ deal.fee \in Nat /\ deal.amt \in Nat /\ Reserve \in Nat
    BY <2>0, AdmissionAssumption DEF DealTypeOK, DealRec
  <2> QED
    BY <2>2, <2>3, SMT, SMTT(20)
<1> QED
  BY <1>1, DealInvariant, PTL DEF AdmissionSpec, CoveredWhenPaid
=============================================================================
