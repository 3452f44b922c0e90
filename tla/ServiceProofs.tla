---------------------------- MODULE ServiceProofs ----------------------------
(***************************************************************************)
(* Proofs about what runs the swaps and wakes them: the service's map of   *)
(* active swaps and its recovery (SwapService), for every set of swap ids  *)
(* and channels and every number of restarts; LND's streams (LndStreams),  *)
(* for every number of calls and faults; and the watcher behind a node's   *)
(* RPC (RpcWatcher), for every set of swaps, window, CSV and chain.        *)
(***************************************************************************)
EXTENDS SwapService, LndStreams, RpcWatcher, TLAPS

\* A leaf is tried with Zenon, then with Z3; the leaves that need Z3 say so.
USE Zenon, SMT, SMTT(20)

-----------------------------------------------------------------------------
(* The service. *)

\* The channel of the machine that activeSwaps holds for i, applied or not.
Holds(i) == IF active[i] = "own" THEN own[i].chan ELSE copy[i].chan

\* Where machines can be.  Copies exist once RecoverSwaps has listed, and are locked by
\* the time it returns; a machine of this process that is older than that is early.
Machines ==
  \A i \in Ids :
    /\ phase \notin {"recovering", "serving"} => copy[i].pc = "none"
    /\ active[i] = "copy" => copy[i].pc \in {"locked", "running", "finishing"}
    /\ active[i] = "own" => own[i].pc # "none" /\ own[i].chan \in Chans
    /\ phase = "down" => own[i].pc = "none"
    /\ own[i].pc # "none" /\ phase # "serving" => i \in early
    /\ flavour = "lnd" => i \notin early

\* Two machines on one channel were admitted while one of them had no scid.
Channels ==
  \A i, j \in Ids :
    i # j /\ Registered(i) /\ Registered(j) /\ Holds(i) = Holds(j) => {i, j} \in raced

\* What the machines say of the records.
Records ==
  \A i \in Ids :
    /\ phase = "checked" /\ rec[i].st = "open" => i \in early
    /\ own[i].pc \in {"locked", "applied", "stuck"} => rec[i].st = "none"
    /\ own[i].pc = "running" => rec[i].st # "none"
    /\ copy[i].pc # "none" => rec[i].st # "none"
    /\ copy[i].pc \in {"listed", "locked"} =>
         phase = "recovering" /\ (rec[i].st = "open" \/ i \in early)
    /\ own[i].pc = "finishing" \/ copy[i].pc = "finishing" => rec[i].st = "done" \/ i \in early

\* A running machine with work on the chain is in a process that has the chain.
Working ==
  \A i \in work :
    /\ rec[i].st # "none"
    /\ own[i].pc = "running" \/ copy[i].pc = "running" => HasChain(i)

\* Without early and overlapping admissions, an unfinished record has a channel of its
\* own and, once it is recovered, the machine that activeSwaps holds.
Recovery ==
  \A i \in Ids : rec[i].st = "open" =>
    /\ \A j \in Ids : i # j /\ rec[j].st = "open" => rec[i].chan # rec[j].chan
    /\ phase = "serving" => Registered(i) /\ Holds(i) = rec[i].chan
    /\ phase = "recovering" =>
         /\ copy[i].pc \in {"listed", "locked", "running"} /\ copy[i].chan = rec[i].chan
         /\ active[i] = IF copy[i].pc = "listed" THEN "none" ELSE "copy"

\* The copies of one RecoverSwaps are on different channels.
CopiesApart ==
  phase = "recovering" =>
    \A i, j \in Ids : i # j /\ copy[i].pc # "none" /\ copy[j].pc # "none"
                        => copy[i].chan # copy[j].chan

ServiceInv ==
  /\ ServiceTypeOK /\ Machines /\ Channels /\ Records /\ Working
  /\ Regular => Recovery /\ CopiesApart

\* A step that registers no machine and moves none to another channel keeps Channels.
LEMMA ChannelsKept ==
  ASSUME Channels, raced \subseteq raced',
         \A k \in Ids : active'[k] = active[k] \/ active'[k] = "none",
         \A k \in Ids : active'[k] # "none" => Holds(k)' = Holds(k)
  PROVE  Channels'
BY DEF Channels, Registered

\* A channel that lockSwap finds free while another registered machine is on it is one
\* whose request is not applied: the two race.
LEMMA UnseenIsRace ==
  ASSUME NEW i \in Ids, NEW c, ~ChannelTaken(c)
  PROVE  /\ Races(i, c) \subseteq SUBSET Ids
         /\ \A j \in Ids \ {i} : active[j] \in {"own", "copy"} /\ Holds(j) = c
                                   => {i, j} \in Races(i, c)
<1>1. Races(i, c) \subseteq SUBSET Ids
  BY SMT, SMTT(20) DEF Races, NotYetApplied
<1>2. ASSUME NEW j \in Ids \ {i}, active[j] \in {"own", "copy"}, Holds(j) = c
      PROVE  {i, j} \in Races(i, c)
  <2>1. GetScid(j) # c
    BY <1>2 DEF ChannelTaken, Registered
  <2>2. active[j] = "own" /\ own[j].pc = "locked" /\ own[j].chan = c
    BY <1>2, <2>1 DEF GetScid, Holds
  <2> QED
    BY <1>2, <2>2 DEF Races, NotYetApplied
<1> QED
  BY <1>1, <1>2

\* A machine that goes on to another state stays on its channel, and the others stay.
LEMMA MachineMoves ==
  ASSUME NEW f \in [Ids -> [pc : MachinePc, chan : Chans \cup {NoChan}]],
         NEW i \in Ids, NEW p \in MachinePc, NEW g, g = [f EXCEPT ![i].pc = p]
  PROVE  /\ g \in [Ids -> [pc : MachinePc, chan : Chans \cup {NoChan}]]
         /\ g[i].pc = p
         /\ \A k \in Ids : g[k].chan = f[k].chan /\ (k # i => g[k].pc = f[k].pc)
BY SMT, SMTT(20)

\* Every step of the daemon, of RecoverSwaps and of a swap keeps ServiceInv.
LEMMA ServiceStep == ServiceInv /\ [ServiceNext]_svcVars => ServiceInv'
<1> SUFFICES ASSUME ServiceInv, [ServiceNext]_svcVars PROVE ServiceInv'
  OBVIOUS
<1>0. ServiceTypeOK /\ Machines /\ Channels /\ Records /\ Working /\ (Regular => Recovery /\ CopiesApart)
  BY DEF ServiceInv
<1>1. ASSUME NEW C \in SUBSET Enableable,
           StartDaemon(C)
      PROVE  ServiceInv'
  <2>1. ServiceTypeOK'
    BY <1>0, <1>1, ServiceAssumption
    DEF ServiceTypeOK, StartDaemon, Phase, Assets, Enableable, MachinePc
  <2>2. Machines'
    BY <1>0, <1>1, ServiceAssumption DEF ServiceTypeOK, StartDaemon, Machines, Enableable
  <2>3. Channels'
    <3>1. raced \subseteq raced' /\ \A k \in Ids : active'[k] = active[k] \/ active'[k] = "none"
      BY <1>0, <1>1 DEF ServiceTypeOK, StartDaemon
    <3>2. \A k \in Ids : active'[k] # "none" => Holds(k)' = Holds(k)
      BY <1>0, <1>1 DEF ServiceTypeOK, Holds, Machines, StartDaemon
    <3> QED
      BY <1>0, <3>1, <3>2, ChannelsKept
  <2>4. Records'
    BY <1>0, <1>1, ServiceAssumption DEF ServiceTypeOK, StartDaemon, Records, Machines
  <2>5. Working'
    BY <1>0, <1>1, ServiceAssumption
    DEF ServiceTypeOK, StartDaemon, Working, Records, Machines, HasChain
  <2>6. (Regular => Recovery /\ CopiesApart)'
    BY <1>0, <1>1, ServiceAssumption, SMT, SMTT(20)
    DEF ServiceTypeOK, StartDaemon, Regular, Recovery, CopiesApart, Registered, Holds,
        Machines, Records
  <2> QED
    BY <2>1, <2>2, <2>3, <2>4, <2>5, <2>6 DEF ServiceInv
<1>2. ASSUME SetReady
      PROVE  ServiceInv'
  <2>1. ServiceTypeOK'
    BY <1>0, <1>2, ServiceAssumption
    DEF ServiceTypeOK, SetReady, chainVars, Phase, Assets, Enableable, MachinePc
  <2>2. Machines'
    BY <1>0, <1>2, ServiceAssumption
    DEF ServiceTypeOK, SetReady, chainVars, Machines, Enableable
  <2>3. Channels'
    <3>1. raced \subseteq raced' /\ \A k \in Ids : active'[k] = active[k] \/ active'[k] = "none"
      BY <1>0, <1>2 DEF ServiceTypeOK, SetReady, chainVars
    <3>2. \A k \in Ids : active'[k] # "none" => Holds(k)' = Holds(k)
      BY <1>0, <1>2 DEF ServiceTypeOK, Holds, Machines, SetReady, chainVars
    <3> QED
      BY <1>0, <3>1, <3>2, ChannelsKept
  <2>4. Records'
    BY <1>0, <1>2, ServiceAssumption DEF ServiceTypeOK, SetReady, chainVars, Records, Machines
  <2>5. Working'
    BY <1>0, <1>2, ServiceAssumption
    DEF ServiceTypeOK, SetReady, chainVars, Working, Records, Machines, HasChain
  <2>6. (Regular => Recovery /\ CopiesApart)'
    BY <1>0, <1>2, ServiceAssumption, SMT, SMTT(20)
    DEF ServiceTypeOK, SetReady, chainVars, Regular, Recovery, CopiesApart, Registered,
        Holds, Machines, Records
  <2> QED
    BY <2>1, <2>2, <2>3, <2>4, <2>5, <2>6 DEF ServiceInv
<1>3. ASSUME SafeUpgrade
      PROVE  ServiceInv'
  <2>1. ServiceTypeOK'
    BY <1>0, <1>3, ServiceAssumption
    DEF ServiceTypeOK, SafeUpgrade, chainVars, HasActiveSwaps, ListAll, Phase, Assets,
        Enableable, MachinePc
  <2>2. Machines'
    BY <1>0, <1>3, ServiceAssumption
    DEF ServiceTypeOK, SafeUpgrade, chainVars, HasActiveSwaps, ListAll, Machines, Enableable
  <2>3. Channels'
    <3>1. raced \subseteq raced' /\ \A k \in Ids : active'[k] = active[k] \/ active'[k] = "none"
      BY <1>0, <1>3 DEF ServiceTypeOK, SafeUpgrade, chainVars, HasActiveSwaps, ListAll
    <3>2. \A k \in Ids : active'[k] # "none" => Holds(k)' = Holds(k)
      BY <1>0, <1>3
      DEF ServiceTypeOK, Holds, Machines, SafeUpgrade, chainVars, HasActiveSwaps, ListAll
    <3> QED
      BY <1>0, <3>1, <3>2, ChannelsKept
  <2>4. Records'
    BY <1>0, <1>3, ServiceAssumption
    DEF ServiceTypeOK, SafeUpgrade, chainVars, HasActiveSwaps, ListAll, Records, Machines
  <2>5. Working'
    BY <1>0, <1>3, ServiceAssumption
    DEF ServiceTypeOK, SafeUpgrade, chainVars, HasActiveSwaps, ListAll, Working, Records,
        Machines, HasChain
  <2>6. (Regular => Recovery /\ CopiesApart)'
    BY <1>0, <1>3, ServiceAssumption, SMT, SMTT(20)
    DEF ServiceTypeOK, SafeUpgrade, chainVars, HasActiveSwaps, ListAll, Regular, Recovery,
        CopiesApart, Registered, Holds, Machines, Records
  <2> QED
    BY <2>1, <2>2, <2>3, <2>4, <2>5, <2>6 DEF ServiceInv
<1>4. ASSUME SetVersion
      PROVE  ServiceInv'
  <2>1. ServiceTypeOK'
    BY <1>0, <1>4, ServiceAssumption
    DEF ServiceTypeOK, SetVersion, chainVars, Phase, Assets, Enableable, MachinePc
  <2>2. Machines'
    BY <1>0, <1>4, ServiceAssumption
    DEF ServiceTypeOK, SetVersion, chainVars, Machines, Enableable
  <2>3. Channels'
    <3>1. raced \subseteq raced' /\ \A k \in Ids : active'[k] = active[k] \/ active'[k] = "none"
      BY <1>0, <1>4 DEF ServiceTypeOK, SetVersion, chainVars
    <3>2. \A k \in Ids : active'[k] # "none" => Holds(k)' = Holds(k)
      BY <1>0, <1>4 DEF ServiceTypeOK, Holds, Machines, SetVersion, chainVars
    <3> QED
      BY <1>0, <3>1, <3>2, ChannelsKept
  <2>4. Records'
    BY <1>0, <1>4, ServiceAssumption DEF ServiceTypeOK, SetVersion, chainVars, Records, Machines
  <2>5. Working'
    BY <1>0, <1>4, ServiceAssumption
    DEF ServiceTypeOK, SetVersion, chainVars, Working, Records, Machines, HasChain
  <2>6. (Regular => Recovery /\ CopiesApart)'
    BY <1>0, <1>4, ServiceAssumption
    DEF ServiceTypeOK, SetVersion, chainVars, Regular, Recovery, CopiesApart, Registered,
        Holds, Machines, Records
  <2> QED
    BY <2>1, <2>2, <2>3, <2>4, <2>5, <2>6 DEF ServiceInv
<1>5. ASSUME RecoverSwaps
      PROVE  ServiceInv'
  <2>1. ServiceTypeOK'
    BY <1>0, <1>5, ServiceAssumption
    DEF ServiceTypeOK, RecoverSwaps, chainVars, ListAll, NoMachine, Phase, Assets,
        Enableable, MachinePc
  <2>2. Machines'
    BY <1>0, <1>5, ServiceAssumption
    DEF ServiceTypeOK, RecoverSwaps, chainVars, ListAll, NoMachine, Machines, Enableable
  <2>3. Channels'
    <3>1. raced \subseteq raced' /\ \A k \in Ids : active'[k] = active[k] \/ active'[k] = "none"
      BY <1>0, <1>5 DEF ServiceTypeOK, RecoverSwaps, chainVars, ListAll, NoMachine
    <3>2. \A k \in Ids : active'[k] # "none" => Holds(k)' = Holds(k)
      BY <1>0, <1>5
      DEF ServiceTypeOK, Holds, Machines, RecoverSwaps, chainVars, ListAll, NoMachine
    <3> QED
      BY <1>0, <3>1, <3>2, ChannelsKept
  <2>4. Records'
    BY <1>0, <1>5, ServiceAssumption
    DEF ServiceTypeOK, RecoverSwaps, chainVars, ListAll, NoMachine, Records, Machines
  <2>5. Working'
    BY <1>0, <1>5, ServiceAssumption
    DEF ServiceTypeOK, RecoverSwaps, chainVars, ListAll, NoMachine, Working, Records,
        Machines, HasChain
  <2>6. (Regular => Recovery /\ CopiesApart)'
    BY <1>0, <1>5, ServiceAssumption, SMT, SMTT(20)
    DEF ServiceTypeOK, RecoverSwaps, chainVars, ListAll, NoMachine, Regular, Recovery,
        CopiesApart, Registered, Holds, Machines, Records
  <2> QED
    BY <2>1, <2>2, <2>3, <2>4, <2>5, <2>6 DEF ServiceInv
<1>6. ASSUME RecoverSwapsReturns
      PROVE  ServiceInv'
  <2>1. ServiceTypeOK'
    BY <1>0, <1>6, ServiceAssumption
    DEF ServiceTypeOK, RecoverSwapsReturns, chainVars, Phase, Assets, Enableable, MachinePc
  <2>2. Machines'
    BY <1>0, <1>6, ServiceAssumption
    DEF ServiceTypeOK, RecoverSwapsReturns, chainVars, Machines, Enableable
  <2>3. Channels'
    <3>1. raced \subseteq raced' /\ \A k \in Ids : active'[k] = active[k] \/ active'[k] = "none"
      BY <1>0, <1>6 DEF ServiceTypeOK, RecoverSwapsReturns, chainVars
    <3>2. \A k \in Ids : active'[k] # "none" => Holds(k)' = Holds(k)
      BY <1>0, <1>6 DEF ServiceTypeOK, Holds, Machines, RecoverSwapsReturns, chainVars
    <3> QED
      BY <1>0, <3>1, <3>2, ChannelsKept
  <2>4. Records'
    BY <1>0, <1>6, ServiceAssumption
    DEF ServiceTypeOK, RecoverSwapsReturns, chainVars, Records, Machines
  <2>5. Working'
    BY <1>0, <1>6, ServiceAssumption
    DEF ServiceTypeOK, RecoverSwapsReturns, chainVars, Working, Records, Machines, HasChain
  <2>6. (Regular => Recovery /\ CopiesApart)'
    BY <1>0, <1>6, ServiceAssumption, SMT, SMTT(20)
    DEF ServiceTypeOK, RecoverSwapsReturns, chainVars, Regular, Recovery, CopiesApart,
        Registered, Holds, Machines, Records
  <2> QED
    BY <2>1, <2>2, <2>3, <2>4, <2>5, <2>6 DEF ServiceInv
<1>7. ASSUME ProcessEnds,
           UNCHANGED <<work, rec>>,
           dbVersion' \in {dbVersion, "old"},
           svcStops' \in Nat
      PROVE  ServiceInv'
  <2>1. ServiceTypeOK'
    BY <1>0, <1>7, ServiceAssumption
    DEF ServiceTypeOK, ProcessEnds, NoMachine, Phase, Assets, Enableable, MachinePc
  <2>2. Machines'
    BY <1>0, <1>7, ServiceAssumption
    DEF ServiceTypeOK, ProcessEnds, NoMachine, Machines, Enableable
  <2>3. Channels'
    <3>1. raced \subseteq raced' /\ \A k \in Ids : active'[k] = active[k] \/ active'[k] = "none"
      BY <1>0, <1>7 DEF ServiceTypeOK, ProcessEnds, NoMachine
    <3>2. \A k \in Ids : active'[k] # "none" => Holds(k)' = Holds(k)
      BY <1>0, <1>7 DEF ServiceTypeOK, Holds, Machines, ProcessEnds, NoMachine
    <3> QED
      BY <1>0, <3>1, <3>2, ChannelsKept
  <2>4. Records'
    BY <1>0, <1>7, ServiceAssumption
    DEF ServiceTypeOK, ProcessEnds, NoMachine, Records, Machines
  <2>5. Working'
    BY <1>0, <1>7, ServiceAssumption
    DEF ServiceTypeOK, ProcessEnds, NoMachine, Working, Records, Machines, HasChain
  <2>6. (Regular => Recovery /\ CopiesApart)'
    BY <1>0, <1>7, ServiceAssumption, SMT, SMTT(20)
    DEF ServiceTypeOK, ProcessEnds, NoMachine, Regular, Recovery, CopiesApart, Registered,
        Holds, Machines, Records
  <2> QED
    BY <2>1, <2>2, <2>3, <2>4, <2>5, <2>6 DEF ServiceInv
<1>8. ASSUME NEW i \in Ids,
           RecoverLock(i),
           ChannelTaken(copy[i].chan)
      PROVE  ServiceInv'
  <2>0. /\ copy \in [Ids -> [pc : MachinePc, chan : Chans \cup {NoChan}]]
        /\ copy' = [copy EXCEPT ![i].pc = "refused"]
        /\ "refused" \in MachinePc
    BY <1>0, <1>8 DEF ServiceTypeOK, RecoverLock, MachinePc
  <2>m. /\ copy' \in [Ids -> [pc : MachinePc, chan : Chans \cup {NoChan}]]
        /\ copy'[i].pc = "refused"
        /\ \A k \in Ids : copy'[k].chan = copy[k].chan /\ (k # i => copy'[k].pc = copy[k].pc)
    BY <2>0, MachineMoves, SMT, SMTT(20)
  <2>v. /\ UNCHANGED <<active, raced, flavour, chains, assetOf, work, phase>>
        /\ UNCHANGED <<dbVersion, rec, own, early, svcStops>>
        /\ copy[i].pc = "listed"
    BY <1>8 DEF RecoverLock, chainVars
  <2>1. ServiceTypeOK'
    BY <1>0, <2>m, <2>v DEF ServiceTypeOK
  <2>2. Machines'
    BY <1>0, <1>8, ServiceAssumption
    DEF ServiceTypeOK, RecoverLock, chainVars, Machines, Enableable
  <2>3. Channels'
    <3>1. raced \subseteq raced' /\ \A k \in Ids : active'[k] = active[k] \/ active'[k] = "none"
      BY <1>0, <1>8 DEF ServiceTypeOK, RecoverLock, chainVars
    <3>2. \A k \in Ids : active'[k] # "none" => Holds(k)' = Holds(k)
      BY <2>m, <2>v DEF Holds
    <3> QED
      BY <1>0, <3>1, <3>2, ChannelsKept
  <2>4. Records'
    BY <1>0, <2>m, <2>v DEF Records
  <2>5. Working'
    <3>1. \A k \in Ids : copy'[k].pc = "running" => copy[k].pc = "running"
      BY <2>m
    <3>2. UNCHANGED <<work, rec, own, assetOf, chains>>
      BY <1>8 DEF RecoverLock, chainVars
    <3> QED
      BY <1>0, <3>1, <3>2 DEF ServiceTypeOK, Working, HasChain
  <2>6. (Regular => Recovery /\ CopiesApart)'
    <3> SUFFICES ASSUME Regular' PROVE FALSE
      OBVIOUS
    <3>1. Regular /\ Recovery /\ CopiesApart
      BY <1>0, <1>8 DEF Regular, RecoverLock
    <3>2. phase = "recovering" /\ rec[i].st = "open" /\ active[i] = "none"
      BY <1>0, <1>8, <3>1 DEF Regular, RecoverLock, Records, Recovery
    <3>3. PICK j \in Ids : Registered(j) /\ GetScid(j) = copy[i].chan
      BY <1>8 DEF ChannelTaken
    <3>4. j # i /\ own[j].pc = "none"
      BY <1>0, <3>1, <3>2, <3>3 DEF Registered, Regular, Machines
    <3>5. active[j] = "copy" /\ copy[j].pc # "none"
      BY <1>0, <3>3, <3>4 DEF Registered, Machines, ServiceTypeOK
    <3>6. copy[j].chan = copy[i].chan
      BY <3>3, <3>5 DEF GetScid
    <3>7. copy[i].pc = "listed"
      BY <1>8 DEF RecoverLock
    <3> QED
      BY <3>1, <3>2, <3>4, <3>5, <3>6, <3>7 DEF CopiesApart
  <2> QED
    BY <2>1, <2>2, <2>3, <2>4, <2>5, <2>6 DEF ServiceInv
<1>9. ASSUME NEW i \in Ids,
           RecoverLock(i),
           ~ChannelTaken(copy[i].chan)
      PROVE  ServiceInv'
  <2>1. ServiceTypeOK'
    <3>1. raced' \subseteq SUBSET Ids
      <4>1. raced \subseteq SUBSET Ids /\ raced' = raced \cup Races(i, copy[i].chan)
        BY <1>0, <1>9 DEF ServiceTypeOK, RecoverLock
      <4> QED
        BY <1>9, <4>1, UnseenIsRace, SMT, SMTT(20)
    <3>2. active' \in [Ids -> {"none", "own", "copy"}]
      BY <1>0, <1>9 DEF ServiceTypeOK, RecoverLock
    <3>3. copy' \in [Ids -> [pc : MachinePc, chan : Chans \cup {NoChan}]]
      <4>1. /\ copy \in [Ids -> [pc : MachinePc, chan : Chans \cup {NoChan}]]
            /\ copy' = [copy EXCEPT ![i].pc = "locked"]
        BY <1>0, <1>9 DEF ServiceTypeOK, RecoverLock
      <4> QED
        BY <4>1, SMT, SMTT(20) DEF MachinePc
    <3> QED
      BY <1>0, <1>9, <3>1, <3>2, <3>3 DEF ServiceTypeOK, RecoverLock, chainVars
  <2>2. Machines'
    BY <1>0, <1>9, ServiceAssumption, SMT, SMTT(20)
    DEF ServiceTypeOK, RecoverLock, chainVars, Machines, Enableable
  <2>3. Channels'
    <3>1. /\ active'[i] = "copy" /\ Holds(i)' = copy[i].chan
          /\ \A k \in Ids \ {i} : active'[k] = active[k] /\ Holds(k)' = Holds(k)
          /\ raced' = raced \cup Races(i, copy[i].chan)
      BY <1>0, <1>9, SMT, SMTT(20) DEF ServiceTypeOK, RecoverLock, Holds
    <3>2. \A k \in Ids \ {i} : active'[k] # "none" /\ Holds(k)' = Holds(i)' => {i, k} \in raced'
      BY <1>0, <1>9, <3>1, UnseenIsRace DEF ServiceTypeOK
    <3>3. \A k, l \in Ids \ {i} : k # l /\ active'[k] # "none" /\ active'[l] # "none"
                                    /\ Holds(k)' = Holds(l)' => {k, l} \in raced'
      BY <1>0, <3>1 DEF Channels, Registered
    <3>4. \A k \in Ids : {i, k} = {k, i}
      OBVIOUS
    <3> QED
      BY <3>2, <3>3, <3>4 DEF Channels, Registered
  <2>4. Records'
    BY <1>0, <1>9, ServiceAssumption, SMT, SMTT(20)
    DEF ServiceTypeOK, RecoverLock, chainVars, Records, Machines
  <2>5. Working'
    <3>1. \A k \in Ids : copy'[k].pc = "running" => copy[k].pc = "running"
      BY <1>0, <1>9, SMT, SMTT(20) DEF ServiceTypeOK, RecoverLock
    <3>2. UNCHANGED <<work, rec, own, assetOf, chains>>
      BY <1>9 DEF RecoverLock, chainVars
    <3> QED
      BY <1>0, <3>1, <3>2 DEF ServiceTypeOK, Working, HasChain
  <2>6. (Regular => Recovery /\ CopiesApart)'
    <3> SUFFICES ASSUME Regular' PROVE Recovery' /\ CopiesApart'
      OBVIOUS
    <3>1. Regular /\ Recovery /\ CopiesApart
      BY <1>0, <1>9 DEF Regular, RecoverLock
    <3>2. phase = "recovering" /\ UNCHANGED <<phase, rec>>
      BY <1>0, <1>9 DEF RecoverLock, Records
    <3>3. /\ copy[i].pc = "listed" /\ copy'[i].pc = "locked" /\ active'[i] = "copy"
          /\ \A k \in Ids : copy'[k].chan = copy[k].chan
          /\ \A k \in Ids \ {i} : copy'[k].pc = copy[k].pc /\ active'[k] = active[k]
      <4>1. copy' = [copy EXCEPT ![i].pc = "locked"] /\ active' = [active EXCEPT ![i] = "copy"]
        BY <1>9 DEF RecoverLock
      <4>2. copy[i].pc = "listed"
        BY <1>9 DEF RecoverLock
      <4> QED
        BY <1>0, <4>1, <4>2, SMT, SMTT(20) DEF ServiceTypeOK
    <3>4. Recovery'
      BY <3>1, <3>2, <3>3, SMT, SMTT(20) DEF Recovery
    <3>5. CopiesApart'
      BY <3>1, <3>2, <3>3, SMT, SMTT(20) DEF CopiesApart
    <3> QED
      BY <3>4, <3>5
  <2> QED
    BY <2>1, <2>2, <2>3, <2>4, <2>5, <2>6 DEF ServiceInv
<1>10. ASSUME NEW i \in Ids,
           copy[i].pc = "locked",
           i \notin work \/ HasChain(i),
           copy' = [copy EXCEPT ![i].pc = "running"],
           rec' = [rec EXCEPT ![i] = [st |-> "open", chan |-> copy[i].chan]],
           UNCHANGED work,
           UNCHANGED <<flavour, chains, assetOf, phase, dbVersion, active, own, early, raced, svcStops>>
      PROVE  ServiceInv'
  <2>1. ServiceTypeOK'
    BY <1>0, <1>10, ServiceAssumption, SMT, SMTT(20)
    DEF ServiceTypeOK, Phase, Assets, Enableable, MachinePc
  <2>2. Machines'
    BY <1>0, <1>10, ServiceAssumption, SMT, SMTT(20) DEF ServiceTypeOK, Machines, Enableable
  <2>3. Channels'
    <3>1. raced \subseteq raced' /\ \A k \in Ids : active'[k] = active[k] \/ active'[k] = "none"
      BY <1>0, <1>10 DEF ServiceTypeOK
    <3>2. \A k \in Ids : active'[k] # "none" => Holds(k)' = Holds(k)
      BY <1>0, <1>10, SMT, SMTT(20) DEF ServiceTypeOK, Holds, Machines
    <3> QED
      BY <1>0, <3>1, <3>2, ChannelsKept
  <2>4. Records'
    BY <1>0, <1>10, ServiceAssumption, SMT, SMTT(20) DEF ServiceTypeOK, Records, Machines
  <2>5. Working'
    BY <1>0, <1>10, ServiceAssumption DEF ServiceTypeOK, Working, Records, Machines, HasChain
  <2>6. (Regular => Recovery /\ CopiesApart)'
    BY <1>0, <1>10, ServiceAssumption, SMT, SMTT(20)
    DEF ServiceTypeOK, Regular, Recovery, CopiesApart, Registered, Holds, Machines, Records
  <2> QED
    BY <2>1, <2>2, <2>3, <2>4, <2>5, <2>6 DEF ServiceInv
<1>11. ASSUME NEW i \in Ids,
           copy[i].pc = "locked",
           copy' = [copy EXCEPT ![i].pc = "finishing"],
           rec' = [rec EXCEPT ![i] = [st |-> "done", chan |-> copy[i].chan]],
           work' = work \ {i},
           UNCHANGED <<flavour, chains, assetOf, phase, dbVersion, active, own, early, raced, svcStops>>
      PROVE  ServiceInv'
  <2>1. ServiceTypeOK'
    BY <1>0, <1>11, ServiceAssumption, SMT, SMTT(20)
    DEF ServiceTypeOK, Phase, Assets, Enableable, MachinePc
  <2>2. Machines'
    BY <1>0, <1>11, ServiceAssumption, SMT, SMTT(20) DEF ServiceTypeOK, Machines, Enableable
  <2>3. Channels'
    <3>1. raced \subseteq raced' /\ \A k \in Ids : active'[k] = active[k] \/ active'[k] = "none"
      BY <1>0, <1>11 DEF ServiceTypeOK
    <3>2. \A k \in Ids : active'[k] # "none" => Holds(k)' = Holds(k)
      BY <1>0, <1>11, SMT, SMTT(20) DEF ServiceTypeOK, Holds, Machines
    <3> QED
      BY <1>0, <3>1, <3>2, ChannelsKept
  <2>4. Records'
    BY <1>0, <1>11, ServiceAssumption, SMT, SMTT(20) DEF ServiceTypeOK, Records, Machines
  <2>5. Working'
    BY <1>0, <1>11, ServiceAssumption DEF ServiceTypeOK, Working, Records, Machines, HasChain
  <2>6. (Regular => Recovery /\ CopiesApart)'
    BY <1>0, <1>11, ServiceAssumption, SMT, SMTT(20)
    DEF ServiceTypeOK, Regular, Recovery, CopiesApart, Registered, Holds, Machines, Records
  <2> QED
    BY <2>1, <2>2, <2>3, <2>4, <2>5, <2>6 DEF ServiceInv
<1>12. ASSUME NEW i \in Ids,
           NEW c \in Chans,
           NEW a \in Enableable,
           phase # "down",
           flavour = "lnd" => phase = "serving",
           lockSwap(i, c, a)
      PROVE  ServiceInv'
  <2>1. ServiceTypeOK'
    <3>1. raced' \subseteq SUBSET Ids
      BY <1>0, <1>12, UnseenIsRace DEF ServiceTypeOK, lockSwap
    <3>2. active' \in [Ids -> {"none", "own", "copy"}]
      BY <1>0, <1>12 DEF ServiceTypeOK, lockSwap
    <3>3. own' \in [Ids -> [pc : MachinePc, chan : Chans \cup {NoChan}]]
      BY <1>0, <1>12 DEF ServiceTypeOK, lockSwap, MachinePc
    <3>4. assetOf' \in [Ids -> Assets \cup {"none"}] /\ early' \subseteq Ids
      BY <1>0, <1>12 DEF ServiceTypeOK, lockSwap, Assets, Enableable
    <3> QED
      BY <1>0, <1>12, <3>1, <3>2, <3>3, <3>4 DEF ServiceTypeOK, lockSwap
  <2>2. Machines'
    <3>1. /\ active'[i] = "own" /\ own'[i].pc = "locked" /\ own'[i].chan = c
          /\ \A k \in Ids \ {i} : active'[k] = active[k] /\ own'[k] = own[k]
          /\ early \subseteq early' /\ early' \subseteq early \cup {i}
          /\ UNCHANGED <<flavour, phase, copy>>
      BY <1>0, <1>12 DEF ServiceTypeOK, lockSwap
    <3>2. phase # "serving" => flavour # "lnd" /\ i \in early'
      BY <1>0, <1>12 DEF ServiceTypeOK, lockSwap
    <3>3. phase = "serving" => early' = early
      BY <1>12 DEF lockSwap
    <3>4. phase # "down"
      BY <1>12
    <3> QED
      BY <1>0, <3>1, <3>2, <3>3, <3>4 DEF Machines
  <2>3. Channels'
    <3>1. /\ active'[i] = "own" /\ Holds(i)' = c
          /\ \A k \in Ids \ {i} : active'[k] = active[k] /\ Holds(k)' = Holds(k)
          /\ raced' = raced \cup Races(i, c)
      BY <1>0, <1>12 DEF ServiceTypeOK, lockSwap, Holds
    <3>2. \A k \in Ids \ {i} : active'[k] # "none" /\ Holds(k)' = Holds(i)' => {i, k} \in raced'
      <4>1. ~ChannelTaken(c)
        BY <1>12 DEF lockSwap
      <4> QED
        BY <1>0, <4>1, <3>1, UnseenIsRace DEF ServiceTypeOK
    <3>3. \A k, l \in Ids \ {i} : k # l /\ active'[k] # "none" /\ active'[l] # "none"
                                    /\ Holds(k)' = Holds(l)' => {k, l} \in raced'
      BY <1>0, <3>1 DEF Channels, Registered
    <3>4. \A k \in Ids : {i, k} = {k, i}
      OBVIOUS
    <3> QED
      BY <3>2, <3>3, <3>4 DEF Channels, Registered
  <2>4. Records'
    BY <1>0, <1>12, ServiceAssumption DEF ServiceTypeOK, lockSwap, Records, Machines
  <2>5. Working'
    BY <1>0, <1>12, ServiceAssumption
    DEF ServiceTypeOK, lockSwap, Working, Records, Machines, HasChain
  <2>6. (Regular => Recovery /\ CopiesApart)'
    BY <1>0, <1>12, ServiceAssumption, SMT, SMTT(20)
    DEF ServiceTypeOK, lockSwap, Regular, Recovery, CopiesApart, Registered, Holds, Machines,
        Records
  <2> QED
    BY <2>1, <2>2, <2>3, <2>4, <2>5, <2>6 DEF ServiceInv
<1>13. ASSUME NEW i \in Ids,
           ApplyToSwapData(i)
      PROVE  ServiceInv'
  <2>0. /\ own \in [Ids -> [pc : MachinePc, chan : Chans \cup {NoChan}]]
        /\ own' = [own EXCEPT ![i].pc = "applied"]
        /\ "applied" \in MachinePc
    BY <1>0, <1>13 DEF ServiceTypeOK, ApplyToSwapData, MachinePc
  <2>m. own' \in [Ids -> [pc : MachinePc, chan : Chans \cup {NoChan}]]
    BY <2>0, MachineMoves
  <2>v. /\ UNCHANGED <<active, raced, flavour, chains, assetOf, work, phase>>
        /\ UNCHANGED <<dbVersion, rec, copy, early, svcStops>>
    BY <1>13 DEF ApplyToSwapData, chainVars
  <2>1. ServiceTypeOK'
    BY <1>0, <2>m, <2>v DEF ServiceTypeOK
  <2>2. Machines'
    BY <1>0, <1>13, ServiceAssumption, SMT, SMTT(20)
    DEF ServiceTypeOK, ApplyToSwapData, chainVars, Machines, Enableable
  <2>3. Channels'
    <3>1. raced \subseteq raced' /\ \A k \in Ids : active'[k] = active[k] \/ active'[k] = "none"
      BY <1>0, <1>13 DEF ServiceTypeOK, ApplyToSwapData, chainVars
    <3>2. \A k \in Ids : active'[k] # "none" => Holds(k)' = Holds(k)
      BY <1>0, <1>13, SMT, SMTT(20)
      DEF ServiceTypeOK, Holds, Machines, ApplyToSwapData, chainVars
    <3> QED
      BY <1>0, <3>1, <3>2, ChannelsKept
  <2>4. Records'
    BY <1>0, <1>13, ServiceAssumption, SMT, SMTT(20)
    DEF ServiceTypeOK, ApplyToSwapData, chainVars, Records, Machines
  <2>5. Working'
    BY <1>0, <1>13, ServiceAssumption
    DEF ServiceTypeOK, ApplyToSwapData, chainVars, Working, Records, Machines, HasChain
  <2>6. (Regular => Recovery /\ CopiesApart)'
    BY <1>0, <1>13, ServiceAssumption, SMT, SMTT(20)
    DEF ServiceTypeOK, ApplyToSwapData, chainVars, Regular, Recovery, CopiesApart,
        Registered, Holds, Machines, Records
  <2> QED
    BY <2>1, <2>2, <2>3, <2>4, <2>5, <2>6 DEF ServiceInv
<1>14. ASSUME NEW i \in Ids,
           UpdateData(i),
           own' = [own EXCEPT ![i].pc = "running"],
           rec' = [rec EXCEPT ![i] = [st |-> "open", chan |-> own[i].chan]]
      PROVE  ServiceInv'
  <2>1. ServiceTypeOK'
    BY <1>0, <1>14, ServiceAssumption, SMT, SMTT(20)
    DEF ServiceTypeOK, UpdateData, chainVars, Phase, Assets, Enableable, MachinePc
  <2>2. Machines'
    BY <1>0, <1>14, ServiceAssumption, SMT, SMTT(20)
    DEF ServiceTypeOK, UpdateData, chainVars, Machines, Enableable
  <2>3. Channels'
    <3>1. raced \subseteq raced' /\ \A k \in Ids : active'[k] = active[k] \/ active'[k] = "none"
      BY <1>0, <1>14 DEF ServiceTypeOK, UpdateData, chainVars
    <3>2. \A k \in Ids : active'[k] # "none" => Holds(k)' = Holds(k)
      BY <1>0, <1>14, SMT, SMTT(20) DEF ServiceTypeOK, Holds, Machines, UpdateData, chainVars
    <3> QED
      BY <1>0, <3>1, <3>2, ChannelsKept
  <2>4. Records'
    BY <1>0, <1>14, ServiceAssumption, SMT, SMTT(20)
    DEF ServiceTypeOK, UpdateData, chainVars, Records, Machines
  <2>5. Working'
    BY <1>0, <1>14, ServiceAssumption, SMT, SMTT(20)
    DEF ServiceTypeOK, UpdateData, chainVars, Working, Records, Machines, HasChain
  <2>6. (Regular => Recovery /\ CopiesApart)'
    <3> SUFFICES ASSUME Regular' PROVE Recovery' /\ CopiesApart'
      OBVIOUS
    <3>1. Regular /\ Recovery /\ CopiesApart
      BY <1>0, <1>14 DEF Regular, UpdateData
    <3>2. phase = "serving" /\ UNCHANGED <<phase, active, copy, raced>>
      BY <1>0, <1>14, <3>1 DEF Regular, Machines, UpdateData
    <3>3. /\ active[i] = "own" /\ rec'[i].st = "open" /\ rec'[i].chan = Holds(i)
          /\ \A k \in Ids \ {i} : rec'[k] = rec[k]
          /\ \A k \in Ids : Holds(k)' = Holds(k)
      BY <1>0, <1>14, SMT, SMTT(20) DEF ServiceTypeOK, UpdateData, Holds
    <3>4. \A k \in Ids \ {i} : rec[k].st = "open" => rec[k].chan # Holds(i)
      BY <1>0, <3>1, <3>2, <3>3, SMT, SMTT(20) DEF Recovery, Channels, Registered, Regular
    <3> QED
      BY <3>1, <3>2, <3>3, <3>4, SMT, SMTT(20) DEF Recovery, CopiesApart, Registered
  <2> QED
    BY <2>1, <2>2, <2>3, <2>4, <2>5, <2>6 DEF ServiceInv
<1>15. ASSUME NEW i \in Ids,
           UpdateData(i),
           own' = [own EXCEPT ![i].pc = "stuck"],
           UNCHANGED rec
      PROVE  ServiceInv'
  <2>1. ServiceTypeOK'
    BY <1>0, <1>15, ServiceAssumption, SMT, SMTT(20)
    DEF ServiceTypeOK, UpdateData, chainVars, Phase, Assets, Enableable, MachinePc
  <2>2. Machines'
    BY <1>0, <1>15, ServiceAssumption, SMT, SMTT(20)
    DEF ServiceTypeOK, UpdateData, chainVars, Machines, Enableable
  <2>3. Channels'
    <3>1. raced \subseteq raced' /\ \A k \in Ids : active'[k] = active[k] \/ active'[k] = "none"
      BY <1>0, <1>15 DEF ServiceTypeOK, UpdateData, chainVars
    <3>2. \A k \in Ids : active'[k] # "none" => Holds(k)' = Holds(k)
      BY <1>0, <1>15, SMT, SMTT(20) DEF ServiceTypeOK, Holds, Machines, UpdateData, chainVars
    <3> QED
      BY <1>0, <3>1, <3>2, ChannelsKept
  <2>4. Records'
    BY <1>0, <1>15, ServiceAssumption, SMT, SMTT(20)
    DEF ServiceTypeOK, UpdateData, chainVars, Records, Machines
  <2>5. Working'
    BY <1>0, <1>15, ServiceAssumption
    DEF ServiceTypeOK, UpdateData, chainVars, Working, Records, Machines, HasChain
  <2>6. (Regular => Recovery /\ CopiesApart)'
    BY <1>0, <1>15, ServiceAssumption, SMT, SMTT(20)
    DEF ServiceTypeOK, UpdateData, chainVars, Regular, Recovery, CopiesApart, Registered,
        Holds, Machines, Records
  <2> QED
    BY <2>1, <2>2, <2>3, <2>4, <2>5, <2>6 DEF ServiceInv
<1>16. ASSUME NEW i \in Ids,
           Running(i),
           i \in work \/ HasChain(i),
           work' = IF i \in work THEN work \ {i} ELSE work \cup {i},
           UNCHANGED <<flavour, phase, chains, dbVersion, assetOf, rec, active, own, copy, early, raced, svcStops>>
      PROVE  ServiceInv'
  <2>1. ServiceTypeOK'
    BY <1>0, <1>16, ServiceAssumption
    DEF ServiceTypeOK, Running, Phase, Assets, Enableable, MachinePc
  <2>2. Machines'
    BY <1>0, <1>16, ServiceAssumption DEF ServiceTypeOK, Running, Machines, Enableable
  <2>3. Channels'
    <3>1. raced \subseteq raced' /\ \A k \in Ids : active'[k] = active[k] \/ active'[k] = "none"
      BY <1>0, <1>16 DEF ServiceTypeOK, Running
    <3>2. \A k \in Ids : active'[k] # "none" => Holds(k)' = Holds(k)
      BY <1>0, <1>16 DEF ServiceTypeOK, Holds, Machines, Running
    <3> QED
      BY <1>0, <3>1, <3>2, ChannelsKept
  <2>4. Records'
    BY <1>0, <1>16, ServiceAssumption DEF ServiceTypeOK, Running, Records, Machines
  <2>5. Working'
    <3>1. rec[i].st # "none"
      BY <1>0, <1>16 DEF Running, Records
    <3>2. work' \subseteq work \cup {i} /\ (i \in work' => HasChain(i))
      BY <1>0, <1>16
    <3> QED
      BY <1>0, <1>16, <3>1, <3>2 DEF Working, HasChain
  <2>6. (Regular => Recovery /\ CopiesApart)'
    BY <1>0, <1>16, ServiceAssumption, SMT, SMTT(20)
    DEF ServiceTypeOK, Running, Regular, Recovery, CopiesApart, Registered, Holds, Machines,
        Records
  <2> QED
    BY <2>1, <2>2, <2>3, <2>4, <2>5, <2>6 DEF ServiceInv
<1>17. ASSUME NEW i \in Ids,
           FinishOwn(i)
      PROVE  ServiceInv'
  <2>1. ServiceTypeOK'
    BY <1>0, <1>17, ServiceAssumption, SMT, SMTT(20)
    DEF ServiceTypeOK, FinishOwn, Phase, Assets, Enableable, MachinePc
  <2>2. Machines'
    BY <1>0, <1>17, ServiceAssumption, SMT, SMTT(20)
    DEF ServiceTypeOK, FinishOwn, Machines, Enableable
  <2>3. Channels'
    <3>1. raced \subseteq raced' /\ \A k \in Ids : active'[k] = active[k] \/ active'[k] = "none"
      BY <1>0, <1>17 DEF ServiceTypeOK, FinishOwn
    <3>2. \A k \in Ids : active'[k] # "none" => Holds(k)' = Holds(k)
      BY <1>0, <1>17, SMT, SMTT(20) DEF ServiceTypeOK, Holds, Machines, FinishOwn
    <3> QED
      BY <1>0, <3>1, <3>2, ChannelsKept
  <2>4. Records'
    BY <1>0, <1>17, ServiceAssumption, SMT, SMTT(20)
    DEF ServiceTypeOK, FinishOwn, Records, Machines
  <2>5. Working'
    BY <1>0, <1>17, ServiceAssumption
    DEF ServiceTypeOK, FinishOwn, Working, Records, Machines, HasChain
  <2>6. (Regular => Recovery /\ CopiesApart)'
    BY <1>0, <1>17, ServiceAssumption, SMT, SMTT(20)
    DEF ServiceTypeOK, FinishOwn, Regular, Recovery, CopiesApart, Registered, Holds,
        Machines, Records
  <2> QED
    BY <2>1, <2>2, <2>3, <2>4, <2>5, <2>6 DEF ServiceInv
<1>18. ASSUME NEW i \in Ids,
           FinishCopy(i)
      PROVE  ServiceInv'
  <2>1. ServiceTypeOK'
    BY <1>0, <1>18, ServiceAssumption, SMT, SMTT(20)
    DEF ServiceTypeOK, FinishCopy, Phase, Assets, Enableable, MachinePc
  <2>2. Machines'
    BY <1>0, <1>18, ServiceAssumption, SMT, SMTT(20)
    DEF ServiceTypeOK, FinishCopy, Machines, Enableable
  <2>3. Channels'
    <3>1. raced \subseteq raced' /\ \A k \in Ids : active'[k] = active[k] \/ active'[k] = "none"
      BY <1>0, <1>18 DEF ServiceTypeOK, FinishCopy
    <3>2. \A k \in Ids : active'[k] # "none" => Holds(k)' = Holds(k)
      BY <1>0, <1>18, SMT, SMTT(20) DEF ServiceTypeOK, Holds, Machines, FinishCopy
    <3> QED
      BY <1>0, <3>1, <3>2, ChannelsKept
  <2>4. Records'
    BY <1>0, <1>18, ServiceAssumption, SMT, SMTT(20)
    DEF ServiceTypeOK, FinishCopy, Records, Machines
  <2>5. Working'
    BY <1>0, <1>18, ServiceAssumption
    DEF ServiceTypeOK, FinishCopy, Working, Records, Machines, HasChain
  <2>6. (Regular => Recovery /\ CopiesApart)'
    BY <1>0, <1>18, ServiceAssumption, SMT, SMTT(20)
    DEF ServiceTypeOK, FinishCopy, Regular, Recovery, CopiesApart, Registered, Holds,
        Machines, Records
  <2> QED
    BY <2>1, <2>2, <2>3, <2>4, <2>5, <2>6 DEF ServiceInv
<1>19. ASSUME NEW i \in Ids,
           RemoveActiveSwap(i),
           own[i].pc = "finishing",
           own' = [own EXCEPT ![i].pc = "gone"],
           UNCHANGED copy
      PROVE  ServiceInv'
  <2>1. ServiceTypeOK'
    BY <1>0, <1>19, ServiceAssumption, SMT, SMTT(20)
    DEF ServiceTypeOK, RemoveActiveSwap, chainVars, Phase, Assets, Enableable, MachinePc
  <2>2. Machines'
    BY <1>0, <1>19, ServiceAssumption
    DEF ServiceTypeOK, RemoveActiveSwap, chainVars, Machines, Enableable
  <2>3. Channels'
    <3>1. raced \subseteq raced' /\ \A k \in Ids : active'[k] = active[k] \/ active'[k] = "none"
      BY <1>0, <1>19 DEF ServiceTypeOK, RemoveActiveSwap, chainVars
    <3>2. \A k \in Ids : active'[k] # "none" => Holds(k)' = Holds(k)
      BY <1>0, <1>19 DEF ServiceTypeOK, Holds, Machines, RemoveActiveSwap, chainVars
    <3> QED
      BY <1>0, <3>1, <3>2, ChannelsKept
  <2>4. Records'
    BY <1>0, <1>19, ServiceAssumption, SMT, SMTT(20)
    DEF ServiceTypeOK, RemoveActiveSwap, chainVars, Records, Machines
  <2>5. Working'
    BY <1>0, <1>19, ServiceAssumption, SMT, SMTT(20)
    DEF ServiceTypeOK, RemoveActiveSwap, chainVars, Working, Records, Machines, HasChain
  <2>6. (Regular => Recovery /\ CopiesApart)'
    BY <1>0, <1>19, ServiceAssumption, SMT, SMTT(20)
    DEF ServiceTypeOK, RemoveActiveSwap, chainVars, Regular, Recovery, CopiesApart,
        Registered, Holds, Machines, Records
  <2> QED
    BY <2>1, <2>2, <2>3, <2>4, <2>5, <2>6 DEF ServiceInv
<1>20. ASSUME NEW i \in Ids,
           RemoveActiveSwap(i),
           copy[i].pc = "finishing",
           copy' = [copy EXCEPT ![i].pc = "gone"],
           UNCHANGED own
      PROVE  ServiceInv'
  <2>0. /\ copy \in [Ids -> [pc : MachinePc, chan : Chans \cup {NoChan}]]
        /\ copy' = [copy EXCEPT ![i].pc = "gone"]
        /\ "gone" \in MachinePc
    BY <1>0, <1>20 DEF ServiceTypeOK, MachinePc
  <2>m. /\ copy' \in [Ids -> [pc : MachinePc, chan : Chans \cup {NoChan}]]
        /\ copy'[i].pc = "gone"
        /\ \A k \in Ids : copy'[k].chan = copy[k].chan /\ (k # i => copy'[k].pc = copy[k].pc)
    BY <2>0, MachineMoves, SMT, SMTT(20)
  <2>a. /\ active' \in [Ids -> {"none", "own", "copy"}]
        /\ active'[i] = "none"
        /\ \A k \in Ids \ {i} : active'[k] = active[k]
    BY <1>0, <1>20 DEF ServiceTypeOK, RemoveActiveSwap
  <2>v. /\ UNCHANGED <<raced, flavour, chains, assetOf, work, phase>>
        /\ UNCHANGED <<dbVersion, rec, own, early, svcStops>>
    BY <1>20 DEF RemoveActiveSwap, chainVars
  <2>1. ServiceTypeOK'
    BY <1>0, <2>m, <2>a, <2>v DEF ServiceTypeOK
  <2>2. Machines'
    BY <1>0, <1>20, ServiceAssumption
    DEF ServiceTypeOK, RemoveActiveSwap, chainVars, Machines, Enableable
  <2>3. Channels'
    <3>1. raced \subseteq raced' /\ \A k \in Ids : active'[k] = active[k] \/ active'[k] = "none"
      BY <1>0, <1>20 DEF ServiceTypeOK, RemoveActiveSwap, chainVars
    <3>2. \A k \in Ids : active'[k] # "none" => Holds(k)' = Holds(k)
      BY <1>0, <1>20 DEF ServiceTypeOK, Holds, Machines, RemoveActiveSwap, chainVars
    <3> QED
      BY <1>0, <3>1, <3>2, ChannelsKept
  <2>4. Records'
    BY <1>0, <1>20, <2>m, <2>v, SMT, SMTT(20) DEF Records
  <2>5. Working'
    <3>1. \A k \in Ids : copy'[k].pc = "running" => copy[k].pc = "running"
      BY <2>m
    <3> QED
      BY <1>0, <2>v, <3>1 DEF ServiceTypeOK, Working, HasChain
  <2>6. (Regular => Recovery /\ CopiesApart)'
    <3> SUFFICES ASSUME Regular' PROVE (Recovery /\ CopiesApart)'
      OBVIOUS
    <3>1. Regular /\ Recovery /\ CopiesApart
      BY <1>0, <1>20 DEF Regular, RemoveActiveSwap
    <3>2. Recovery'
      <4>1. rec[i].st # "open"
        BY <1>0, <1>20, <3>1 DEF Regular, Records
      <4>2. \A k \in Ids \ {i} : Registered(k)' = Registered(k) /\ Holds(k)' = Holds(k)
        BY <2>m, <2>a, <2>v DEF Registered, Holds
      <4>3. ASSUME NEW k \in Ids, rec'[k].st = "open"
            PROVE  /\ \A j \in Ids : k # j /\ rec'[j].st = "open" => rec'[k].chan # rec'[j].chan
                   /\ phase' = "serving" => Registered(k)' /\ Holds(k)' = rec'[k].chan
        BY <2>v, <3>1, <4>1, <4>2, <4>3 DEF Recovery
      <4>4. ASSUME NEW k \in Ids, rec'[k].st = "open", phase' = "recovering"
            PROVE  /\ copy'[k].pc \in {"listed", "locked", "running"} /\ copy'[k].chan = rec'[k].chan
                   /\ active'[k] = IF copy'[k].pc = "listed" THEN "none" ELSE "copy"
        <5>1. k # i /\ rec[k].st = "open" /\ phase = "recovering"
          BY <2>v, <4>1, <4>4
        <5> QED
          BY <2>m, <2>a, <2>v, <3>1, <5>1, SMT, SMTT(20) DEF Recovery
      <4> QED
        BY <4>3, <4>4 DEF Recovery
    <3>3. CopiesApart'
      BY <1>20, <2>m, <2>v, <3>1, SMT, SMTT(20) DEF CopiesApart
    <3> QED
      BY <3>2, <3>3
  <2> QED
    BY <2>1, <2>2, <2>3, <2>4, <2>5, <2>6 DEF ServiceInv
<1>u. ASSUME UNCHANGED svcVars PROVE ServiceInv'
  <2>v. /\ UNCHANGED <<active, raced, flavour, chains, assetOf, work, phase>>
        /\ UNCHANGED <<dbVersion, rec, own, copy, early, svcStops>>
    BY <1>u DEF svcVars
  <2>1. ServiceTypeOK'
    BY <1>0, <2>v DEF ServiceTypeOK
  <2>2. Machines' /\ Records'
    BY <1>0, <2>v DEF Machines, Records
  <2>3. Channels'
    BY <1>0, <2>v DEF Channels, Registered, Holds
  <2>4. Working'
    BY <1>0, <2>v DEF Working, HasChain
  <2>5. (Regular => Recovery /\ CopiesApart)'
    BY <1>0, <2>v DEF Regular, Recovery, CopiesApart, Registered, Holds
  <2> QED
    BY <2>1, <2>2, <2>3, <2>4, <2>5 DEF ServiceInv
<1>c. ASSUME NEW i \in Ids, NEW c \in Chans, NEW a \in Assets,
             RequestReceived(i, c, a) \/ SwapCommand(i, c, a)
      PROVE  ServiceInv'
  <2>1. a \in Enableable
    BY <1>0, <1>c DEF RequestReceived, SwapCommand, ServiceTypeOK
  <2>2. phase # "down" /\ (flavour = "lnd" => phase = "serving")
    BY <1>0, <1>c DEF RequestReceived, SwapCommand, RequestsOpen, CommandsOpen, ServiceTypeOK
  <2> QED
    BY <1>c, <2>1, <2>2, <1>12 DEF RequestReceived, SwapCommand
<1>n. ASSUME NilServices PROVE ServiceInv'
  BY <1>0, <1>n, <1>7 DEF NilServices, ProcessEnds, ServiceTypeOK
<1>s. ASSUME Stop PROVE ServiceInv'
  BY <1>0, <1>s, <1>7, SMT, SMTT(20) DEF Stop, ProcessEnds, ServiceTypeOK
<1>r. ASSUME NEW i \in Ids, Recover(i) PROVE ServiceInv'
  <2>1. CASE i \in work /\ ~HasChain(i)
    BY <1>r, <2>1, <1>n DEF Recover
  <2>2. CASE ~(i \in work /\ ~HasChain(i))
    <3>1. copy[i].pc = "locked" /\ Recovered(i)
      BY <1>r, <2>2 DEF Recover
    <3> QED
      BY <3>1, <2>2, <1>10, <1>11 DEF Recovered
  <2> QED
    BY <2>1, <2>2
<1>w. ASSUME NEW i \in Ids, ChainWork(i) PROVE ServiceInv'
  <2>1. CASE i \notin work /\ ~HasChain(i)
    BY <1>w, <2>1, <1>n DEF ChainWork
  <2>2. CASE ~(i \notin work /\ ~HasChain(i))
    BY <1>w, <2>2, <1>16 DEF ChainWork
  <2> QED
    BY <2>1, <2>2
<1>d. ASSUME NEW i \in Ids, UpdateData(i) PROVE ServiceInv'
  BY <1>d, <1>14, <1>15 DEF UpdateData
<1>e. ASSUME NEW i \in Ids, RemoveActiveSwap(i) PROVE ServiceInv'
  BY <1>e, <1>19, <1>20 DEF RemoveActiveSwap
<1> QED
  BY <1>1, <1>2, <1>3, <1>4, <1>5, <1>6, <1>8, <1>9, <1>13, <1>17, <1>18, <1>u, <1>c, <1>s,
     <1>r,
     <1>w, <1>d, <1>e DEF ServiceNext, StartPlugin, StartPeerswapd
\* The first state of a fresh installation satisfies it.
LEMMA ServiceStart == ServiceInit => ServiceInv
BY SMT, SMTT(20)
DEF ServiceInit, ServiceInv, ServiceTypeOK, Phase, Enableable, Assets, MachinePc, NoRecord,
    NoMachine,
   Machines, Channels, Records, Working, Recovery, CopiesApart, Registered

\* The inductive invariant holds throughout.
LEMMA ServiceInvariant == ServiceSpec => []ServiceInv
BY ServiceStart, ServiceStep, PTL DEF ServiceSpec

\* The state of the service has its type.
THEOREM ServiceTypes == ServiceSpec => []ServiceTypeOK
<1>1. ServiceInv => ServiceTypeOK
  BY DEF ServiceInv
<1> QED
  BY <1>1, ServiceInvariant, PTL

\* lockSwap keeps one active swap per channel but for overlapping admissions, whatever
\* crashes, recovers and finishes in between.
THEOREM OneSwapPerChannel == ServiceSpec => []OneSwapPerChannelUnlessRaced
<1>1. ServiceInv => OneSwapPerChannelUnlessRaced
  <2> SUFFICES ASSUME ServiceInv, NEW i \in Ids, NEW j \in Ids, i # j, Registered(i), Registered(j),
                      GetScid(i) \in Chans, GetScid(i) = GetScid(j)
               PROVE  {i, j} \in raced
    BY DEF OneSwapPerChannelUnlessRaced
  <2>1. \A k \in Ids : Registered(k) /\ GetScid(k) \in Chans => GetScid(k) = Holds(k)
    BY ServiceAssumption DEF ServiceInv, ServiceTypeOK, Registered, GetScid, Holds
  <2> QED
    BY <2>1 DEF ServiceInv, Channels
<1> QED
  BY <1>1, ServiceInvariant, PTL

\* No entry of activeSwaps is left without record and without channel.
THEOREM EntryHasChannel == ServiceSpec => []NoForgottenEntry
<1>1. ServiceInv => NoForgottenEntry
  BY DEF ServiceInv, Machines, NoForgottenEntry
<1> QED
  BY <1>1, ServiceInvariant, PTL

\* When no admission was early or overlapped another, unfinished records are on different
\* channels, and RecoverSwaps registers every one of them.
THEOREM RecoveryLeavesNoneBehind == ServiceSpec => [](StoredSwapsShareNoChannel /\ RecoveryIsComplete)
<1>1. ServiceInv => StoredSwapsShareNoChannel /\ RecoveryIsComplete
  BY DEF ServiceInv, Recovery, StoredSwapsShareNoChannel, RecoveryIsComplete
<1> QED
  BY <1>1, ServiceInvariant, PTL

\* Behind LND the upgrade check and the recovery come before the first admission.
THEOREM LndWaitsForRecovery == ServiceSpec => []LndAdmitsAfterRecovery
<1>1. ServiceInv => LndAdmitsAfterRecovery
  BY DEF ServiceInv, ServiceTypeOK, Machines, LndAdmitsAfterRecovery
<1> QED
  BY <1>1, ServiceInvariant, PTL

\* The current version is written after the check only, and records are written by
\* recovery, by UpdateData and by the steps that finish a swap.
LEMMA Writers ==
  ASSUME [ServiceNext]_svcVars
  PROVE  /\ dbVersion # "current" /\ dbVersion' = "current" => phase = "checked"
         /\ \/ UNCHANGED rec
            \/ \E k \in Ids : Recover(k) \/ UpdateData(k) \/ FinishOwn(k) \/ FinishCopy(k)
<1>1. CASE UNCHANGED svcVars
  BY <1>1 DEF svcVars
<1>2. ASSUME NEW C, StartPlugin(C) \/ StartPeerswapd(C)
      PROVE  UNCHANGED <<dbVersion, rec>>
  BY <1>2 DEF StartPlugin, StartPeerswapd, StartDaemon
<1>3. CASE SetReady \/ SafeUpgrade \/ RecoverSwaps \/ RecoverSwapsReturns
  BY <1>3 DEF SetReady, SafeUpgrade, RecoverSwaps, RecoverSwapsReturns
<1>4. CASE SetVersion
  BY <1>4 DEF SetVersion
<1>5. CASE Stop
  BY <1>5 DEF Stop, ProcessEnds
<1>6. ASSUME NEW i \in Ids,
             RecoverLock(i) \/ ApplyToSwapData(i) \/ ChainWork(i) \/ RemoveActiveSwap(i)
      PROVE  UNCHANGED <<dbVersion, rec>>
  BY <1>6
  DEF RecoverLock, ApplyToSwapData, ChainWork, NilServices, ProcessEnds, RemoveActiveSwap
<1>7. ASSUME NEW i \in Ids, NEW c \in Chans, NEW a \in Assets,
             RequestReceived(i, c, a) \/ SwapCommand(i, c, a)
      PROVE  UNCHANGED <<dbVersion, rec>>
  BY <1>7 DEF RequestReceived, SwapCommand, lockSwap
<1>8. ASSUME NEW i \in Ids, Recover(i) \/ UpdateData(i) \/ FinishOwn(i) \/ FinishCopy(i)
      PROVE  UNCHANGED dbVersion
  BY <1>8 DEF Recover, Recovered, NilServices, ProcessEnds, UpdateData, FinishOwn, FinishCopy
<1> QED BY <1>1, <1>2, <1>3, <1>4, <1>5, <1>6, <1>7, <1>8 DEF ServiceNext

\* The version changes only while no swap but an early one is unfinished, although other
\* swaps may be admitted between the check and SetVersion.
THEOREM UpgradeWhenIdle == ServiceSpec => UpgradeOnlyWhenIdle
<1>1. ServiceInv /\ [ServiceNext]_svcVars =>
        (dbVersion # "current" /\ dbVersion' = "current"
           => \A i \in Ids : rec[i].st = "open" => i \in early)
  <2> SUFFICES ASSUME ServiceInv, [ServiceNext]_svcVars, dbVersion # "current", dbVersion' = "current"
               PROVE  \A i \in Ids : rec[i].st = "open" => i \in early
    OBVIOUS
  <2>1. phase = "checked"
    BY Writers
  <2> QED
    BY <2>1 DEF ServiceInv, Records
<1> QED
  BY <1>1, ServiceInvariant, PTL DEF UpgradeOnlyWhenIdle, ServiceSpec

\* No save reopens a finished record, early admissions apart.
THEOREM FinishedForGood == ServiceSpec => FinishedStaysFinished
<1>1. ServiceInv /\ [ServiceNext]_svcVars =>
        \A i \in Ids : rec[i].st = "done" /\ i \notin early => rec'[i].st = "done"
  <2> SUFFICES ASSUME ServiceInv, [ServiceNext]_svcVars, NEW i \in Ids,
                      rec[i].st = "done", i \notin early
               PROVE  rec'[i].st = "done"
    OBVIOUS
  <2>0. ServiceTypeOK /\ Records
    BY DEF ServiceInv
  <2>1. ASSUME NEW k \in Ids, Recover(k) PROVE rec'[i].st = "done"
    <3>1. k = i => copy[i].pc # "locked"
      BY <2>0 DEF Records
    <3> QED
      BY <2>0, <2>1, <3>1 DEF ServiceTypeOK, Recover, Recovered, NilServices
  <2>2. ASSUME NEW k \in Ids, UpdateData(k) PROVE rec'[i].st = "done"
    <3>1. k = i => own[i].pc # "applied"
      BY <2>0 DEF Records
    <3> QED
      BY <2>0, <2>2, <3>1 DEF ServiceTypeOK, UpdateData
  <2>3. ASSUME NEW k \in Ids, FinishOwn(k) \/ FinishCopy(k) PROVE rec'[i].st = "done"
    BY <2>0, <2>3, SMT, SMTT(20) DEF ServiceTypeOK, FinishOwn, FinishCopy
  <2>4. CASE UNCHANGED rec
    BY <2>4
  <2> QED
    BY <2>1, <2>2, <2>3, <2>4, Writers
<1> QED
  BY <1>1, ServiceInvariant, PTL DEF FinishedStaysFinished, ServiceSpec

\* A swap with work left on a chain is finished only in a process that has the chain.
THEOREM WorkNeedsChain == ServiceSpec => ChainWorkNeedsChain
<1>1. ServiceInv /\ [ServiceNext]_svcVars =>
        \A i \in work : rec[i].st = "open" /\ rec'[i].st = "done" => HasChain(i)
  <2> SUFFICES ASSUME ServiceInv, [ServiceNext]_svcVars, NEW i \in work,
                      rec[i].st = "open", rec'[i].st = "done"
               PROVE  HasChain(i)
    OBVIOUS
  <2>0. ServiceTypeOK /\ Working /\ Machines /\ i \in Ids
    BY DEF ServiceInv, ServiceTypeOK
  <2>1. ASSUME NEW k \in Ids, Recover(k) PROVE HasChain(i)
    BY <2>0, <2>1 DEF ServiceTypeOK, Recover, Recovered, NilServices
  <2>2. ASSUME NEW k \in Ids, UpdateData(k) PROVE FALSE
    <3>1. rec'[i] = rec[i] \/ rec'[i] = [st |-> "open", chan |-> own[k].chan]
      BY <2>0, <2>2 DEF ServiceTypeOK, UpdateData
    <3> QED
      BY <3>1
  <2>3. ASSUME NEW k \in Ids, FinishOwn(k) \/ FinishCopy(k) PROVE HasChain(i)
    <3>1. k = i
      BY <2>0, <2>3 DEF ServiceTypeOK, FinishOwn, FinishCopy
    <3> QED
      BY <2>0, <2>3, <3>1 DEF FinishOwn, FinishCopy, Working
  <2>4. CASE UNCHANGED rec
    BY <2>4
  <2> QED
    BY <2>1, <2>2, <2>3, <2>4, Writers
<1> QED
  BY <1>1, ServiceInvariant, PTL DEF ChainWorkNeedsChain, ServiceSpec
-----------------------------------------------------------------------------
\* LND's streams.

WatchType == [adds : Nat, adding : Nat, live : Nat, deaf : Nat]

Streams == watch.adding + watch.live + watch.deaf

\* A swap without a key has no goroutine; the CSV watch never gets one.
LndInv ==
  /\ watchKind \in {"pay", "csv", "conf"}
  /\ key \in BOOLEAN /\ troubled \in BOOLEAN
  /\ watch \in WatchType
  /\ watchKind = "csv" => ~key
  /\ watchKind # "csv" => Streams <= 1 /\ (~key => Streams = 0)
  /\ KeyMeansListener

\* Updates of a watch record.
LEMMA WatchUpdates ==
  ASSUME NEW w \in WatchType, NEW x \in Nat, NEW y \in Nat
  PROVE  /\ [w EXCEPT !.live = x] \in WatchType
         /\ [w EXCEPT !.adding = x] \in WatchType
         /\ [w EXCEPT !.adds = x, !.adding = y] \in WatchType
         /\ [w EXCEPT !.adding = x, !.live = y] \in WatchType
         /\ [w EXCEPT !.live = x, !.deaf = y] \in WatchType
BY DEF WatchType

\* A goroutine that ends takes the key with it.
LEMMA WatchEndsStep ==
  ASSUME LndInv, watch.live > 0, WatchEnds, watchKind' = watchKind, troubled' \in BOOLEAN
  PROVE  LndInv'
<1>1. watch \in WatchType /\ watch.live - 1 \in Nat
  BY SMT, SMTT(20) DEF LndInv, WatchType
<1>2. watch' \in WatchType
  BY <1>1, WatchUpdates DEF WatchEnds
<1>3. watch'.adding = watch.adding /\ watch'.live = watch.live - 1 /\ watch'.deaf = watch.deaf
  BY <1>1 DEF WatchEnds, WatchType
<1>4. watchKind # "csv" => Streams' = 0
  <2>1. watchKind # "csv" => watch.adding + watch.live + watch.deaf <= 1
    BY DEF LndInv, Streams
  <2>2. watch.adding \in Nat /\ watch.live \in Nat /\ watch.deaf \in Nat
    BY <1>1 DEF WatchType
  <2> QED
    BY <1>3, <2>1, <2>2, SMT, SMTT(20) DEF Streams
<1>5. ~key' /\ key' \in BOOLEAN
  BY DEF WatchEnds
<1> QED
  BY <1>2, <1>4, <1>5, SMT, SMTT(20) DEF LndInv, KeyMeansListener

\* Every step of the goroutines, of lnd and of the daemon keeps LndInv.
LEMMA LndStep ==
  ASSUME LndInv, [LndNext]_lndVars
  PROVE  LndInv'
<1>0. watch \in WatchType /\ watchKind \in {"pay", "csv", "conf"} /\ key \in BOOLEAN
      /\ troubled \in BOOLEAN
  BY DEF LndInv
<1>1. CASE AddWait
  <2>1. CASE key
    <3>0. /\ watch' = [watch EXCEPT !.adds = watch.adds + 1, !.adding = watch.adding]
          /\ watch.adds + 1 \in Nat /\ watch.adding \in Nat
      BY <1>0, <1>1, <2>1, SMT, SMTT(20) DEF AddWait, WatchType
    <3>1. watch' \in WatchType
      BY <1>0, <3>0, WatchUpdates
    <3>2. watch'.adding = watch.adding /\ watch'.live = watch.live /\ watch'.deaf = watch.deaf
      BY <1>0, <1>1, <2>1 DEF AddWait, WatchType
    <3>3. key' /\ key' \in BOOLEAN /\ watchKind' = watchKind /\ troubled' = troubled
      BY <1>1, <2>1 DEF AddWait, WritesOwnKey
    <3> QED
      BY <1>0, <2>1, <3>1, <3>2, <3>3 DEF LndInv, Streams, KeyMeansListener
  <2>2. CASE ~key
    <3>0. watch.adds + 1 \in Nat /\ watch.adding + 1 \in Nat
      BY <1>0, SMT, SMTT(20) DEF WatchType
    <3>1. watch' = [watch EXCEPT !.adds = watch.adds + 1, !.adding = watch.adding + 1]
      BY <1>1, <2>2 DEF AddWait
    <3>2. watch' \in WatchType
      BY <1>0, <3>0, <3>1, WatchUpdates
    <3>3. watch'.adding = watch.adding + 1 /\ watch'.live = watch.live /\ watch'.deaf = watch.deaf
      BY <1>0, <3>1 DEF WatchType
    <3>4. key' = (watchKind # "csv") /\ watchKind' = watchKind /\ troubled' = troubled
      BY <1>1, <2>2 DEF AddWait, WritesOwnKey
    <3>5. watchKind # "csv" => Streams' <= 1
      BY <1>0, <2>2, <3>2, <3>3, SMT, SMTT(20) DEF LndInv, Streams, WatchType
    <3>6. watch'.adding + watch'.live > 0
      BY <1>0, <3>2, <3>3, SMT, SMTT(20) DEF WatchType
    <3> QED
      BY <1>0, <3>2, <3>4, <3>5, <3>6 DEF LndInv, KeyMeansListener
  <2> QED
    BY <2>1, <2>2
<1>2. CASE SubscribeStream
  <2>1. watch.adding - 1 \in Nat /\ watch.live + 1 \in Nat
    BY <1>0, <1>2, SMT, SMTT(20) DEF SubscribeStream, WatchType
  <2>2. watch' \in WatchType
    BY <1>0, <1>2, <2>1, WatchUpdates DEF SubscribeStream
  <2>3. /\ watch'.adding = watch.adding - 1 /\ watch'.live = watch.live + 1
        /\ watch'.deaf = watch.deaf
    BY <1>0, <1>2 DEF SubscribeStream, WatchType
  <2>4. Streams' = Streams /\ watch'.adding + watch'.live > 0
    BY <1>0, <2>1, <2>2, <2>3, SMT, SMTT(20) DEF Streams, WatchType
  <2>5. watchKind' = watchKind /\ key' = key /\ troubled' = troubled
    BY <1>2 DEF SubscribeStream
  <2> QED
    BY <2>2, <2>4, <2>5 DEF LndInv, KeyMeansListener
<1>3. CASE SubscribeFails
  <2>1. watch.adding - 1 \in Nat
    BY <1>0, <1>3, SMT, SMTT(20) DEF SubscribeFails, WatchType
  <2>2. watch' \in WatchType
    BY <1>0, <1>3, <2>1, WatchUpdates DEF SubscribeFails
  <2>3. watch'.adding = watch.adding - 1 /\ watch'.live = watch.live /\ watch'.deaf = watch.deaf
    BY <1>0, <1>3 DEF SubscribeFails, WatchType
  <2>4. /\ watchKind # "csv" => Streams' <= 1
        /\ Streams = 0 => FALSE
    BY <1>0, <1>3, <2>1, <2>2, <2>3, SMT, SMTT(20)
    DEF LndInv, Streams, WatchType, SubscribeFails
  <2>5. watchKind' = watchKind /\ key' = key /\ troubled' = TRUE
    BY <1>3 DEF SubscribeFails
  <2> QED
    BY <2>2, <2>4, <2>5 DEF LndInv, KeyMeansListener
<1>4. CASE Notified
  BY <1>0, <1>4, WatchEndsStep DEF Notified
<1>5. CASE InvoiceCancelled
  BY <1>0, <1>5, WatchEndsStep DEF InvoiceCancelled
<1>6. CASE StreamFails
  BY <1>0, <1>6, WatchEndsStep DEF StreamFails
<1>7. CASE StreamEof
  <2>1. CASE watchKind = "pay"
    BY <1>0, <1>7, <2>1, WatchEndsStep DEF StreamEof
  <2>2. CASE watchKind # "pay"
    <3>1. watch.live - 1 \in Nat /\ watch.deaf + 1 \in Nat
      BY <1>0, <1>7, SMT, SMTT(20) DEF StreamEof, WatchType
    <3>0. watch' = [watch EXCEPT !.live = watch.live - 1, !.deaf = watch.deaf + 1]
      BY <1>7, <2>2 DEF StreamEof
    <3>2. watch' \in WatchType
      BY <1>0, <3>0, <3>1, WatchUpdates
    <3>3. /\ watch'.adding = watch.adding /\ watch'.live = watch.live - 1
          /\ watch'.deaf = watch.deaf + 1
      BY <1>0, <1>7, <2>2 DEF StreamEof, WatchType
    <3>4. Streams' = Streams
      BY <1>0, <3>1, <3>2, <3>3, SMT, SMTT(20) DEF Streams, WatchType
    <3>5. watchKind' = watchKind /\ key' = key /\ troubled' = TRUE
      BY <1>7, <2>2 DEF StreamEof
    <3> QED
      BY <3>2, <3>4, <3>5 DEF LndInv, KeyMeansListener
  <2> QED
    BY <2>1, <2>2
<1>8. CASE UNCHANGED <<watchKind, key, watch, troubled>>
  BY <1>8 DEF LndInv, Streams, KeyMeansListener
<1>9. ASSUME ~(AddWait \/ SubscribeStream \/ SubscribeFails \/ Notified \/ InvoiceCancelled
               \/ StreamFails \/ StreamEof)
      PROVE  UNCHANGED <<watchKind, key, watch, troubled>>
  BY <1>9 DEF LndNext, LndEvent, MessageSent, TakeMessage, HandleCustomMessage, MachineBusy,
              MachineFree, MessagesEnd, StopPayments, StopReturns, lndVars
<1> QED
  BY <1>1, <1>2, <1>3, <1>4, <1>5, <1>6, <1>7, <1>8, <1>9

LEMMA LndInvariant == LndSpec => []LndInv
<1>1. LndInit => LndInv
  <2> SUFFICES ASSUME LndInit
               PROVE  LndInv
    OBVIOUS
  <2>1. watch = [adds |-> 0, adding |-> 0, live |-> 0, deaf |-> 0]
    BY DEF LndInit
  <2>2. watch \in WatchType /\ Streams = 0
    BY <2>1, SMT, SMTT(20) DEF Streams, WatchType
  <2>3. ~key /\ key \in BOOLEAN /\ troubled \in BOOLEAN
    BY DEF LndInit
  <2> QED
    BY <2>2, <2>3, SMT, SMTT(20) DEF LndInit, LndInv, KeyMeansListener
<1>2. LndInv /\ [LndNext]_lndVars => LndInv'
  BY LndStep
<1> QED
  BY <1>1, <1>2, PTL DEF LndSpec

\* However often a swap asks, one goroutine watches its invoice or its confirmation, and
\* a key without a goroutine is left by a failed subscription or an ended stream only
\* (AddWaitForPayment, AddWaitForConfirmationTx).
THEOREM WatchesAreSingle == LndSpec => [](OneStreamPerWatch /\ KeyMeansListener)
<1>1. LndInv => OneStreamPerWatch /\ KeyMeansListener
  BY DEF LndInv, OneStreamPerWatch, Streams
<1> QED
  BY <1>1, LndInvariant, PTL

-----------------------------------------------------------------------------
\* The watcher behind a node's RPC.

AdderRec == [pc : {"idle", "check", "lock", "callback", "listed", "kick"}, height : Nat]

LoopRec == [pc : {"none", "select", "lookup", "calling", "exit", "gone"}, last : Nat,
            sent : SUBSET Nat, verdict : {"none", "canceled", "confirmed"}]

MainRec == [pc : {"select", "lock", "csv", "callback", "claimed"}, todo : SUBSET RpcMakers,
            cur : RpcMakers \cup {Free}, passed : SUBSET (RpcMakers \cup {Free})]

BlocksRec == [pc : {"tick", "send"}, last : Nat]

Outcome == {"new", "waiting", "csv passed", "paid", "none", "canceled", "confirmed"}

RpcTypeOK ==
  /\ tip \in Nat
  /\ minedAt \in [RpcSwaps -> Nat]
  /\ blocks \in BlocksRec
  /\ main \in MainRec
  /\ adder \in [RpcSwaps -> AdderRec]
  /\ loop \in [RpcTakers -> LoopRec]
  /\ csvList \subseteq RpcMakers
  /\ waits \in [RpcSwaps -> Outcome]

\* Nobody has seen a height above the tip.
Heights ==
  /\ tip <= MaxTip /\ blocks.last <= tip
  /\ \A s \in RpcSwaps : minedAt[s] <= tip /\ adder[s].height <= tip
  /\ \A t \in RpcTakers : loop[t].last <= tip /\ \A h \in loop[t].sent : h <= tip

\* Who is listed, visited or called back waits or was told; who has passed was told.
ListInv ==
  /\ \A m \in RpcMakers :
       /\ m \in csvList \cup main.todo => waits[m] # "new"
       /\ adder[m].pc # "idle" => waits[m] # "new"
       /\ m \in main.passed => waits[m] \notin {"new", "waiting"}
  /\ main.pc = "callback" => main.cur \in RpcMakers /\ waits[main.cur] # "new"
  /\ MakerIsListed

\* The transaction has its confirmations, or the loop was given a height so old that the
\* subtraction wrapped.
Enough(t) == minedAt[t] # 0 /\ (Depth(t) >= RequiredConfs \/ loop[t].last + 1 < minedAt[t])

ConfInv ==
  \A t \in RpcTakers : loop[t].pc = "calling" /\ loop[t].verdict = "confirmed" => Enough(t)

\* uint32 arithmetic is exact where nothing is borrowed.
LEMMA SubExact ==
  ASSUME NEW a \in Nat, NEW b \in Nat, b <= a, a < Uint
  PROVE  Sub(a, b) = a - b
<1>1. Uint \in Nat \ {0}
  BY RpcAssumption, SMT, SMTT(20)
<1>2. a + Uint - b = 1 * Uint + (a - b) /\ a - b \in 0..(Uint - 1)
  BY <1>1, SMT, SMTT(20)
<1>3. (a + Uint - b) % Uint = a - b
  BY <1>1, <1>2, SMT, SMTT(20)
<1> QED
  BY <1>3 DEF Sub

\* What LookUp counts as deep enough is, unless it wrapped.
LEMMA DeepIsDeep ==
  ASSUME RpcTypeOK, Heights, NEW t \in RpcTakers, minedAt[t] # 0, DeepEnough(t)
  PROVE  Enough(t)
<1> DEFINE l == loop[t].last
           b == minedAt[t] - 1
<1>1. /\ l \in Nat /\ b \in Nat /\ minedAt[t] \in Nat /\ tip \in Nat
      /\ l <= tip /\ minedAt[t] <= tip /\ tip <= MaxTip
  BY SMT, SMTT(20) DEF RpcTypeOK, Heights, RpcSwaps, LoopRec
<1>2. MaxTip < Uint /\ MaxTip \in Nat /\ Uint \in Nat /\ RequiredConfs \in Nat
  BY RpcAssumption, SMT, SMTT(20)
<1>3. CASE b <= l
  <2>1. l < Uint
    BY <1>1, <1>2, SMT, SMTT(20)
  <2>2. Sub(l, b) = l - b
    <3> HIDE DEF l, b
    <3> QED
      BY <1>1, <1>3, <2>1, SubExact
  <2>3. l - b >= RequiredConfs
    BY <2>2 DEF DeepEnough
  <2>4. Depth(t) >= RequiredConfs
    BY <1>1, <1>2, <2>3, SMT, SMTT(20) DEF Depth
  <2> QED
    BY <2>4 DEF Enough
<1>4. CASE l < b
  BY <1>1, <1>4, SMT, SMTT(20) DEF Enough
<1> QED
  BY <1>1, <1>3, <1>4, SMT, SMTT(20)

LEMMA MainUpdates ==
  ASSUME NEW r \in MainRec, NEW m \in RpcMakers \cup {Free}
  PROVE  /\ [r EXCEPT !.todo = @ \ {m}] \in MainRec
         /\ [r EXCEPT !.todo = @ \ {m}, !.pc = "callback", !.cur = m] \in MainRec
         /\ [r EXCEPT !.pc = "csv", !.cur = Free] \in MainRec
         /\ [r EXCEPT !.pc = "csv", !.cur = Free, !.passed = @ \cup {m}] \in MainRec
BY DEF MainRec

LEMMA ReceiveType ==
  ASSUME NEW l \in LoopRec, NEW h \in Nat
  PROVE  Receive(l, h) \in LoopRec
<1>1. [l EXCEPT !.sent = @ \ {h}] \in LoopRec
  BY DEF LoopRec
<1>2. ASSUME NEW r \in LoopRec
      PROVE  /\ [r EXCEPT !.last = h, !.pc = "calling", !.verdict = "canceled"] \in LoopRec
             /\ [r EXCEPT !.last = h, !.pc = "lookup"] \in LoopRec
  BY DEF LoopRec
<1> QED
  BY <1>1, <1>2 DEF Receive

\* Types, action by action.
LEMMA TypesMain ==
  ASSUME RpcTypeOK,
         NewBlockChan \/ HandleCsvTx \/ (\E m \in RpcMakers : CheckCsv(m))
           \/ CsvPassedCallback \/ CsvHandled \/ TxClaimed
  PROVE  RpcTypeOK'
<1>1. CASE NewBlockChan
  <2>1. blocks' \in BlocksRec
    BY <1>1 DEF RpcTypeOK, NewBlockChan, BlocksRec
  <2>2. main' \in MainRec
    BY <1>1 DEF RpcTypeOK, NewBlockChan, MainRec, BlocksRec
  <2>3. loop' \in [RpcTakers -> LoopRec]
    BY <1>1, SMT, SMTT(20) DEF RpcTypeOK, NewBlockChan, LoopRec, BlocksRec
  <2> QED
    BY <1>1, <2>1, <2>2, <2>3 DEF RpcTypeOK, NewBlockChan
<1>2. CASE HandleCsvTx
  <2>1. main' \in MainRec
    BY <1>2 DEF RpcTypeOK, HandleCsvTx, MainRec
  <2> QED
    BY <1>2, <2>1 DEF RpcTypeOK, HandleCsvTx
<1>3. ASSUME NEW m \in RpcMakers, CheckCsv(m)
      PROVE  RpcTypeOK'
  <2>1. main' \in MainRec
    <3>1. main \in MainRec /\ m \in RpcMakers \cup {Free}
      BY DEF RpcTypeOK
    <3>2. main' = [main EXCEPT !.todo = @ \ {m}]
          \/ main' = [main EXCEPT !.todo = @ \ {m}, !.pc = "callback", !.cur = m]
      BY <1>3 DEF CheckCsv
    <3>3. /\ [main EXCEPT !.todo = @ \ {m}] \in MainRec
          /\ [main EXCEPT !.todo = @ \ {m}, !.pc = "callback", !.cur = m] \in MainRec
      BY <3>1, MainUpdates
    <3> QED
      BY <3>2, <3>3
  <2> QED
    BY <1>3, <2>1 DEF RpcTypeOK, CheckCsv
<1>4. CASE CsvPassedCallback
  <2>1. main' \in MainRec
    <3>1. main \in MainRec /\ main.cur \in RpcMakers \cup {Free}
      BY DEF RpcTypeOK, MainRec
    <3> QED
      BY <1>4, <3>1, MainUpdates DEF CsvPassedCallback
  <2>2. waits' \in [RpcSwaps -> Outcome]
    BY <1>4 DEF RpcTypeOK, CsvPassedCallback, Outcome, Told, MainRec
  <2> QED
    BY <1>4, <2>1, <2>2 DEF RpcTypeOK, CsvPassedCallback
<1>5. CASE CsvHandled
  <2>1. main' \in MainRec
    BY <1>5 DEF RpcTypeOK, CsvHandled, MainRec
  <2> QED
    BY <1>5, <2>1 DEF RpcTypeOK, CsvHandled
<1>6. CASE TxClaimed
  <2>1. main' \in MainRec
    BY <1>6 DEF RpcTypeOK, TxClaimed, MainRec, IdleMain
  <2>2. csvList' \in SUBSET RpcMakers
    BY <1>6 DEF RpcTypeOK, TxClaimed, IdleMain
  <2> QED
    BY <1>6, <2>1, <2>2 DEF RpcTypeOK, TxClaimed
<1> QED
  BY <1>1, <1>2, <1>3, <1>4, <1>5, <1>6

LEMMA TypesMaker ==
  ASSUME RpcTypeOK, NEW m \in RpcMakers,
         AwaitCsv(m) \/ checkTxAboveCsvHight(m) \/ AlreadyPassed(m) \/ AddWaitForCsvTx(m)
           \/ OtherOutcome(m)
  PROVE  RpcTypeOK'
<1>1. CASE AwaitCsv(m)
  <2>1. waits' \in [RpcSwaps -> Outcome]
    BY <1>1 DEF RpcTypeOK, AwaitCsv, Outcome
  <2>2. adder' \in [RpcSwaps -> AdderRec]
    BY <1>1 DEF RpcTypeOK, AwaitCsv, AdderRec
  <2> QED
    BY <1>1, <2>1, <2>2 DEF RpcTypeOK, AwaitCsv
<1>2. CASE checkTxAboveCsvHight(m)
  <2>1. adder' \in [RpcSwaps -> AdderRec]
    BY <1>2, SMT, SMTT(20) DEF RpcTypeOK, checkTxAboveCsvHight, AdderRec
  <2> QED
    BY <1>2, <2>1 DEF RpcTypeOK, checkTxAboveCsvHight
<1>3. CASE AlreadyPassed(m)
  <2>1. waits' \in [RpcSwaps -> Outcome]
    BY <1>3 DEF RpcTypeOK, AlreadyPassed, Outcome, Told, IdleAdder
  <2>2. adder' \in [RpcSwaps -> AdderRec]
    <3>1. CASE adder' = [adder EXCEPT ![m] = IdleAdder]
      BY <3>1 DEF RpcTypeOK, AdderRec, IdleAdder
    <3>2. CASE adder' = [adder EXCEPT ![m].pc = "lock"]
      BY <3>2 DEF RpcTypeOK, AdderRec
    <3> QED
      BY <1>3, <3>1, <3>2 DEF AlreadyPassed
  <2> QED
    BY <1>3, <2>1, <2>2 DEF RpcTypeOK, AlreadyPassed
<1>4. CASE AddWaitForCsvTx(m)
  <2>1. csvList' \in SUBSET RpcMakers
    BY <1>4 DEF RpcTypeOK, AddWaitForCsvTx, IdleAdder
  <2>2. adder' \in [RpcSwaps -> AdderRec]
    BY <1>4 DEF RpcTypeOK, AddWaitForCsvTx, AdderRec, IdleAdder
  <2> QED
    BY <1>4, <2>1, <2>2 DEF RpcTypeOK, AddWaitForCsvTx
<1>5. CASE OtherOutcome(m)
  <2>1. waits' \in [RpcSwaps -> Outcome]
    BY <1>5 DEF RpcTypeOK, OtherOutcome, Outcome
  <2> QED
    BY <1>5, <2>1 DEF RpcTypeOK, OtherOutcome
<1> QED
  BY <1>1, <1>2, <1>3, <1>4, <1>5

LEMMA TypesTaker ==
  ASSUME RpcTypeOK, NEW t \in RpcTakers,
         AwaitConfirmation(t) \/ AddObserver(t) \/ FirstHeight(t) \/ FirstRun(t)
           \/ (\E h \in loop[t].sent : ReceiveBlock(t, h))
           \/ LookUp(t) \/ TxCallback(t) \/ LoopEnds(t)
  PROVE  RpcTypeOK'
<1>1. CASE AwaitConfirmation(t)
  <2>1. waits' \in [RpcSwaps -> Outcome]
    BY <1>1 DEF RpcTypeOK, AwaitConfirmation, Outcome, NewLoop, NoLoop
  <2>2. loop' \in [RpcTakers -> LoopRec]
    BY <1>1 DEF RpcTypeOK, AwaitConfirmation, LoopRec, NewLoop, NoLoop
  <2>3. adder' \in [RpcSwaps -> AdderRec]
    BY <1>1 DEF RpcTypeOK, AwaitConfirmation, AdderRec, NewLoop, NoLoop
  <2> QED
    BY <1>1, <2>1, <2>2, <2>3 DEF RpcTypeOK, AwaitConfirmation
<1>2. CASE AddObserver(t)
  <2>1. adder' \in [RpcSwaps -> AdderRec]
    BY <1>2 DEF RpcTypeOK, AddObserver, AdderRec
  <2> QED
    BY <1>2, <2>1 DEF RpcTypeOK, AddObserver
<1>3. CASE FirstHeight(t)
  <2>1. adder' \in [RpcSwaps -> AdderRec]
    <3>1. PICK h \in Nat : adder' = [adder EXCEPT ![t] = [pc |-> "kick", height |-> h]]
      BY <1>3 DEF RpcTypeOK, FirstHeight
    <3> QED
      BY <3>1 DEF RpcTypeOK, AdderRec
  <2> QED
    BY <1>3, <2>1 DEF RpcTypeOK, FirstHeight
<1>4. CASE FirstRun(t)
  <2>1. loop' \in [RpcTakers -> LoopRec]
    <3>1. loop[t] \in LoopRec /\ adder[t].height \in Nat /\ loop[t].sent \in SUBSET Nat
      BY DEF RpcTypeOK, RpcSwaps, AdderRec, LoopRec
    <3>2. Receive(loop[t], adder[t].height) \in LoopRec
      BY <3>1, ReceiveType
    <3>3. [Receive(loop[t], adder[t].height) EXCEPT !.sent = loop[t].sent] \in LoopRec
      BY <3>1, <3>2 DEF LoopRec
    <3> QED
      BY <1>4, <3>3 DEF RpcTypeOK, FirstRun
  <2>2. adder' \in [RpcSwaps -> AdderRec]
    BY <1>4 DEF RpcTypeOK, FirstRun, AdderRec, Receive, IdleAdder, AdderRec, RpcSwaps
  <2> QED
    BY <1>4, <2>1, <2>2 DEF RpcTypeOK, FirstRun
<1>5. ASSUME NEW h \in loop[t].sent, ReceiveBlock(t, h)
      PROVE  RpcTypeOK'
  <2>1. loop' \in [RpcTakers -> LoopRec]
    <3>1. loop[t] \in LoopRec /\ h \in Nat
      BY <1>5 DEF RpcTypeOK, LoopRec
    <3>2. Receive(loop[t], h) \in LoopRec
      BY <3>1, ReceiveType
    <3> QED
      BY <1>5, <3>2 DEF RpcTypeOK, ReceiveBlock
  <2> QED
    BY <1>5, <2>1 DEF RpcTypeOK, ReceiveBlock
<1>6. CASE LookUp(t)
  <2>1. loop' \in [RpcTakers -> LoopRec]
    BY <1>6, SMT, SMTT(20) DEF RpcTypeOK, LookUp, LoopRec
  <2> QED
    BY <1>6, <2>1 DEF RpcTypeOK, LookUp
<1>7. CASE TxCallback(t)
  <2>1. waits' \in [RpcSwaps -> Outcome]
    BY <1>7 DEF RpcTypeOK, TxCallback, Outcome, LoopRec
  <2>2. loop' \in [RpcTakers -> LoopRec]
    BY <1>7 DEF RpcTypeOK, TxCallback, LoopRec
  <2> QED
    BY <1>7, <2>1, <2>2 DEF RpcTypeOK, TxCallback
<1>8. CASE LoopEnds(t)
  <2>1. loop' \in [RpcTakers -> LoopRec]
    BY <1>8 DEF RpcTypeOK, LoopEnds, LoopRec, NoLoop
  <2> QED
    BY <1>8, <2>1 DEF RpcTypeOK, LoopEnds
<1> QED
  BY <1>1, <1>2, <1>3, <1>4, <1>5, <1>6, <1>7, <1>8

LEMMA TypesOther ==
  ASSUME RpcTypeOK, MineBlock \/ BlockTick \/ RpcRestart \/ UNCHANGED rpcVars
  PROVE  RpcTypeOK'
<1>1. CASE MineBlock
  <2>1. minedAt' \in [RpcSwaps -> Nat]
    BY <1>1, SMT, SMTT(20) DEF RpcTypeOK, MineBlock
  <2> QED
    BY <1>1, <2>1, SMT, SMTT(20) DEF RpcTypeOK, MineBlock
<1>2. CASE BlockTick
  <2>1. blocks' \in BlocksRec
    BY <1>2, SMT, SMTT(20) DEF RpcTypeOK, BlockTick, BlocksRec
  <2> QED
    BY <1>2, <2>1 DEF RpcTypeOK, BlockTick
<1>3. CASE RpcRestart
  <2>1. blocks' \in BlocksRec
    BY <1>3
    DEF RpcTypeOK, RpcRestart, BlocksRec, FirstTick, IdleMain, IdleAdder, NewLoop, NoLoop
  <2>2. main' \in MainRec
    BY <1>3 DEF RpcTypeOK, RpcRestart, MainRec, FirstTick, IdleMain, IdleAdder, NewLoop, NoLoop
  <2>3. adder' \in [RpcSwaps -> AdderRec]
    BY <1>3 DEF RpcTypeOK, RpcRestart, AdderRec, FirstTick, IdleMain, IdleAdder, NewLoop, NoLoop
  <2>4. loop' \in [RpcTakers -> LoopRec]
    BY <1>3 DEF RpcTypeOK, RpcRestart, LoopRec, FirstTick, IdleMain, IdleAdder, NewLoop, NoLoop
  <2> QED
    BY <1>3, <2>1, <2>2, <2>3, <2>4 DEF RpcTypeOK, RpcRestart
<1>4. CASE UNCHANGED rpcVars
  BY <1>4 DEF RpcTypeOK, rpcVars
<1> QED
  BY <1>1, <1>2, <1>3, <1>4

LEMMA RpcTypes ==
  ASSUME RpcTypeOK, [RpcNext]_rpcVars
  PROVE  RpcTypeOK'
BY TypesMain, TypesMaker, TypesTaker, TypesOther DEF RpcNext

\* What a loop makes of a height is no higher than the tip.
LEMMA ReceiveHeights ==
  ASSUME NEW l \in LoopRec, NEW h \in Nat, NEW n \in Nat, h <= n, l.last <= n,
         \A k \in l.sent : k <= n
  PROVE  /\ Receive(l, h).last <= n
         /\ \A k \in Receive(l, h).sent : k <= n
BY DEF Receive, LoopRec

LEMMA HeightsStep ==
  ASSUME RpcTypeOK, Heights, [RpcNext]_rpcVars
  PROVE  Heights'
<1>1. CASE MineBlock
  <2>1. tip' <= MaxTip /\ tip' = tip + 1 /\ tip \in Nat /\ MaxTip \in Nat
    BY <1>1, RpcAssumption, SMT, SMTT(20) DEF MineBlock, RpcTypeOK
  <2>2. \A s \in RpcSwaps : minedAt'[s] \in Nat /\ minedAt'[s] <= tip'
    BY <1>1, <2>1, SMT, SMTT(20) DEF MineBlock, RpcTypeOK, Heights
  <2>3. /\ blocks' = blocks /\ adder' = adder /\ loop' = loop
        /\ blocks.last \in Nat
        /\ \A s \in RpcSwaps : adder[s].height \in Nat
        /\ \A t \in RpcTakers : loop[t].last \in Nat /\ loop[t].sent \subseteq Nat
    BY <1>1 DEF MineBlock, RpcTypeOK, BlocksRec, AdderRec, LoopRec
  <2> QED
    BY <2>1, <2>2, <2>3, SMT, SMTT(20) DEF Heights
<1>2. CASE BlockTick
  <2>1. blocks'.last <= tip /\ tip' = tip /\ minedAt' = minedAt /\ adder' = adder /\ loop' = loop
    BY <1>2, SMT, SMTT(20) DEF BlockTick, RpcTypeOK
  <2> QED
    BY <2>1 DEF Heights
<1>3. CASE NewBlockChan
  <2>1. /\ blocks'.last = blocks.last /\ tip' = tip /\ minedAt' = minedAt /\ adder' = adder
        /\ \A t \in RpcTakers : /\ loop'[t].last = loop[t].last
                                /\ loop'[t].sent \subseteq loop[t].sent \cup {blocks.last}
    BY <1>3 DEF NewBlockChan, RpcTypeOK, BlocksRec, LoopRec
  <2> QED
    BY <2>1 DEF Heights
<1>4. ASSUME NEW t \in RpcTakers, AwaitConfirmation(t)
      PROVE  Heights'
  <2>1. /\ blocks' = blocks /\ tip' = tip /\ minedAt' = minedAt
        /\ \A s \in RpcSwaps : adder'[s].height = adder[s].height
        /\ \A u \in RpcTakers : loop'[u] = loop[u] \/ (loop'[u].last = 0 /\ loop'[u].sent = {})
    BY <1>4, SMT, SMTT(20) DEF AwaitConfirmation, RpcTypeOK, AdderRec, LoopRec, NewLoop, NoLoop
  <2> QED
    BY <2>1, SMT, SMTT(20) DEF Heights, RpcTypeOK
<1>5. ASSUME NEW t \in RpcTakers, FirstHeight(t)
      PROVE  Heights'
  <2>1. /\ blocks' = blocks /\ tip' = tip /\ minedAt' = minedAt /\ loop' = loop
        /\ \A s \in RpcSwaps : adder'[s].height \in {adder[s].height, 0, tip}
    BY <1>5, SMT, SMTT(20) DEF FirstHeight, RpcTypeOK, AdderRec
  <2> QED
    BY <2>1, SMT, SMTT(20) DEF Heights, RpcTypeOK
<1>6. ASSUME NEW t \in RpcTakers, FirstRun(t)
      PROVE  Heights'
  <2>1. /\ t \in RpcSwaps /\ loop[t] \in LoopRec /\ adder[t].height \in Nat /\ tip \in Nat
        /\ adder[t].height <= tip /\ loop[t].last <= tip /\ \A k \in loop[t].sent : k <= tip
    BY DEF RpcTypeOK, RpcSwaps, AdderRec, Heights
  <2>2. Receive(loop[t], adder[t].height).last <= tip
    BY <2>1, ReceiveHeights
  <2>3. Receive(loop[t], adder[t].height) \in LoopRec
    BY <2>1, ReceiveType
  <2>4. loop'[t].last = Receive(loop[t], adder[t].height).last /\ loop'[t].sent = loop[t].sent
    BY <1>6, <2>3 DEF FirstRun, RpcTypeOK, LoopRec
  <2>5. /\ blocks' = blocks /\ tip' = tip /\ minedAt' = minedAt
        /\ \A s \in RpcSwaps : adder'[s].height \in {adder[s].height, 0}
        /\ \A u \in RpcTakers \ {t} : loop'[u] = loop[u]
    BY <1>6 DEF FirstRun, RpcTypeOK, AdderRec, IdleAdder
  <2> QED
    BY <2>1, <2>2, <2>4, <2>5, SMT, SMTT(20) DEF Heights, RpcTypeOK
<1>7. ASSUME NEW t \in RpcTakers, NEW h \in loop[t].sent, ReceiveBlock(t, h)
      PROVE  Heights'
  <2>1. /\ loop[t] \in LoopRec /\ h \in Nat /\ tip \in Nat
        /\ h <= tip /\ loop[t].last <= tip /\ \A k \in loop[t].sent : k <= tip
    BY <1>7 DEF RpcTypeOK, LoopRec, Heights
  <2>2. /\ Receive(loop[t], h).last <= tip
        /\ \A k \in Receive(loop[t], h).sent : k <= tip
    BY <2>1, ReceiveHeights
  <2>3. /\ blocks' = blocks /\ tip' = tip /\ minedAt' = minedAt /\ adder' = adder
        /\ loop'[t] = Receive(loop[t], h)
        /\ \A u \in RpcTakers \ {t} : loop'[u] = loop[u]
    BY <1>7 DEF ReceiveBlock, RpcTypeOK
  <2> QED
    BY <2>2, <2>3 DEF Heights
<1>8. CASE RpcRestart
  <2>1. /\ blocks'.last = 0 /\ tip' = tip /\ minedAt' = minedAt
        /\ \A s \in RpcSwaps : adder'[s].height = 0
        /\ \A t \in RpcTakers : loop'[t].last = 0 /\ loop'[t].sent = {}
    BY <1>8 DEF RpcRestart, FirstTick, IdleAdder, NewLoop, NoLoop
  <2> QED
    BY <2>1, SMT, SMTT(20) DEF Heights, RpcTypeOK
<1>9. ASSUME NEW m \in RpcMakers,
             AwaitCsv(m) \/ checkTxAboveCsvHight(m) \/ AlreadyPassed(m) \/ AddWaitForCsvTx(m)
      PROVE  Heights'
  <2>1. /\ blocks' = blocks /\ tip' = tip /\ minedAt' = minedAt /\ loop' = loop
        /\ \A s \in RpcSwaps : adder'[s].height \in {adder[s].height, 0}
    BY <1>9, SMT, SMTT(20)
    DEF AwaitCsv, checkTxAboveCsvHight, AlreadyPassed, AddWaitForCsvTx, IdleAdder,
                RpcTypeOK, AdderRec
  <2> QED
    BY <2>1, SMT, SMTT(20) DEF Heights, RpcTypeOK
<1>10. ASSUME NEW t \in RpcTakers, AddObserver(t) \/ LookUp(t) \/ TxCallback(t) \/ LoopEnds(t)
       PROVE  Heights'
  <2>1. /\ blocks' = blocks /\ tip' = tip /\ minedAt' = minedAt
        /\ \A s \in RpcSwaps : adder'[s].height = adder[s].height
        /\ \A u \in RpcTakers :
             \/ loop'[u].last = loop[u].last /\ loop'[u].sent = loop[u].sent
             \/ loop'[u].last = 0 /\ loop'[u].sent = {}
    <3>1. CASE AddObserver(t)
      BY <1>10, <3>1 DEF AddObserver, RpcTypeOK, AdderRec
    <3>2. CASE LookUp(t)
      BY <1>10, <3>2, SMT, SMTT(20) DEF LookUp, RpcTypeOK, LoopRec
    <3>3. CASE TxCallback(t)
      BY <1>10, <3>3 DEF TxCallback, RpcTypeOK, LoopRec
    <3>4. CASE LoopEnds(t)
      BY <1>10, <3>4 DEF LoopEnds, NoLoop, RpcTypeOK, LoopRec
    <3> QED
      BY <1>10, <3>1, <3>2, <3>3, <3>4
  <2> QED
    BY <2>1, SMT, SMTT(20) DEF Heights, RpcTypeOK
<1>11. CASE UNCHANGED <<tip, minedAt, blocks, adder, loop>>
  BY <1>11 DEF Heights
<1>12. ASSUME HandleCsvTx \/ CsvPassedCallback \/ CsvHandled \/ TxClaimed \/ UNCHANGED rpcVars
              \/ \E m \in RpcMakers : CheckCsv(m) \/ OtherOutcome(m)
       PROVE  UNCHANGED <<tip, minedAt, blocks, adder, loop>>
  BY <1>12 DEF HandleCsvTx, CsvPassedCallback, CsvHandled, TxClaimed, CheckCsv, OtherOutcome,
               rpcVars
<1> QED
  BY <1>1, <1>2, <1>3, <1>4, <1>5, <1>6, <1>7, <1>8, <1>9, <1>10, <1>11, <1>12 DEF RpcNext

LEMMA ListStep ==
  ASSUME RpcTypeOK, ListInv, [RpcNext]_rpcVars
  PROVE  ListInv'
<1> USE DEF ListInv, MakerIsListed
<1>1. CASE UNCHANGED <<main, csvList, waits>> /\ \A m \in RpcMakers : adder'[m] = adder[m]
  BY <1>1
<1>2. CASE NewBlockChan
  <2>1. /\ main'.pc = "lock" /\ main'.todo = main.todo /\ main'.passed = main.passed
        /\ UNCHANGED <<adder, csvList, waits>>
    BY <1>2 DEF NewBlockChan, RpcTypeOK, MainRec
  <2> QED
    BY <2>1
<1>3. CASE HandleCsvTx
  <2>1. /\ main'.pc = "csv" /\ main'.todo = csvList /\ main'.passed = main.passed
        /\ UNCHANGED <<adder, csvList, waits>>
    BY <1>3 DEF HandleCsvTx, RpcTypeOK, MainRec
  <2> QED
    BY <2>1
<1>4. ASSUME NEW m \in RpcMakers, CheckCsv(m)
      PROVE  ListInv'
  <2>1. /\ main'.todo \subseteq main.todo /\ main'.passed = main.passed
        /\ main.pc = "csv" /\ m \in main.todo
        /\ main'.pc = "csv" \/ (main'.pc = "callback" /\ main'.cur = m)
        /\ UNCHANGED <<adder, csvList, waits>>
    BY <1>4 DEF CheckCsv, RpcTypeOK, MainRec
  <2> QED
    BY <1>4, <2>1
<1>5. CASE CsvPassedCallback
  <2> DEFINE c == main.cur
  <2>1. /\ c \in RpcMakers /\ c \in RpcSwaps /\ waits[c] # "new"
    BY <1>5 DEF CsvPassedCallback, RpcSwaps
  <2>2. /\ main'.todo = main.todo /\ main'.pc = "csv" /\ UNCHANGED <<adder, csvList>>
        /\ \/ waits' = Told(c) /\ main'.passed = main.passed \cup {c}
           \/ waits' \in {waits, Told(c)} /\ main'.passed = main.passed
    BY <1>5 DEF CsvPassedCallback, RpcTypeOK, MainRec
  <2>3. /\ Told(c)[c] \notin {"new", "waiting"}
        /\ \A m \in RpcMakers \ {c} : Told(c)[m] = waits[m]
    BY <2>1 DEF Told, RpcTypeOK, RpcSwaps
  <2> QED
    BY <2>1, <2>2, <2>3
<1>6. CASE CsvHandled
  <2>1. /\ main'.pc = "claimed" /\ main'.todo = main.todo /\ main'.passed = main.passed
        /\ UNCHANGED <<adder, csvList, waits>>
    BY <1>6 DEF CsvHandled, RpcTypeOK, MainRec
  <2> QED
    BY <2>1
<1>7. CASE TxClaimed
  <2>1. /\ main'.pc = "select" /\ main'.todo = {} /\ main'.passed = {}
        /\ csvList' = csvList \ main.passed
        /\ UNCHANGED <<adder, waits>>
    BY <1>7 DEF TxClaimed, IdleMain
  <2> QED
    BY <2>1
<1>8. ASSUME NEW m \in RpcMakers, AwaitCsv(m)
      PROVE  ListInv'
  <2>1. /\ waits'[m] = "waiting" /\ adder'[m].pc = "check" /\ waits[m] \in {"new", "waiting"}
        /\ \A n \in RpcMakers \ {m} : waits'[n] = waits[n] /\ adder'[n] = adder[n]
        /\ UNCHANGED <<main, csvList>>
    BY <1>8 DEF AwaitCsv, RpcTypeOK, RpcSwaps, AdderRec
  <2>2. main \in MainRec
    BY DEF RpcTypeOK
  <2> QED
    BY <2>1, <2>2 DEF MainRec
<1>9. ASSUME NEW m \in RpcMakers, checkTxAboveCsvHight(m)
      PROVE  ListInv'
  <2>1. /\ adder[m].pc = "check" /\ adder'[m].pc \in {"lock", "callback"}
        /\ \A n \in RpcMakers \ {m} : adder'[n] = adder[n]
        /\ UNCHANGED <<main, csvList, waits>>
    BY <1>9 DEF checkTxAboveCsvHight, RpcTypeOK, RpcSwaps, AdderRec
  <2> QED
    BY <2>1
<1>10. ASSUME NEW m \in RpcMakers, AlreadyPassed(m)
       PROVE  ListInv'
  <2>1. /\ adder[m].pc = "callback" /\ UNCHANGED <<main, csvList>>
        /\ \A n \in RpcMakers \ {m} : adder'[n] = adder[n]
        /\ \/ waits' = Told(m) /\ adder'[m].pc = "idle"
           \/ waits' \in {waits, Told(m)} /\ adder'[m].pc = "lock"
    BY <1>10, SMT, SMTT(20) DEF AlreadyPassed, RpcTypeOK, RpcSwaps, AdderRec, IdleAdder
  <2>2. waits[m] # "new"
    BY <2>1
  <2>3. /\ Told(m)[m] \notin {"new", "waiting"}
        /\ \A n \in RpcMakers \ {m} : Told(m)[n] = waits[n]
    BY <2>2 DEF Told, RpcTypeOK, RpcSwaps
  <2>4. main \in MainRec
    BY DEF RpcTypeOK
  <2> QED
    BY <2>1, <2>2, <2>3, <2>4, SMT, SMTT(20) DEF MainRec
<1>11. ASSUME NEW m \in RpcMakers, AddWaitForCsvTx(m)
       PROVE  ListInv'
  <2>1. /\ adder[m].pc = "lock" /\ adder'[m].pc = "idle" /\ csvList' = csvList \cup {m}
        /\ \A n \in RpcMakers \ {m} : adder'[n] = adder[n]
        /\ UNCHANGED <<main, waits>>
    BY <1>11 DEF AddWaitForCsvTx, RpcTypeOK, RpcSwaps, AdderRec, IdleAdder
  <2> QED
    BY <2>1
<1>12. ASSUME NEW m \in RpcMakers, OtherOutcome(m)
       PROVE  ListInv'
  <2>1. /\ waits[m] = "waiting" /\ waits'[m] = "paid"
        /\ \A n \in RpcMakers \ {m} : waits'[n] = waits[n]
        /\ UNCHANGED <<main, csvList, adder>>
    BY <1>12 DEF OtherOutcome, RpcTypeOK, RpcSwaps
  <2>2. main \in MainRec
    BY DEF RpcTypeOK
  <2> QED
    BY <2>1, <2>2 DEF MainRec
<1>13. ASSUME NEW t \in RpcTakers,
              AwaitConfirmation(t) \/ AddObserver(t) \/ FirstHeight(t) \/ FirstRun(t) \/ TxCallback(t)
       PROVE  ListInv'
  <2>1. /\ \A m \in RpcMakers : adder'[m] = adder[m] /\ waits'[m] = waits[m]
        /\ UNCHANGED <<main, csvList>>
    BY <1>13, RpcAssumption, SMT, SMTT(20)
    DEF AwaitConfirmation, AddObserver, FirstHeight, FirstRun, TxCallback,
       RpcTypeOK, RpcSwaps
  <2>2. main \in MainRec
    BY DEF RpcTypeOK
  <2> QED
    BY <2>1, <2>2 DEF MainRec
<1>14. CASE RpcRestart
  <2>1. /\ main'.pc = "select" /\ main'.todo = {} /\ main'.passed = {} /\ csvList' = {}
        /\ waits' = waits
        /\ \A m \in RpcMakers : IF waits[m] = "waiting" THEN adder'[m].pc = "check"
                                                       ELSE adder'[m].pc = "idle"
    BY <1>14 DEF RpcRestart, IdleMain, IdleAdder, RpcSwaps
  <2> QED
    BY <2>1
<1>15. ASSUME MineBlock \/ BlockTick \/ UNCHANGED rpcVars
              \/ \E t \in RpcTakers : LookUp(t) \/ LoopEnds(t)
                                      \/ \E h \in loop[t].sent : ReceiveBlock(t, h)
       PROVE  UNCHANGED <<main, csvList, waits, adder>>
  BY <1>15 DEF MineBlock, BlockTick, LookUp, LoopEnds, ReceiveBlock, rpcVars
<1> QED
  BY <1>1, <1>2, <1>3, <1>4, <1>5, <1>6, <1>7, <1>8, <1>9, <1>10, <1>11, <1>12, <1>13, <1>14,
     <1>15 DEF RpcNext

\* Enough(t) lasts: the tip grows, and a mined transaction stays where it is.
LEMMA ConfKept ==
  ASSUME RpcTypeOK, RpcTypeOK', ConfInv, tip <= tip',
         \A t \in RpcTakers :
           /\ minedAt[t] # 0 => minedAt'[t] = minedAt[t]
           /\ loop'[t].pc = "calling" /\ loop'[t].verdict = "confirmed"
              => \/ /\ loop[t].pc = "calling" /\ loop[t].verdict = "confirmed"
                    /\ loop'[t].last = loop[t].last
                 \/ Enough(t) /\ loop'[t].last = loop[t].last
  PROVE  ConfInv'
<1> SUFFICES ASSUME NEW t \in RpcTakers, loop'[t].pc = "calling", loop'[t].verdict = "confirmed"
             PROVE  Enough(t)'
  BY DEF ConfInv
<1>1. Enough(t) /\ loop'[t].last = loop[t].last
  BY DEF ConfInv
<1>2. minedAt'[t] = minedAt[t] /\ minedAt[t] # 0
  BY <1>1 DEF Enough
<1>3. minedAt[t] \in Nat /\ tip \in Nat /\ tip' \in Nat /\ RequiredConfs \in Nat
      /\ loop[t].last \in Nat
  BY RpcAssumption DEF RpcTypeOK, RpcSwaps, LoopRec
<1> QED
  BY <1>1, <1>2, <1>3, SMT, SMTT(20) DEF Enough, Depth

LEMMA ConfStep ==
  ASSUME RpcTypeOK, Heights, ConfInv, [RpcNext]_rpcVars
  PROVE  ConfInv'
<1>0. RpcTypeOK'
  BY RpcTypes
<1>1. CASE MineBlock
  <2>1. /\ tip <= tip' /\ loop' = loop
        /\ \A t \in RpcTakers : minedAt[t] # 0 => minedAt'[t] = minedAt[t]
    BY <1>1, SMT, SMTT(20) DEF MineBlock, RpcTypeOK, RpcSwaps
  <2> QED
    BY <1>0, <2>1, ConfKept
<1>2. CASE NewBlockChan
  <2>1. /\ tip' = tip /\ minedAt' = minedAt
        /\ \A t \in RpcTakers : /\ loop'[t].pc = loop[t].pc /\ loop'[t].last = loop[t].last
                                /\ loop'[t].verdict = loop[t].verdict
    BY <1>2 DEF NewBlockChan, RpcTypeOK, LoopRec
  <2> QED
    BY <1>0, <2>1, ConfKept, SMT, SMTT(20) DEF RpcTypeOK
<1>3. ASSUME NEW t \in RpcTakers, AwaitConfirmation(t) \/ TxCallback(t) \/ LoopEnds(t)
      PROVE  ConfInv'
  <2>1. /\ tip' = tip /\ minedAt' = minedAt /\ loop'[t].pc \in {"select", "exit", "gone"}
        /\ \A u \in RpcTakers \ {t} : loop'[u] = loop[u]
    BY <1>3, SMT, SMTT(20)
    DEF AwaitConfirmation, TxCallback, LoopEnds, NewLoop, NoLoop, RpcTypeOK, LoopRec
  <2> QED
    BY <1>0, <2>1, ConfKept, SMT, SMTT(20) DEF RpcTypeOK
<1>4. ASSUME NEW t \in RpcTakers, FirstRun(t)
      PROVE  ConfInv'
  <2>1. t \in RpcSwaps /\ loop[t] \in LoopRec /\ adder[t].height \in Nat /\ loop[t].pc = "select"
    BY <1>4 DEF RpcTypeOK, RpcSwaps, AdderRec, FirstRun
  <2> DEFINE r == Receive(loop[t], adder[t].height)
  <2>2. r \in LoopRec
    BY <2>1, ReceiveType
  <2>3. ~(r.pc = "calling" /\ r.verdict = "confirmed")
    BY <2>1 DEF Receive, LoopRec
  <2>4. loop'[t].pc = r.pc /\ loop'[t].verdict = r.verdict
    BY <1>4, <2>2 DEF FirstRun, RpcTypeOK, LoopRec
  <2>5. tip' = tip /\ minedAt' = minedAt /\ \A u \in RpcTakers \ {t} : loop'[u] = loop[u]
    BY <1>4 DEF FirstRun, RpcTypeOK
  <2> HIDE DEF r
  <2> QED
    BY <1>0, <2>3, <2>4, <2>5, ConfKept, SMT, SMTT(20) DEF RpcTypeOK
<1>5. ASSUME NEW t \in RpcTakers, NEW h \in loop[t].sent, ReceiveBlock(t, h)
      PROVE  ConfInv'
  <2>1. loop[t] \in LoopRec /\ h \in Nat /\ loop[t].pc = "select"
    BY <1>5 DEF RpcTypeOK, LoopRec, ReceiveBlock
  <2>2. ~(Receive(loop[t], h).pc = "calling" /\ Receive(loop[t], h).verdict = "confirmed")
    BY <2>1 DEF Receive, LoopRec
  <2>3. /\ tip' = tip /\ minedAt' = minedAt /\ loop'[t] = Receive(loop[t], h)
        /\ \A u \in RpcTakers \ {t} : loop'[u] = loop[u]
    BY <1>5 DEF ReceiveBlock, RpcTypeOK
  <2>4. tip <= tip'
    BY <2>3, SMT, SMTT(20) DEF RpcTypeOK
  <2>5. ~(loop'[t].pc = "calling" /\ loop'[t].verdict = "confirmed")
    BY <2>2, <2>3
  <2> QED
    BY <1>0, <2>3, <2>4, <2>5, ConfKept
<1>6. ASSUME NEW t \in RpcTakers, LookUp(t)
      PROVE  ConfInv'
  <2>1. /\ tip' = tip /\ minedAt' = minedAt /\ loop'[t].last = loop[t].last
        /\ \A u \in RpcTakers \ {t} : loop'[u] = loop[u]
        /\ loop'[t].pc = "calling" /\ loop'[t].verdict = "confirmed"
           => minedAt[t] # 0 /\ DeepEnough(t)
    BY <1>6, SMT, SMTT(20) DEF LookUp, RpcTypeOK, LoopRec
  <2>2. loop'[t].pc = "calling" /\ loop'[t].verdict = "confirmed" => Enough(t)
    BY <2>1, DeepIsDeep
  <2> QED
    BY <1>0, <2>1, <2>2, ConfKept, SMT, SMTT(20) DEF RpcTypeOK
<1>7. CASE RpcRestart
  <2>1. tip' = tip /\ minedAt' = minedAt /\ \A t \in RpcTakers : loop'[t].pc \in {"select", "none"}
    BY <1>7 DEF RpcRestart, NewLoop, NoLoop
  <2> QED
    BY <1>0, <2>1, ConfKept, SMT, SMTT(20) DEF RpcTypeOK
<1>8. CASE UNCHANGED <<tip, minedAt, loop>>
  BY <1>8 DEF ConfInv, Enough, Depth
<1>9. ASSUME BlockTick \/ HandleCsvTx \/ CsvPassedCallback \/ CsvHandled \/ TxClaimed
             \/ UNCHANGED rpcVars
      PROVE  ConfInv'
  BY <1>8, <1>9 DEF BlockTick, HandleCsvTx, CsvPassedCallback, CsvHandled, TxClaimed, rpcVars
<1>10. ASSUME NEW m \in RpcMakers,
              CheckCsv(m) \/ AwaitCsv(m) \/ checkTxAboveCsvHight(m) \/ AlreadyPassed(m)
              \/ AddWaitForCsvTx(m) \/ OtherOutcome(m)
       PROVE  ConfInv'
  BY <1>8, <1>10 DEF CheckCsv, AwaitCsv, checkTxAboveCsvHight, AlreadyPassed, AddWaitForCsvTx,
     OtherOutcome
<1>11. ASSUME NEW t \in RpcTakers, AddObserver(t) \/ FirstHeight(t)
       PROVE  ConfInv'
  BY <1>8, <1>11 DEF AddObserver, FirstHeight
<1> QED
  BY <1>1, <1>2, <1>3, <1>4, <1>5, <1>6, <1>7, <1>9, <1>10, <1>11 DEF RpcNext

LEMMA RpcInvariant == RpcSpec => [](RpcTypeOK /\ Heights /\ ListInv /\ ConfInv)
<1>1. RpcInit => RpcTypeOK /\ Heights /\ ListInv /\ ConfInv
  <2> SUFFICES ASSUME RpcInit
               PROVE  RpcTypeOK /\ Heights /\ ListInv /\ ConfInv
    OBVIOUS
  <2> USE DEF RpcInit, StartHeight, FirstTick, IdleMain, IdleAdder, NoLoop
  <2>1. RpcTypeOK
    BY DEF RpcTypeOK, BlocksRec, MainRec, AdderRec, LoopRec, Outcome
  <2>2. Heights
    <3>1. MaxTip \in Nat \ {0} /\ tip = 1 /\ blocks.last = 0
      BY RpcAssumption
    <3>2. \A u \in RpcSwaps : minedAt[u] = 0 /\ adder[u].height = 0
      OBVIOUS
    <3>3. \A t \in RpcTakers : loop[t].last = 0 /\ loop[t].sent = {}
      OBVIOUS
    <3> QED
      BY <3>1, <3>2, <3>3, SMT, SMTT(20) DEF Heights
  <2>3. ListInv /\ ConfInv
    BY DEF ListInv, MakerIsListed, ConfInv, RpcSwaps
  <2> QED
    BY <2>1, <2>2, <2>3
<1>2. RpcTypeOK /\ Heights /\ ListInv /\ ConfInv /\ [RpcNext]_rpcVars
      => (RpcTypeOK /\ Heights /\ ListInv /\ ConfInv)'
  BY RpcTypes, HeightsStep, ListStep, ConfStep
<1> QED
  BY <1>1, <1>2, PTL DEF RpcSpec

\* A maker that waits for its CSV is never dropped from csvtxWatchList: TxClaimed, which
\* runs after the lock was given up, removes only swaps whose machine took the event.
THEOREM MakersStayListed == RpcSpec => []MakerIsListed
<1>1. ListInv => MakerIsListed
  BY DEF ListInv
<1> QED
  BY <1>1, RpcInvariant, PTL

\* However late observationLoop hears of a block, the confirmations it reports to a
\* taker are there, unless the uint32 subtraction wrapped.
THEOREM ConfirmedIsDeep == RpcSpec => ConfirmedUnlessWrapped
<1>1. RpcTypeOK /\ ConfInv /\ [RpcNext]_rpcVars
      => [\A t \in RpcTakers :
            waits[t] = "waiting" /\ waits'[t] = "confirmed"
              => Depth(t) >= RequiredConfs \/ loop[t].last + 1 < minedAt[t]]_rpcVars
  <2> SUFFICES ASSUME RpcTypeOK, ConfInv, [RpcNext]_rpcVars,
                      NEW t \in RpcTakers, waits[t] = "waiting", waits'[t] = "confirmed"
               PROVE  Depth(t) >= RequiredConfs \/ loop[t].last + 1 < minedAt[t]
    OBVIOUS
  <2>1. t \in RpcSwaps /\ t \notin RpcMakers /\ t \in DOMAIN waits
    BY RpcAssumption DEF RpcSwaps, RpcTypeOK
  <2>2. TxCallback(t)
    <3>1. ASSUME NEW u, waits' = [waits EXCEPT ![u] = "waiting"]
          PROVE  FALSE
      BY <3>1, <2>1
    <3>2. ASSUME NEW u, waits' = Told(u)
          PROVE  FALSE
      BY <3>2, <2>1 DEF Told
    <3>3. ASSUME NEW u \in RpcMakers, OtherOutcome(u)
          PROVE  FALSE
      BY <3>3, <2>1 DEF OtherOutcome
    <3>4. ASSUME NEW u \in RpcTakers, TxCallback(u)
          PROVE  u = t
      BY <3>4, <2>1 DEF TxCallback
    <3>5. waits' # waits
      OBVIOUS
    <3>6. CASE CsvPassedCallback
      BY <3>2, <3>5, <3>6 DEF CsvPassedCallback
    <3>7. ASSUME NEW u, AlreadyPassed(u)
          PROVE  FALSE
      BY <3>2, <3>5, <3>7 DEF AlreadyPassed
    <3>8. ASSUME NEW u, AwaitCsv(u) \/ AwaitConfirmation(u)
          PROVE  FALSE
      BY <3>1, <3>8 DEF AwaitCsv, AwaitConfirmation
    <3> QED
      BY <3>3, <3>4, <3>5, <3>6, <3>7, <3>8 DEF RpcNext, rpcVars, MineBlock, BlockTick,
         NewBlockChan, HandleCsvTx, CsvHandled, TxClaimed, CheckCsv, checkTxAboveCsvHight,
         AddWaitForCsvTx, AddObserver, FirstHeight, FirstRun, ReceiveBlock, LookUp, LoopEnds,
         RpcRestart
  <2>3. loop[t].pc = "calling" /\ loop[t].verdict = "confirmed"
    BY <2>1, <2>2 DEF TxCallback
  <2> QED
    BY <2>3 DEF ConfInv, Enough
<1> QED
  BY <1>1, RpcInvariant, PTL DEF RpcSpec, ConfirmedUnlessWrapped

-----------------------------------------------------------------------------
\* No block is missed: between the entry in observerLoopList and the first run the
\* watcher's mutex is held, so that the loop cannot leave the list meanwhile.

LockInv ==
  /\ main.pc \in {"csv", "callback"} => wlock = "main"
  /\ \A t \in RpcTakers : adder[t].pc \in {"listed", "kick"} => wlock = t /\ t \in observers

\* Announced(t): the last height announced is one the loop had or will take.
Announced(t) == blocks.last <= loop[t].last \/ blocks.last \in loop[t].sent

SeenInv ==
  \A t \in RpcTakers :
    /\ t \notin observers => loop[t].last = 0 /\ loop[t].sent = {}
    /\ blocks.pc = "tick" /\ (loop[t].last # 0 \/ loop[t].sent # {}) => Announced(t)
    /\ blocks.pc = "tick" /\ adder[t].pc = "kick" /\ adder[t].height # 0
       => blocks.last <= adder[t].height \/ Announced(t)

LEMMA LockStep ==
  ASSUME RpcTypeOK, LockInv, [RpcNext]_rpcVars
  PROVE  LockInv'
<1>1. ASSUME main'.pc \in {"csv", "callback"} => main.pc \in {"csv", "callback"}, wlock' = wlock,
             observers \subseteq observers',
             \A t \in RpcTakers : adder'[t].pc \in {"listed", "kick"} => adder[t].pc \in {"listed", "kick"}
      PROVE  LockInv'
  BY <1>1 DEF LockInv
<1>2. CASE MineBlock \/ BlockTick \/ TxClaimed \/ UNCHANGED rpcVars
  <2>1. (main' = main \/ main'.pc = "select") /\ UNCHANGED <<wlock, adder, observers>>
    BY <1>2, SMT, SMTT(20) DEF MineBlock, BlockTick, TxClaimed, IdleMain, rpcVars
  <2> QED
    BY <1>1, <2>1
<1>3. CASE NewBlockChan
  BY <1>1, <1>3 DEF NewBlockChan, RpcTypeOK, MainRec
<1>4. CASE HandleCsvTx
  <2>1. wlock = Free /\ wlock' = "main" /\ UNCHANGED <<adder, observers>>
    BY <1>4 DEF HandleCsvTx
  <2> QED
    BY <2>1, RpcAssumption DEF LockInv
<1>5. CASE CsvPassedCallback
  BY <1>1, <1>5 DEF CsvPassedCallback, RpcTypeOK, MainRec
<1>6. CASE CsvHandled
  <2>1. /\ main'.pc = "claimed" /\ main.pc = "csv" /\ wlock' = Free
        /\ UNCHANGED <<adder, observers>>
    BY <1>6 DEF CsvHandled, RpcTypeOK, MainRec
  <2> QED
    BY <2>1, RpcAssumption DEF LockInv
<1>7. ASSUME NEW m \in RpcMakers, CheckCsv(m)
      PROVE  LockInv'
  BY <1>1, <1>7 DEF CheckCsv, RpcTypeOK, MainRec
<1>8. ASSUME NEW m \in RpcMakers, AwaitCsv(m) \/ checkTxAboveCsvHight(m) \/ AlreadyPassed(m)
                                  \/ AddWaitForCsvTx(m) \/ OtherOutcome(m)
      PROVE  LockInv'
  <2>1. UNCHANGED <<main, wlock, observers>> /\ \A t \in RpcTakers : adder'[t] = adder[t]
    BY <1>8, RpcAssumption
    DEF AwaitCsv, checkTxAboveCsvHight, AlreadyPassed, AddWaitForCsvTx, OtherOutcome,
       RpcTypeOK, RpcSwaps
  <2> QED
    BY <1>1, <2>1
<1>9. ASSUME NEW t \in RpcTakers, AwaitConfirmation(t)
      PROVE  LockInv'
  BY <1>1, <1>9 DEF AwaitConfirmation, RpcTypeOK, RpcSwaps, AdderRec
<1>10. ASSUME NEW t \in RpcTakers, AddObserver(t)
       PROVE  LockInv'
  <2>1. /\ wlock = Free /\ wlock' = t /\ main' = main /\ observers' = observers \cup {t}
        /\ \A u \in RpcTakers \ {t} : adder'[u] = adder[u]
    BY <1>10 DEF AddObserver, RpcTypeOK, RpcSwaps
  <2> QED
    BY <2>1, RpcAssumption DEF LockInv
<1>11. ASSUME NEW t \in RpcTakers, FirstHeight(t)
       PROVE  LockInv'
  <2>1. /\ adder[t].pc = "listed" /\ UNCHANGED <<main, wlock, observers>>
        /\ \A u \in RpcTakers \ {t} : adder'[u] = adder[u]
    <3>1. adder \in [RpcSwaps -> AdderRec]
      BY DEF RpcTypeOK
    <3>2. PICK h \in {0, tip} : adder' = [adder EXCEPT ![t] = [pc |-> "kick", height |-> h]]
      BY <1>11 DEF FirstHeight
    <3>3. \A u \in RpcTakers \ {t} : adder'[u] = adder[u]
      BY <3>1, <3>2 DEF RpcSwaps
    <3> QED
      BY <1>11, <3>3 DEF FirstHeight
  <2> QED
    BY <1>1, <2>1
<1>12. ASSUME NEW t \in RpcTakers, FirstRun(t)
       PROVE  LockInv'
  <2>1. /\ adder[t].pc = "kick" /\ adder'[t].pc = "idle" /\ UNCHANGED <<main, observers>>
        /\ \A u \in RpcTakers \ {t} : adder'[u] = adder[u]
    BY <1>12 DEF FirstRun, IdleAdder, RpcTypeOK, RpcSwaps
  <2> QED
    BY <2>1, RpcAssumption DEF LockInv
<1>13. ASSUME NEW t \in RpcTakers, LookUp(t) \/ TxCallback(t) \/ \E h \in loop[t].sent : ReceiveBlock(t, h)
       PROVE  LockInv'
  BY <1>1, <1>13 DEF LookUp, TxCallback, ReceiveBlock
<1>14. ASSUME NEW t \in RpcTakers, LoopEnds(t)
       PROVE  LockInv'
  <2>1. wlock = Free /\ wlock' = Free /\ UNCHANGED <<main, adder>>
    BY <1>14 DEF LoopEnds
  <2> QED
    BY <2>1, RpcAssumption DEF LockInv
<1>15. CASE RpcRestart
  <2>1. main'.pc = "select" /\ \A t \in RpcTakers : adder'[t].pc \in {"idle", "check", "lock"}
    BY <1>15 DEF RpcRestart, IdleMain, IdleAdder, RpcSwaps
  <2> QED
    BY <2>1 DEF LockInv
<1> QED
  BY <1>2, <1>3, <1>4, <1>5, <1>6, <1>7, <1>8, <1>9, <1>10, <1>11, <1>12, <1>13, <1>14, <1>15
     DEF RpcNext

LEMMA SeenStep ==
  ASSUME RpcTypeOK, Heights, LockInv, SeenInv, [RpcNext]_rpcVars
  PROVE  SeenInv'
<1>0. /\ blocks.last \in Nat /\ tip \in Nat /\ RpcTakers \subseteq RpcSwaps
      /\ \A t \in RpcTakers : /\ adder[t].height \in Nat /\ loop[t].last \in Nat
                              /\ loop[t] \in LoopRec /\ loop[t].sent \subseteq Nat
  BY DEF RpcTypeOK, BlocksRec, AdderRec, LoopRec, RpcSwaps
<1>1. ASSUME blocks' = blocks, observers \subseteq observers',
             \A t \in RpcTakers : /\ loop'[t].last = loop[t].last /\ loop'[t].sent = loop[t].sent
                                  /\ adder'[t].pc = "kick" => adder'[t] = adder[t]
      PROVE  SeenInv'
  BY <1>1 DEF SeenInv, Announced
<1>2. CASE MineBlock \/ HandleCsvTx \/ CsvPassedCallback \/ CsvHandled \/ TxClaimed \/ UNCHANGED rpcVars
  BY <1>1, <1>2 DEF MineBlock, HandleCsvTx, CsvPassedCallback, CsvHandled, TxClaimed, rpcVars
<1>3. CASE BlockTick
  <2>1. blocks'.pc = "send" /\ UNCHANGED <<loop, observers, adder>>
    BY <1>3, SMT, SMTT(20) DEF BlockTick
  <2> QED
    BY <2>1 DEF SeenInv
<1>4. CASE NewBlockChan
  <2>1. /\ blocks'.last = blocks.last /\ UNCHANGED <<observers, adder>>
        /\ \A t \in RpcTakers :
             /\ loop'[t].last = loop[t].last
             /\ loop'[t].sent = IF t \in observers THEN loop[t].sent \cup ({blocks.last} \ {0})
                                                   ELSE loop[t].sent
    BY <1>0, <1>4 DEF NewBlockChan, RpcTypeOK, BlocksRec, LoopRec
  <2>2. \A t \in RpcTakers : t \in observers => Announced(t)'
    <3> SUFFICES ASSUME NEW t \in RpcTakers, t \in observers
                 PROVE  blocks'.last <= loop'[t].last \/ blocks'.last \in loop'[t].sent
      BY DEF Announced
    <3>1. CASE blocks.last = 0
      BY <1>0, <2>1, <3>1
    <3>2. CASE blocks.last # 0
      BY <2>1, <3>2
    <3> QED
      BY <3>1, <3>2
  <2> QED
    BY <2>1, <2>2 DEF LockInv, SeenInv
<1>5. ASSUME NEW m \in RpcMakers, CheckCsv(m) \/ AwaitCsv(m) \/ checkTxAboveCsvHight(m)
             \/ AlreadyPassed(m) \/ AddWaitForCsvTx(m) \/ OtherOutcome(m)
      PROVE  SeenInv'
  <2>1. \A t \in RpcTakers : t # m
    BY RpcAssumption
  <2>2. adder \in [RpcSwaps -> AdderRec]
    BY DEF RpcTypeOK
  <2>3. UNCHANGED <<blocks, loop, observers>> /\ \A t \in RpcTakers : adder'[t] = adder[t]
    BY <1>0, <1>5, <2>1, <2>2 DEF CheckCsv, AwaitCsv, checkTxAboveCsvHight, AlreadyPassed,
       AddWaitForCsvTx, OtherOutcome
  <2> QED
    BY <1>1, <2>3
<1>6. ASSUME NEW t \in RpcTakers, AwaitConfirmation(t)
      PROVE  SeenInv'
  <2>1. /\ loop'[t].last = 0 /\ loop'[t].sent = {} /\ adder'[t].pc = "lock"
        /\ \A u \in RpcTakers \ {t} : loop'[u] = loop[u] /\ adder'[u] = adder[u]
        /\ UNCHANGED <<blocks, observers>>
    BY <1>0, <1>6 DEF AwaitConfirmation, NewLoop, NoLoop, RpcTypeOK, AdderRec
  <2> QED
    BY <2>1 DEF SeenInv, Announced
<1>7. ASSUME NEW t \in RpcTakers, AddObserver(t)
      PROVE  SeenInv'
  <2>1. /\ adder'[t].pc = "listed" /\ \A u \in RpcTakers \ {t} : adder'[u] = adder[u]
        /\ observers' = observers \cup {t} /\ UNCHANGED <<blocks, loop>>
    BY <1>0, <1>7 DEF AddObserver, RpcTypeOK, AdderRec
  <2> QED
    BY <1>1, <2>1
<1>8. ASSUME NEW t \in RpcTakers, FirstHeight(t)
      PROVE  SeenInv'
  <2>1. /\ adder'[t].height \in {0, tip} /\ \A u \in RpcTakers \ {t} : adder'[u] = adder[u]
        /\ UNCHANGED <<blocks, loop, observers>> /\ blocks.last <= tip
    <3>1. adder \in [RpcSwaps -> AdderRec] /\ blocks.last <= tip
      BY DEF RpcTypeOK, Heights
    <3>2. PICK h \in {0, tip} : adder' = [adder EXCEPT ![t] = [pc |-> "kick", height |-> h]]
      BY <1>8 DEF FirstHeight
    <3>3. adder'[t].height = h /\ \A u \in RpcTakers \ {t} : adder'[u] = adder[u]
      BY <1>0, <3>1, <3>2
    <3> QED
      BY <1>8, <3>1, <3>3 DEF FirstHeight
  <2> QED
    BY <2>1 DEF SeenInv, Announced
<1>9. ASSUME NEW t \in RpcTakers, FirstRun(t)
      PROVE  SeenInv'
  <2> DEFINE r == Receive(loop[t], adder[t].height)
  <2>1. r \in LoopRec
    BY <1>0, ReceiveType
  <2>2. r.last = IF adder[t].height <= loop[t].last THEN loop[t].last ELSE adder[t].height
    BY <1>0 DEF Receive, LoopRec
  <2>3. loop'[t].last = r.last /\ loop'[t].sent = loop[t].sent
    BY <1>0, <1>9, <2>1 DEF FirstRun, RpcTypeOK, LoopRec
  <2>4. /\ adder[t].pc = "kick" /\ adder'[t].pc = "idle" /\ t \in observers
        /\ \A u \in RpcTakers \ {t} : loop'[u] = loop[u] /\ adder'[u] = adder[u]
        /\ UNCHANGED <<blocks, observers>>
    BY <1>0, <1>9 DEF FirstRun, IdleAdder, RpcTypeOK, LockInv
  <2> HIDE DEF r
  <2> QED
    <3>1. blocks.pc = "tick" /\ (loop'[t].last # 0 \/ loop'[t].sent # {}) => Announced(t)'
      <4> SUFFICES ASSUME blocks.pc = "tick", loop'[t].last # 0 \/ loop'[t].sent # {}
                   PROVE  blocks.last <= loop'[t].last \/ blocks.last \in loop[t].sent
        BY <2>3, <2>4 DEF Announced
      <4>1. CASE adder[t].height <= loop[t].last
        BY <1>0, <2>2, <2>3, <4>1 DEF SeenInv, Announced
      <4>2. CASE ~(adder[t].height <= loop[t].last)
        <5>1. loop'[t].last = adder[t].height /\ adder[t].height # 0
          BY <1>0, <2>2, <2>3, <4>2, SMT, SMTT(20)
        <5>2. \/ blocks.last <= adder[t].height
              \/ blocks.last <= loop[t].last
              \/ blocks.last \in loop[t].sent
          BY <2>4, <5>1 DEF SeenInv, Announced
        <5> QED
          BY <1>0, <4>2, <5>1, <5>2, SMT, SMTT(20)
      <4> QED
        BY <4>1, <4>2
    <3>2. ASSUME NEW u \in RpcTakers \ {t}
          PROVE  Announced(u)' <=> Announced(u)
      BY <2>4 DEF Announced
    <3> QED
      BY <2>4, <3>1, <3>2 DEF SeenInv
<1>10. ASSUME NEW t \in RpcTakers, NEW h \in loop[t].sent, ReceiveBlock(t, h)
       PROVE  SeenInv'
  <2> DEFINE r == Receive(loop[t], h)
  <2>1. /\ h \in Nat /\ r.last = IF h <= loop[t].last THEN loop[t].last ELSE h
        /\ r.sent = loop[t].sent \ {h}
    BY <1>0, <1>10 DEF Receive, LoopRec
  <2>2. /\ loop'[t] = r /\ \A u \in RpcTakers \ {t} : loop'[u] = loop[u]
        /\ UNCHANGED <<blocks, observers, adder>>
    BY <1>10 DEF ReceiveBlock, RpcTypeOK
  <2> HIDE DEF r
  <2>3. t \in observers
    BY <1>10 DEF SeenInv
  <2>4. Announced(t) => Announced(t)'
    <3>1. loop[t].last \in Nat /\ blocks.last \in Nat /\ h \in Nat
      BY <1>0, <2>1
    <3>2. loop'[t].last = IF h <= loop[t].last THEN loop[t].last ELSE h
      BY <2>1, <2>2
    <3>3. loop'[t].sent = loop[t].sent \ {h} /\ blocks' = blocks
      BY <2>1, <2>2
    <3>4. loop'[t].last \in Nat /\ loop'[t].last >= loop[t].last /\ loop'[t].last >= h
      BY <3>1, <3>2, SMT, SMTT(20)
    <3>5. CASE blocks.last <= loop[t].last
      BY <3>1, <3>3, <3>4, <3>5, SMT, SMTT(20) DEF Announced
    <3>6. CASE blocks.last \in loop[t].sent
      BY <3>3, <3>4, <3>6 DEF Announced
    <3> QED
      BY <3>5, <3>6 DEF Announced
  <2> QED
    BY <1>10, <2>1, <2>2, <2>3, <2>4 DEF SeenInv, Announced
<1>11. ASSUME NEW t \in RpcTakers, LookUp(t) \/ TxCallback(t)
       PROVE  SeenInv'
  <2>1. CASE LookUp(t)
    BY <1>0, <1>1, <2>1, SMT, SMTT(20) DEF LookUp, RpcTypeOK, LoopRec
  <2>2. CASE TxCallback(t)
    BY <1>0, <1>1, <2>2 DEF TxCallback, RpcTypeOK, LoopRec
  <2> QED
    BY <1>11, <2>1, <2>2
<1>12. ASSUME NEW t \in RpcTakers, LoopEnds(t)
       PROVE  SeenInv'
  <2>1. /\ loop'[t].last = 0 /\ loop'[t].sent = {} /\ wlock = Free /\ observers' = observers \ {t}
        /\ \A u \in RpcTakers \ {t} : loop'[u] = loop[u]
        /\ UNCHANGED <<blocks, adder>>
    BY <1>0, <1>12 DEF LoopEnds, NoLoop, RpcTypeOK
  <2>2. adder[t].pc # "kick"
    BY <2>1, RpcAssumption DEF LockInv
  <2> QED
    BY <2>1, <2>2 DEF SeenInv, Announced
<1>13. CASE RpcRestart
  <2>1. \A t \in RpcTakers : /\ loop'[t].last = 0 /\ loop'[t].sent = {}
                             /\ adder'[t].pc \in {"idle", "check", "lock"}
    BY <1>0, <1>13 DEF RpcRestart, IdleAdder, NewLoop, NoLoop
  <2> QED
    BY <2>1 DEF SeenInv
<1> QED
  BY <1>2, <1>3, <1>4, <1>5, <1>6, <1>7, <1>8, <1>9, <1>10, <1>11, <1>12, <1>13 DEF RpcNext

\* Whatever order blocks, the first run and the removal from the list come in, the loop
\* of a waiting taker has had every height that StartBlockWatcher announced.
THEOREM BlocksAreSeen == RpcSpec => []NoBlockMissed
<1>1. RpcInit => LockInv /\ SeenInv
  <2> SUFFICES ASSUME RpcInit
               PROVE  LockInv /\ SeenInv
    OBVIOUS
  <2>1. main.pc = "select" /\ \A t \in RpcTakers : adder[t].pc = "idle"
    BY DEF RpcInit, IdleMain, IdleAdder, RpcSwaps
  <2>2. \A t \in RpcTakers : loop[t].last = 0 /\ loop[t].sent = {}
    BY DEF RpcInit, NoLoop
  <2> QED
    BY <2>1, <2>2 DEF LockInv, SeenInv
<1>2. RpcTypeOK /\ Heights /\ LockInv /\ SeenInv /\ [RpcNext]_rpcVars => (LockInv /\ SeenInv)'
  BY LockStep, SeenStep
<1>3. SeenInv => NoBlockMissed
  BY DEF SeenInv, Announced, NoBlockMissed
<1> QED
  BY <1>1, <1>2, <1>3, RpcInvariant, PTL DEF RpcSpec
=============================================================================
