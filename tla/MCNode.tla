------------------------------- MODULE MCNode -------------------------------
(***************************************************************************)
(* The components of a node around its swaps, for TLC.  They share no       *)
(* variable, so one run takes them one at a time: "part" names the one that *)
(* moves, and the others stay in an initial state.  The run that checks     *)
(* liveness moves the parts that promise it.                                *)
(***************************************************************************)
EXTENDS SwapService, Policy, PeerSync, RpcWatcher, LndStreams, Admission,
        OnChain, TLC

\* Premium rates in parts of Parts; one is negative.
MCPpms == {-1, 0, 1}

\* bitcoind before and after its default minimum changed, and one whose version is unreadable.
MCCoreVersions == {<<>>, <<29, 1>>, <<29, 2>>}

\* Swaps and channels are interchangeable.
Symmetry == Permutations(Ids) \cup Permutations(Chans) \cup Permutations(LndSwaps)

CONSTANT Moving  \* the parts a run looks at

ASSUME MovingAssumption == Moving \subseteq {"service", "policy", "sync", "rpc", "lnd", "admission",
                                             "chain"}

VARIABLE part

nodeVars == <<part, svcVars, polVars, syncVars, rpcVars, lndVars, adVars, ocVars>>

\* A part that does not move starts in one state.
NodeInit ==
  /\ part \in Moving
  /\ ServiceInit /\ (part # "service" => flavour = "lnd")
  /\ PolicyInit
  /\ SyncInit /\ (part # "sync" => conn = {} /\ peerCap = CHOOSE f \in [Peers -> Cap] : TRUE)
  /\ RpcInit
  /\ LndInit /\ (part # "lnd" => watchKind = "pay")
  /\ AdmissionInit
  /\ part # "admission" =>
       front = "lnd" /\ local = 0 /\ htlcMax = 0 /\ purse = CHOOSE b \in Purses : TRUE
  /\ OnChainInit
  /\ part # "chain" => wallet = "lnd" /\ side = "maker" /\ relay = CHOOSE r \in Relays : TRUE

NodeNext ==
  \/ /\ part = "service" /\ ServiceNext
     /\ UNCHANGED <<part, polVars, syncVars, rpcVars, lndVars, adVars, ocVars>>
  \/ /\ part = "policy" /\ PolicyNext
     /\ UNCHANGED <<part, svcVars, syncVars, rpcVars, lndVars, adVars, ocVars>>
  \/ /\ part = "sync" /\ SyncNext
     /\ UNCHANGED <<part, svcVars, polVars, rpcVars, lndVars, adVars, ocVars>>
  \/ /\ part = "rpc" /\ RpcNext
     /\ UNCHANGED <<part, svcVars, polVars, syncVars, lndVars, adVars, ocVars>>
  \/ /\ part = "lnd" /\ LndNext
     /\ UNCHANGED <<part, svcVars, polVars, syncVars, rpcVars, adVars, ocVars>>
  \/ /\ part = "admission" /\ AdmissionNext
     /\ UNCHANGED <<part, svcVars, polVars, syncVars, rpcVars, lndVars, ocVars>>
  \/ /\ part = "chain" /\ OnChainNext
     /\ UNCHANGED <<part, svcVars, polVars, syncVars, rpcVars, lndVars, adVars>>

On(p) == part = p

\* The fairness of each part, while it is the one that moves.
NodeSyncFairness ==
  /\ WF_syncVars(On("sync") /\ PollLoop) /\ WF_syncVars(On("sync") /\ HandlerLoop)
  /\ \A p \in Peers :
       /\ SF_syncVars(On("sync") /\ PollPeer(p, TRUE))
       /\ WF_syncVars(On("sync") /\ PeerAnswers(p))
       /\ WF_syncVars(On("sync") /\ Age(p))
       /\ WF_syncVars(On("sync") /\ RequestInterval(p))

NodeRpcFairness ==
  /\ WF_rpcVars(On("rpc") /\ MainLoop)
  /\ \A m \in RpcMakers :
       WF_rpcVars(On("rpc") /\ (checkTxAboveCsvHight(m) \/ AddWaitForCsvTx(m)))
  /\ \A t \in RpcTakers :
       /\ WF_rpcVars(On("rpc") /\ (FirstHeight(t) \/ FirstRun(t)))
       /\ WF_rpcVars(On("rpc") /\ (LookUp(t) \/ TxCallback(t)))

NodeLndFairness ==
  /\ WF_lndVars(On("lnd") /\ (Notified \/ InvoiceCancelled))
  /\ WF_lndVars(On("lnd") /\ (watchKind = "pay" /\ \E e \in {"yes", "cancelled"} : LndEvent(e)))
  /\ WF_lndVars(On("lnd") /\ StopReturns)

NodeSpec == NodeInit /\ [][NodeNext]_nodeVars

FairNodeSpec ==
  /\ NodeSpec
  /\ NodeSyncFairness /\ NodeRpcFairness /\ NodeLndFairness
=============================================================================
