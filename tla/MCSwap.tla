------------------------------- MODULE MCSwap -------------------------------
(***************************************************************************)
(* Instances of Swap for TLC: the sets of faults the runs allow.            *)
(***************************************************************************)
EXTENDS Swap

\* Peers and network misbehave, the node and its services do not.
NetworkFaults == {"lose", "sendFails", "invalid"}

\* The wallet and the chain RPC fail as well, but no node crashes.
NetworkAndNodeFaults == NetworkFaults \cup {"claimFails", "rpcFails"}

\* Everything that can hit one node but a failing chain RPC.
CrashFaults == Fault \ {"lose", "rpcFails"}

CrashAndRpcFaults == {"crash", "rpcFails", "payRpcError", "sendFails"}

OnlyRpcFails == {"rpcFails"}
OnlyClaimFails == {"claimFails"}
OnlyCrash == {"crash"}
=============================================================================
