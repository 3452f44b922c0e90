------------------------------- MODULE OnChain ------------------------------
(***************************************************************************)
(* The opening transaction of one swap and the transactions that spend it:  *)
(* the script (onchain/utils.go), how the wallets fund the output and how   *)
(* the two sides find it again (onchain/bitcoin.go, onchain/liquid.go,      *)
(* lnd/lnd_wallet.go, clightning/clightning_wallet.go,                      *)
(* wallet/elementsrpcwallet.go, lwk/lwkwallet.go), and the fee a claim pays *)
(* (onchain/estimator.go).  Keys, hashes and amounts are model values; the  *)
(* script is run by a small interpreter over every witness of up to four    *)
(* items.  Rates are in sat/kB, sizes in vB.                                *)
(***************************************************************************)
EXTENDS Integers, Sequences

CONSTANTS
  OpenAmount,    \* the amount of the swap output, in sat
  OtherAmount,   \* some other value an output may have
  OpenCsv,       \* the relative lock of the maker's refund, in blocks
  MaxDepth,      \* bound: confirmations counted
  Relays,        \* minimum rates of bitcoind's mempool
  Estimates,     \* answers of the fee estimator; 0: none
  CoreVersions   \* what bitcoind calls itself: <<major, minor>>, or <<>> when unreadable

ASSUME OnChainAssumption ==
  /\ {OpenAmount, OtherAmount, OpenCsv, MaxDepth} \subseteq Nat \ {0}
  /\ OpenAmount # OtherAmount
  /\ Relays \subseteq Nat /\ Relays # {} /\ Estimates \subseteq Nat
  /\ <<>> \in CoreVersions /\ CoreVersions \ {<<>>} \subseteq Nat \X Nat

VARIABLES
  wallet,     \* "cln", "lnd" (Bitcoin), "elementsd", "lwk" (Liquid): this node's wallet
  core,       \* bitcoind's version when the plugin started
  side,       \* "maker" or "taker": this node's side of the swap
  stage,      \* of the opening: "none", "broadcast", "returned", "failed", "lost"
  outs,       \* the outputs of the opening transaction
  scriptOut,  \* the index opening_tx_broadcasted names, counted from 0
  verdict,    \* the taker's ValidateTx: "none", "yes", "no"
  paid,       \* the taker has paid the claim invoice and has the preimage
  keyGiven,   \* the taker's key went out with coop_close
  depth,      \* confirmations of the opening transaction
  changeUsed, \* the maker's wallet has spent the change
  spender,    \* who spent the swap output, or "nobody"
  relay,      \* the minimum rate of the mempool
  seen,       \* the same when minFeeManager last fetched it
  claim       \* the last claim built: kind, fee paid, accepted or not

ocVars == <<wallet, core, side, stage, outs, scriptOut, verdict, paid, keyGiven, depth,
            changeUsed, spender, relay, seen, claim>>

-----------------------------------------------------------------------------
(* The script.                                                               *)

\* Faulty: the maker's branch does not check the lock.
ScriptWithoutLock == <<
  "maker", "CHECKSIG", "NOTIF",
    "maker", "CHECKSIG", "NOTIF",
      "SIZE", "32", "EQUALVERIFY", "SHA256", "hash", "EQUALVERIFY",
    "ENDIF",
    "taker", "CHECKSIG",
  "ELSE",
    "csv",
  "ENDIF" >>

OpeningTxScript == <<
  "maker", "CHECKSIG", "NOTIF",
    "maker", "CHECKSIG", "NOTIF",
      "SIZE", "32", "EQUALVERIFY", "SHA256", "hash", "EQUALVERIFY",
    "ENDIF",
    "taker", "CHECKSIG",
  "ELSE",
    "csv", "CSV",
  "ENDIF" >>

GetPreimageWitness == <<"takerSig", "preimage", "empty", "empty">>

GetCsvWitness == <<"makerSig">>

GetCooperativeWitness == <<"takerSig", "makerSig", "empty">>

SigOf(pk) == IF pk = "maker" THEN "makerSig" ELSE "takerSig"

\* Bitcoin's rules for the opcodes: a machine is a stack, the branches it is
\* in, and whether it still runs.  A failed CHECKSIG must have the empty
\* signature (NULLFAIL).
Pop(m, n) == SubSeq(m.stack, 1, Len(m.stack) - n)

Item(m, n) == m.stack[Len(m.stack) - n]

Push(m, n, x) == [m EXCEPT !.stack = Append(Pop(m, n), x)]

Exec(m, op, lock) ==
  LET has(n) == Len(m.stack) >= n
      stop == [m EXCEPT !.ok = FALSE]
  IN CASE op = "CHECKSIG" ->
            IF has(2) /\ Item(m, 1) = SigOf(Item(m, 0)) THEN Push(m, 2, "true")
            ELSE IF has(2) /\ Item(m, 1) = "empty" THEN Push(m, 2, "empty")
            ELSE stop
       [] op = "SIZE" ->
            IF has(1) THEN Push(m, 0, IF Item(m, 0) \in {"preimage", "junk"} THEN "32" ELSE "size")
            ELSE stop
       [] op = "SHA256" ->
            IF has(1) THEN Push(m, 1, IF Item(m, 0) = "preimage" THEN "hash" ELSE "digest")
            ELSE stop
       [] op = "EQUALVERIFY" ->
            IF has(2) /\ Item(m, 0) = Item(m, 1) THEN [m EXCEPT !.stack = Pop(m, 2)] ELSE stop
       [] op = "CSV" -> IF lock >= OpenCsv THEN m ELSE stop
       [] OTHER -> Push(m, 0, op)

\* One opcode; lock is the input's sequence, which consensus holds below its age.
ScriptStep(m, op, lock) ==
  LET live == \A b \in 1..Len(m.in) : m.in[b]
  IN IF ~m.ok THEN m
     ELSE CASE op = "NOTIF" ->
                 IF ~live THEN [m EXCEPT !.in = Append(@, FALSE)]
                 ELSE IF m.stack = <<>> THEN [m EXCEPT !.ok = FALSE]
                 ELSE [m EXCEPT !.stack = Pop(m, 1), !.in = Append(@, Item(m, 0) = "empty")]
            [] op = "ELSE" -> [m EXCEPT !.in[Len(m.in)] = ~@]
            [] op = "ENDIF" -> [m EXCEPT !.in = SubSeq(@, 1, Len(@) - 1)]
            [] OTHER -> IF live THEN Exec(m, op, lock) ELSE m

\* The machine after each opcode of the script.
Execution(witness, lock) ==
  LET run[n \in 0..Len(OpeningTxScript)] ==
        IF n = 0 THEN [stack |-> witness, in |-> <<>>, ok |-> TRUE]
        ELSE ScriptStep(run[n - 1], OpeningTxScript[n], lock)
  IN run

\* The witness opens the output: the script ends with one true item.
Unlocks(witness, lock) ==
  LET end == Execution(witness, lock)[Len(OpeningTxScript)]
  IN end.ok /\ Len(end.stack) = 1 /\ end.stack[1] # "empty"

Items == {"makerSig", "takerSig", "preimage", "empty", "junk"}

\* The witnesses that open the output, with the age they need it to have.
Openers ==
  {[age |-> p[1], witness |-> p[2]] :
     p \in {p \in (0..MaxDepth) \X UNION {[1..n -> Items] : n \in 1..4} : Unlocks(p[2], p[1])}}

OpensNow(w) == [age |-> depth, witness |-> w] \in Openers

-----------------------------------------------------------------------------
(* The outputs, and finding the one that holds the swap.  An index of 0 is   *)
(* the first output, as in the code.                                         *)

OnBitcoin == wallet \in {"cln", "lnd"}

SwapOutput == [script |-> "swap", value |-> OpenAmount]

Outputs == [script : {"swap", "other"}, value : {OpenAmount, OtherAmount}]

\* What a wallet funds: the swap output, and change before or after it.
FundedOutputs ==
  LET change == {o \in Outputs : o.script = "other"}
  IN {<<SwapOutput>>} \cup {<<SwapOutput, c>> : c \in change} \cup {<<c, SwapOutput>> : c \in change}

HasAmount(o) == o.value = OpenAmount

HasScript(o) == o.script = "swap"

WithAmount(os) == {i \in 1..Len(os) : HasAmount(os[i])}

WithScript(os) == {i \in 1..Len(os) : HasScript(os[i])}

First(S) == {i \in S : \A j \in S : i <= j}

\* The callers ignore the bool, so an output that fails the check is index 0.
GetVoutAndVerify(os) ==
  LET hit == {i \in First(WithAmount(os)) : HasScript(os[i])}
  IN IF hit = {} THEN 0 ELSE (CHOOSE i \in hit : TRUE) - 1

\* Faulty: Liquid looks for the amount, as Bitcoin does.
FindVoutByAmount(os) == {i - 1 : i \in First(WithAmount(os))}

\* Liquid's amounts are blinded: the script decides.
FindVout(os) == {i - 1 : i \in First(WithScript(os))}

ClaimVouts == IF OnBitcoin THEN {GetVoutAndVerify(outs)} ELSE FindVout(outs)

ValidateBitcoinTx(os) == \E i \in First(WithAmount(os)) : HasScript(os[i])

ValidateLiquidTx(os) == \E v \in FindVout(os) : HasAmount(os[v + 1])

\* Faulty: any output with the amount and the script will do.
ValidateAnyOutput == \E i \in 1..Len(outs) : HasAmount(outs[i]) /\ HasScript(outs[i])

ValidateTx == IF OnBitcoin THEN ValidateBitcoinTx(outs) ELSE ValidateLiquidTx(outs)

-----------------------------------------------------------------------------
(* The maker opens the swap.                                                 *)

Opened(os, vout, st) ==
  /\ stage' = st /\ outs' = os /\ scriptOut' = vout
  /\ UNCHANGED <<wallet, core, side, verdict, paid, keyGiven, depth, changeUsed, spender, relay, seen, claim>>

Opening(w) == wallet = w /\ side = "maker" /\ stage = "none"

ScriptOutOf(os) == GetVoutAndVerify(os)

LndCreateOpeningTransaction ==
  /\ Opening("lnd")
  /\ \E os \in FundedOutputs : Opened(os, ScriptOutOf(os), "returned")

ClnCreateOpeningTransaction ==
  /\ Opening("cln")
  /\ \E os \in FundedOutputs : Opened(os, ScriptOutOf(os), "returned")

\* CreateOpeningTransaction of liquid.go never sets its vout.
ElementsCreateOpeningTransaction ==
  /\ Opening("elementsd")
  /\ \E os \in FundedOutputs : Opened(os, 0, "returned")

\* The raw transaction is asked for after the broadcast.
LwkBroadcast ==
  /\ Opening("lwk")
  /\ \E os \in FundedOutputs : Opened(os, 0, "broadcast")

GetRawTransaction ==
  /\ stage = "broadcast"
  /\ \E st \in {"returned", "lost"} : Opened(outs, scriptOut, st)

\* Funding, signing or sending fails, before anything is on the chain.
CreateFails ==
  /\ side = "maker" /\ stage = "none"
  /\ Opened(outs, scriptOut, "failed")

\* This node is the taker: the peer's transaction and index are what they are.
PeerOpens ==
  /\ side = "taker" /\ stage = "none"
  /\ \E os \in UNION {[1..n -> Outputs] : n \in 1..2}, v \in 0..1 : Opened(os, v, "returned")

OnTheChain == stage \in {"broadcast", "returned", "lost"}

Mined ==
  /\ OnTheChain /\ depth < MaxDepth
  /\ depth' = depth + 1
  /\ UNCHANGED <<wallet, core, side, stage, outs, scriptOut, verdict, paid, keyGiven, changeUsed,
                 spender, relay, seen, claim>>

\* The maker's wallet is free to use its change.
UseChange ==
  /\ OnTheChain /\ Len(outs) = 2 /\ side = "maker" /\ ~changeUsed
  /\ changeUsed' = TRUE
  /\ UNCHANGED <<wallet, core, side, stage, outs, scriptOut, verdict, paid, keyGiven, depth, spender,
                 relay, seen, claim>>

-----------------------------------------------------------------------------
(* The taker checks, pays or gives up.                                       *)

TakerStep(v, p, k) ==
  /\ stage = "returned"
  /\ verdict' = v /\ paid' = p /\ keyGiven' = k
  /\ UNCHANGED <<wallet, core, side, stage, outs, scriptOut, depth, changeUsed, spender, relay, seen, claim>>

Validate ==
  /\ verdict = "none" /\ depth >= 1
  /\ TakerStep(IF ValidateTx THEN "yes" ELSE "no", paid, keyGiven)

PayClaimInvoice == verdict = "yes" /\ ~keyGiven /\ ~paid /\ TakerStep(verdict, TRUE, keyGiven)

CoopClose == ~paid /\ ~keyGiven /\ TakerStep(verdict, paid, TRUE)

-----------------------------------------------------------------------------
(* The fee of a claim.                                                       *)

Larger(a, b) == IF a >= b THEN a ELSE b

\* The default minimum of bitcoind: 0.1 sat/vB from v29.2 on, 1 sat/vB before; sat/kw.
DetermineFeeFloor(v) == IF v # <<>> /\ (v[1] > 29 \/ (v[1] = 29 /\ v[2] >= 2)) THEN 25 ELSE 253

\* Behind LND the version is not asked for, and core stays <<>>.
FeeFloor == DetermineFeeFloor(core)

\* minFeeManager: the minimum it last fetched, in sat/kw, and no less than the floor.
MinFee(sat) == Larger(sat \div 4, FeeFloor)

\* GBitcoindEstimator: a failed call falls back to 6250 sat/kw, an answer of 0 is raised
\* to the minimum like any other.
BitcoindFeesPerKW(est, sat) ==
  IF est = 0 THEN {Larger(6250, MinFee(sat)), MinFee(sat)} ELSE {Larger(est \div 4, MinFee(sat))}

LndFeePerKW(est) == IF est = 0 THEN FeeFloor ELSE est \div 4

EstimatesPerKW(est, sat) ==
  IF wallet = "cln" THEN BitcoindFeesPerKW(est, sat) ELSE {LndFeePerKW(est)}

GetFee(rate, size) == (Larger(rate, FeeFloor) * 4 * size) \div 1000

\* The claim without its witness is 82 vB; 74 more are assumed for the witness.
ClaimSize(kind) == IF kind = "coop" THEN 250 ELSE 82 + 74

\* What the claim weighs with the witness, rounded up.
VSize(kind) == CASE kind = "preimage" -> 149 [] kind = "csv" -> 140 [] OTHER -> 159

\* A Bitcoin claim leaves 200 sat more than its fee.
PrepareSpendingTransaction(kind, rate) == 200 + GetFee(rate, ClaimSize(kind))

getEstimatedTxSize(kind) == IF kind = "coop" THEN 1360 \div 4 ELSE 1350 \div 4

\* ElementsRpcWallet: a failed call leaves the caller's placeholder, an estimate
\* with errors the minimum of 0.1 sat/vB.
ElementsFees(kind, est) ==
  IF est = 0 THEN {500, (100 * getEstimatedTxSize(kind)) \div 1000}
  ELSE {(Larger(100, est) * getEstimatedTxSize(kind)) \div 1000}

LwkFees(kind, est) == {(Larger(100, est) * getEstimatedTxSize(kind)) \div 1000}

LiquidFees(kind, est) == IF wallet = "lwk" THEN LwkFees(kind, est) ELSE ElementsFees(kind, est)

\* The mempool's minimum for a claim.
Asked(kind, sat) == (sat * VSize(kind) + 999) \div 1000

-----------------------------------------------------------------------------
(* Claims.                                                                   *)

Witness(kind) ==
  CASE kind = "preimage" -> GetPreimageWitness
    [] kind = "csv" -> GetCsvWitness
    [] OTHER -> GetCooperativeWitness

\* gettxout with the announced index, or a watch on the script.
CsvPassed ==
  /\ depth >= OpenCsv
  /\ wallet \in {"lnd", "lwk"} \/ HasScript(outs[scriptOut + 1]) \/ ~changeUsed

\* What each side is asked to build.
MayClaim(kind) ==
  /\ stage = "returned" /\ spender = "nobody"
  /\ CASE kind = "preimage" -> side = "taker" /\ paid
       [] kind = "csv" -> side = "maker" /\ CsvPassed
       [] OTHER -> side = "maker" /\ keyGiven

\* The network takes a claim of the swap output with the right witness that
\* pays out something and meets the mempool's minimum.
Accepted(kind, vout, fee) ==
  /\ outs[vout + 1] = SwapOutput
  /\ OpensNow(Witness(kind))
  /\ fee < OpenAmount
  /\ OnBitcoin => fee >= Asked(kind, relay)

Submit(kind, vout, fee, sat) ==
  LET ok == Accepted(kind, vout, fee)
  IN /\ claim' = [kind |-> kind, fee |-> fee, ok |-> ok]
     /\ seen' = sat
     /\ spender' = IF ok THEN side ELSE spender
     /\ UNCHANGED <<wallet, core, side, stage, outs, scriptOut, verdict, paid, keyGiven, depth,
                    changeUsed, relay>>

LndClaim(kind, est) ==
  /\ wallet = "lnd" /\ MayClaim(kind)
  /\ \E v \in ClaimVouts, rate \in EstimatesPerKW(est, seen) :
       Submit(kind, v, PrepareSpendingTransaction(kind, rate), seen)

\* The estimate may fetch the minimum anew.
ClnClaim(kind, est) ==
  /\ wallet = "cln" /\ MayClaim(kind)
  /\ \E v \in ClaimVouts, sat \in {seen, relay} :
       \E rate \in EstimatesPerKW(est, sat) :
         Submit(kind, v, PrepareSpendingTransaction(kind, rate), sat)

\* createSpendingTransaction checks the output again before it spends it.
createSpendingTransaction(kind, fee) ==
  /\ fee > 0
  /\ \E v \in FindVout(outs) : HasAmount(outs[v + 1]) /\ Submit(kind, v, fee, seen)

LiquidClaim(kind, est) ==
  /\ ~OnBitcoin /\ MayClaim(kind)
  /\ \E fee \in LiquidFees(kind, est) : createSpendingTransaction(kind, fee)

\* Any witness a side can put together from what it holds.
Held(who) ==
  {"empty", "junk"} \cup
  IF who = "maker" THEN {"makerSig", "preimage"} \cup (IF keyGiven THEN {"takerSig"} ELSE {})
  ELSE {"takerSig"} \cup (IF paid THEN {"preimage"} ELSE {})

Spend(who) ==
  /\ OnTheChain /\ spender = "nobody" /\ \E i \in 1..Len(outs) : outs[i] = SwapOutput
  /\ \E o \in Openers :
       o.age = depth /\ \A i \in 1..Len(o.witness) : o.witness[i] \in Held(who)
  /\ spender' = who
  /\ UNCHANGED <<wallet, core, side, stage, outs, scriptOut, verdict, paid, keyGiven, depth,
                 changeUsed, relay, seen, claim>>

MempoolMoves ==
  /\ \E r \in Relays \ {relay} : relay' = r
  /\ UNCHANGED <<wallet, core, side, stage, outs, scriptOut, verdict, paid, keyGiven, depth,
                 changeUsed, spender, seen, claim>>

-----------------------------------------------------------------------------
OnChainInit ==
  /\ wallet \in {"cln", "lnd", "elementsd", "lwk"} /\ side \in {"maker", "taker"}
  /\ core \in IF wallet = "cln" THEN CoreVersions ELSE {<<>>}
  /\ stage = "none" /\ outs = <<SwapOutput>> /\ scriptOut = 0 /\ verdict = "none"
  /\ paid = FALSE /\ keyGiven = FALSE /\ depth = 0 /\ changeUsed = FALSE /\ spender = "nobody"
  /\ relay \in Relays /\ seen = relay
  /\ claim = [kind |-> "none", fee |-> 0, ok |-> FALSE]

Claim ==
  \E kind \in {"preimage", "csv", "coop"}, est \in Estimates :
    LndClaim(kind, est) \/ ClnClaim(kind, est) \/ LiquidClaim(kind, est)

OnChainNext ==
  \/ LndCreateOpeningTransaction \/ ClnCreateOpeningTransaction \/ ElementsCreateOpeningTransaction
  \/ LwkBroadcast \/ GetRawTransaction \/ CreateFails \/ PeerOpens
  \/ Mined \/ UseChange \/ MempoolMoves
  \/ Validate \/ PayClaimInvoice \/ CoopClose \/ Claim
  \/ \E who \in {"maker", "taker"} : Spend(who)

OnChainSpec == OnChainInit /\ [][OnChainNext]_ocVars

-----------------------------------------------------------------------------
(* Properties.                                                               *)

\* Bitcoin: an output of the same value stands before the swap output.
TwinFirst == OnBitcoin /\ outs[1] # SwapOutput /\ HasAmount(outs[1])

\* What the taker's ValidateTx accepted, its claim finds: the output the claim
\* spends is the swap output with the amount, and the preimage opens it.
ValidatedIsClaimable ==
  verdict = "yes" =>
    /\ \E v \in ClaimVouts : outs[v + 1] = SwapOutput
    /\ OpensNow(GetPreimageWitness)

\* A maker whose opening transaction is on the chain can take it back after the
\* CSV: its refund spends the swap output with a witness that opens it.  Two
\* cases are left out: change of the very amount in front of it, and LWK's
\* failed GetRawTransaction after the broadcast.
OpeningIsRefundable ==
  side = "maker" /\ stage \in {"returned", "lost"} /\ ~TwinFirst =>
    \/ /\ stage = "returned"
       /\ \E v \in ClaimVouts : outs[v + 1] = SwapOutput
       /\ depth >= OpenCsv => OpensNow(GetCsvWitness)
    \/ stage = "lost" /\ wallet = "lwk"

\* Whatever witness a side puts together, the taker gets the output only with
\* the preimage, and the maker only after the CSV or with the taker's key.
OutputSpentAsPromised ==
  [][spender' # spender =>
       IF spender' = "taker" THEN paid ELSE keyGiven \/ depth >= OpenCsv]_ocVars

\* A claim priced by bitcoind pays what the mempool asked when the minimum was
\* last fetched, whichever estimate came back.
ClaimMeetsMinimum ==
  [][claim' # claim /\ wallet = "cln" => claim'.fee >= Asked(claim'.kind, seen')]_ocVars
=============================================================================
