------------------------------ MODULE Admission ------------------------------
(***************************************************************************)
(* How a swap is asked for, priced and agreed on: the swap-out and swap-in  *)
(* commands of the two front ends (clightning/clightning_commands.go,       *)
(* peerswaprpc/server.go), the checks of SwapService, the premium settings  *)
(* (premium/), the responder's checks and agreement, and the initiator's    *)
(* answer to it.  The subject is that every check reads a value the user,   *)
(* other payments or the wallet may change before the next step: one deal   *)
(* is followed while they move.                                             *)
(*                                                                          *)
(* The payer of the claim invoice is the initiator of a swap-out and the    *)
(* responder of a swap-in; the maker, who funds the opening transaction, is *)
(* the other one.  Amounts of a channel are in satoshis.                    *)
(***************************************************************************)
EXTENDS Integers

CONSTANTS
  Amounts,        \* swap amounts a user asks for
  Ppms,           \* premium rates, and limits on them
  Parts,          \* premiumRateParts
  HardOut,        \* DefaultPremiumRate of swap-outs, above 0; that of swap-ins is 0
  NoRate,         \* no rate stored
  Capacity,       \* of the channel
  Reserve,        \* either side's channel reserve
  MaxHtlcs,       \* what getMaxHtlcAmtMsat returns, 0 when it is not known
  Msat,           \* millisatoshis of a satoshi
  Slack,          \* the 5000 satoshis a swap-out command asks for on top
  MinSwap,        \* MinSwapAmountMsat of both ends
  Purses,         \* balances of the maker's wallet
  OpeningFees,    \* what GetFlatOpeningTXFee may return
  Uint64,         \* the modulus of uint64 arithmetic
  MaxMoves        \* bound: changes from outside the deal

ASSUME AdmissionAssumption ==
  /\ Amounts \subseteq Nat /\ Ppms \subseteq Int /\ HardOut \in Int
  /\ Parts \in Nat \ {0} /\ Msat \in Nat \ {0}
  /\ {Capacity, Reserve, Slack, MinSwap, MaxMoves} \subseteq Nat
  /\ MaxHtlcs \subseteq Nat /\ Purses \subseteq Nat /\ OpeningFees \subseteq Nat
  /\ NoRate \notin Int
  /\ Uint64 \in Nat /\ \A a \in Amounts : Uint64 > 2 * Msat * (Capacity + a + Reserve)

VARIABLES
  front,    \* the initiator's front end: "cln" or "lnd"
  local,    \* the initiator's balance in the channel
  htlcMax,  \* the payer's max_htlc in millisatoshis
  purse,    \* the maker's on-chain balance
  rateOf,   \* the responder's stored rates for this asset and operation: the peer's own
            \* and the default
  admits,   \* [{"initiator", "responder"} -> the policy admits the swap]
  deal,     \* [pc, kind, amt, ppm, limit, premium, fee]
  turned,   \* the requestedSwapsStore: [kind -> [n, total]]
  moves

adVars == <<front, local, htlcMax, purse, rateOf, admits, deal, turned, moves>>

NoDeal == [pc |-> "none", kind |-> "out", amt |-> 0, ppm |-> 0, limit |-> 0, premium |-> 0,
           fee |-> 0]

AdmissionInit ==
  /\ front \in {"cln", "lnd"}
  /\ local \in 0..Capacity
  /\ htlcMax \in MaxHtlcs
  /\ purse \in Purses
  /\ rateOf = [peer |-> NoRate, default |-> NoRate]
  /\ admits = [initiator |-> TRUE, responder |-> TRUE]
  /\ deal = NoDeal
  /\ turned = [k \in {"out", "in"} |-> [n |-> 0, total |-> 0]]
  /\ moves = 0

-----------------------------------------------------------------------------
\* The premium.

\* Setting.GetRate: the peer's rate, else the stored default, else the built-in one.
GetRate(kind) ==
  IF rateOf.peer # NoRate THEN rateOf.peer
  ELSE IF rateOf.default # NoRate THEN rateOf.default
  ELSE IF kind = "out" THEN HardOut ELSE 0

\* PPM.Compute: Go's division cuts towards zero.
Compute(amt, ppm) ==
  IF ppm >= 0 THEN (amt * ppm) \div Parts ELSE -((amt * (-ppm)) \div Parts)

ExceedsLimit(premium, limit) == premium > limit

-----------------------------------------------------------------------------
\* What the channel and the wallet allow.

Minus(a, b) == (a + Uint64 - b) % Uint64

\* The balance the claim invoice is paid from.
PayerBalance == IF deal.kind = "out" THEN local ELSE Capacity - local

\* min(max_htlc, what is above the reserve), for lnd; Core Lightning's own figure agrees
\* with it, and where that is 0 the same difference is taken.
Estimate(balance) ==
  LET all == (Minus(balance, Reserve) * Msat) % Uint64
  IN  IF htlcMax = 0 \/ all < htlcMax THEN all ELSE htlcMax

\* The payer asks for its local balance, the payee for its remote one: both are the payer's.
SpendableMsat == Estimate(PayerBalance)
ReceivableMsat == Estimate(PayerBalance)

\* The payer is the initiator of a swap-out and the responder of a swap-in.
Fits(who, sat) ==
  LET paying == (deal.kind = "out") <=> (who = "initiator")
  IN  (IF paying THEN SpendableMsat ELSE ReceivableMsat) >= sat * Msat

\* Faulty: any answer of the probe will do.
ProbeAnyway(sat) == TRUE

\* ProbePayment succeeds only where a payment of that size would; it may fail elsewhere.
ProbePayment(sat) == PayerBalance >= Reserve + sat

\* estimateMaximumSwapAmountSat
MaximumSwapAmount(fee) == Minus(purse, fee)

-----------------------------------------------------------------------------
\* The initiator's command.

Refuse(d) == deal' = [d EXCEPT !.pc = "refused"]

Called(kind, amt, ppm) ==
  /\ deal.pc = "none"
  /\ deal' = [NoDeal EXCEPT !.pc = "called", !.kind = kind, !.amt = amt, !.ppm = ppm]
  /\ UNCHANGED <<front, local, htlcMax, purse, rateOf, admits, turned, moves>>

\* The plugin's swap-out compares the whole capacity of the channel, the LND server's
\* the local balance.
ClnSwapOut(amt, ppm) ==
  /\ front = "cln" /\ amt > 0
  /\ Capacity >= amt + Slack
  /\ Called("out", amt, ppm)

LndSwapOut(amt, ppm) ==
  /\ front = "lnd" /\ amt > 0
  /\ local >= amt + Slack
  /\ Called("out", amt, ppm)

\* Only the plugin's swap-in asks for an amount above 0.
ClnSwapIn(amt, ppm) ==
  /\ front = "cln" /\ amt > 0
  /\ Capacity - local >= amt
  /\ Called("in", amt, ppm)

LndSwapIn(amt, ppm) ==
  /\ front = "lnd"
  /\ Capacity - local >= amt
  /\ Called("in", amt, ppm)

\* SwapService.SwapOut and SwapIn up to the request; a swap-in also has to fit the wallet.
Request ==
  /\ deal.pc = "called"
  /\ \E fee \in OpeningFees :
       IF /\ admits.initiator
          /\ deal.amt * Msat >= MinSwap
          /\ Fits("initiator", deal.amt)
          /\ deal.kind = "in" => deal.amt <= MaximumSwapAmount(fee)
       THEN deal' = [deal EXCEPT !.pc = "requested",
                                 !.limit = Compute(deal.amt, deal.ppm),
                                 !.fee = IF deal.kind = "in" THEN fee ELSE 0]
       ELSE Refuse(deal)
  /\ UNCHANGED <<front, local, htlcMax, purse, rateOf, admits, turned, moves>>

-----------------------------------------------------------------------------
\* The responder.

\* The handler of the request: the premium first, then the channel; the payer of a
\* swap-in also probes.
RefusePremium ==
  /\ deal.pc = "requested"
  /\ ExceedsLimit(Compute(deal.amt, GetRate(deal.kind)), deal.limit)
  /\ Refuse(deal)
  /\ UNCHANGED <<front, local, htlcMax, purse, rateOf, admits, turned, moves>>

OnRequestReceived ==
  /\ deal.pc = "requested"
  /\ ~ExceedsLimit(Compute(deal.amt, GetRate(deal.kind)), deal.limit)
  /\ \/ /\ Fits("responder", deal.amt)
        /\ deal.kind = "in" => ProbePayment(deal.amt)
        /\ deal' = [deal EXCEPT !.pc = "received"]
     \/ /\ ~Fits("responder", deal.amt) \/ deal.kind = "in"
        /\ Refuse(deal)
  /\ UNCHANGED <<front, local, htlcMax, purse, rateOf, admits, turned, moves>>

\* requestedSwapsStore.Add
Add(kind, amt) == turned' = [turned EXCEPT ![kind] = [n |-> @.n + 1, total |-> @.total + amt]]

\* CheckRequestWrapperAction: a request the policy does not admit is recorded.
CheckRequest ==
  /\ deal.pc = "received"
  /\ IF admits.responder /\ deal.amt * Msat >= MinSwap
       THEN deal' = [deal EXCEPT !.pc = "checked"] /\ turned' = turned
       ELSE /\ Refuse(deal)
            /\ Add(deal.kind, deal.amt)
  /\ UNCHANGED <<front, local, htlcMax, purse, rateOf, admits, moves>>

\* CreateSwapOutFromRequestAction and SwapInReceiverInitAction: the premium is computed
\* anew; the maker of a swap-out puts the opening fee into the fee invoice.
Agree ==
  /\ deal.pc = "checked"
  /\ LET premium == Compute(deal.amt, GetRate(deal.kind)) IN
       IF deal.kind = "in"
       THEN deal' = [deal EXCEPT !.pc = "agreed", !.premium = premium]
       ELSE \E fee \in OpeningFees :
              IF purse < deal.amt + fee THEN Refuse(deal)
              ELSE deal' = [deal EXCEPT !.pc = "agreed", !.premium = premium, !.fee = fee]
  /\ UNCHANGED <<front, local, htlcMax, purse, rateOf, admits, turned, moves>>

-----------------------------------------------------------------------------
\* The initiator commits itself.

CheckPremiumAmount(d) == d.premium <= d.limit

\* PayFeeInvoiceAction: the channel has to hold the amount and the fee, the probe to go
\* through, and the fee to be at most three times what the initiator would expect.
PayFeeInvoice ==
  /\ deal.pc = "agreed" /\ deal.kind = "out"
  /\ \E expected \in OpeningFees :
       IF /\ CheckPremiumAmount(deal)
          /\ Fits("initiator", deal.amt + deal.fee)
          /\ ProbePayment(deal.amt + deal.fee)
          /\ deal.fee <= 3 * expected
       THEN deal' = [deal EXCEPT !.pc = "committed"] /\ local' = local - deal.fee
       ELSE Refuse(deal) /\ local' = local
  /\ UNCHANGED <<front, htlcMax, purse, rateOf, admits, turned, moves>>

\* The probe or the payment of the fee fails.
FeeNotPaid ==
  /\ deal.pc = "agreed" /\ deal.kind = "out"
  /\ Refuse(deal)
  /\ UNCHANGED <<front, local, htlcMax, purse, rateOf, admits, turned, moves>>

\* CreateAndBroadcastOpeningTransaction of a swap-in: amount and premium leave the wallet,
\* which fails when it holds less.
OpenSwapIn ==
  /\ deal.pc = "agreed" /\ deal.kind = "in"
  /\ LET spent == deal.amt + deal.premium + deal.fee IN
       IF CheckPremiumAmount(deal) /\ purse >= spent
       THEN deal' = [deal EXCEPT !.pc = "committed"] /\ purse' = purse - spent
       ELSE Refuse(deal) /\ purse' = purse
  /\ UNCHANGED <<front, local, htlcMax, rateOf, admits, turned, moves>>

-----------------------------------------------------------------------------
\* Meanwhile.

Moved == moves < MaxMoves /\ moves' = moves + 1

\* The store of the premium setting: SetRate, SetDefaultRate and DeleteRate.
Stored(who, rate) ==
  /\ Moved
  /\ rateOf' = [rateOf EXCEPT ![who] = rate]
  /\ UNCHANGED <<front, local, htlcMax, purse, admits, deal, turned>>

UpdatePremiumRate(ppm) == Stored("peer", ppm)
DeletePremiumRate == rateOf.peer # NoRate /\ Stored("peer", NoRate)
UpdateGlobalPremiumRate(ppm) == Stored("default", ppm)

\* Other payments, other transactions, other policies.
ChannelMoves ==
  /\ Moved
  /\ local' \in 0..Capacity
  /\ UNCHANGED <<front, htlcMax, purse, rateOf, admits, deal, turned>>

PurseMoves ==
  /\ Moved
  /\ purse' \in Purses
  /\ UNCHANGED <<front, local, htlcMax, rateOf, admits, deal, turned>>

PolicyMoves(who) ==
  /\ Moved
  /\ admits' = [admits EXCEPT ![who] = ~@]
  /\ UNCHANGED <<front, local, htlcMax, purse, rateOf, deal, turned>>

AdmissionNext ==
  \/ \E amt \in Amounts, ppm \in Ppms :
       \/ ClnSwapOut(amt, ppm) \/ LndSwapOut(amt, ppm)
       \/ ClnSwapIn(amt, ppm) \/ LndSwapIn(amt, ppm)
  \/ Request \/ RefusePremium \/ OnRequestReceived \/ CheckRequest \/ Agree
  \/ PayFeeInvoice \/ FeeNotPaid \/ OpenSwapIn
  \/ \E ppm \in Ppms : UpdatePremiumRate(ppm) \/ UpdateGlobalPremiumRate(ppm)
  \/ DeletePremiumRate
  \/ ChannelMoves \/ PurseMoves
  \/ \E who \in {"initiator", "responder"} : PolicyMoves(who)

AdmissionSpec == AdmissionInit /\ [][AdmissionNext]_adVars

-----------------------------------------------------------------------------
\* Properties.

DealPcs == {"none", "called", "requested", "received", "checked", "agreed", "committed",
            "refused"}

\* Whatever the responder's rates do between its two computations, the initiator is only
\* committed to a premium its own limit rate allows (CheckPremiumAmount).
CostIsBounded ==
  deal.pc = "committed" => deal.premium <= Compute(deal.amt, deal.ppm)

\* A fee invoice is only paid when what is left in the channel above the reserve covers the
\* swap amount, though the spendable estimate wraps around where the balance is below the
\* reserve: the probe makes up for it (PayFeeInvoiceAction, SpendableMsat).
CoveredWhenPaid ==
  [][deal.pc = "agreed" /\ deal'.pc = "committed" /\ deal.kind = "out"
       => local' >= Reserve + deal.amt]_adVars
=============================================================================
