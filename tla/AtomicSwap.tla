----------------------------- MODULE AtomicSwap -----------------------------
(***************************************************************************)
(* What a swap promises, without the machines that carry it out: an HTLC on *)
(* the chain, a Lightning payment for its preimage, and the taker's key,    *)
(* which lets the maker take the HTLC back at once.  The taker offers the   *)
(* payment only while the HTLC is there and the key is its own; it gives    *)
(* the key away, and the maker takes the HTLC back, only while no payment   *)
(* is pending or done.                                                      *)
(***************************************************************************)
VARIABLES
  htlc,     \* "none", "locked", "claimed" or "refunded"
  payment,  \* "none", "pending" or "done"
  key       \* the taker's key has been revealed

vars == <<htlc, payment, key>>

Init == htlc = "none" /\ payment = "none" /\ key = FALSE

Lock ==
  /\ htlc = "none"
  /\ htlc' = "locked"
  /\ UNCHANGED <<payment, key>>

Offer ==
  /\ htlc = "locked" /\ payment = "none" /\ ~key
  /\ payment' = "pending"
  /\ UNCHANGED <<htlc, key>>

Resolve ==
  /\ payment = "pending"
  /\ payment' \in {"none", "done"}
  /\ UNCHANGED <<htlc, key>>

Reveal ==
  /\ payment = "none"
  /\ key' = TRUE
  /\ UNCHANGED <<htlc, payment>>

Claim ==
  /\ htlc = "locked" /\ payment = "done"
  /\ htlc' = "claimed"
  /\ UNCHANGED <<payment, key>>

Refund ==
  /\ htlc = "locked" /\ payment = "none"
  /\ htlc' = "refunded"
  /\ UNCHANGED <<payment, key>>

Next == Lock \/ Offer \/ Resolve \/ Reveal \/ Claim \/ Refund

Spec == Init /\ [][Next]_vars

\* A maker that was paid does not have the HTLC back, a taker that paid has its
\* key, and only a payment lets the taker claim.
Atomicity ==
  /\ payment = "done" => htlc # "refunded"
  /\ payment # "none" => ~key
  /\ htlc = "claimed" => payment = "done"
=============================================================================
