---------------------------- MODULE MCExecution ----------------------------
(***************************************************************************)
(* Instances of Execution for TLC.  Ten basis points make a whole, so that *)
(* fees, tolerances and floors of single digits round the way the real     *)
(* ones do.  One owner o with two plans on the same payment account, one   *)
(* keeper k, the vault authority g.                                        *)
(***************************************************************************)
EXTENDS Execution, TLC

CONSTANTS o, k, g, acc_o, acc_k, s1, s2, v1, v2, w1, w2

MCPowerOfTen == [d \in 0..2 |-> 10^d]
MCRegistered == (v1 :> {w1, w2}) @@ (v2 :> {w1})
MCDecimals == (w1 :> 1) @@ (w2 :> 1)
\* w2 moves from 1.0 to 1.5 at time 2.
MCMintConfig ==
  (w1 :> [multiplier |-> 2, new_multiplier |-> 2, effective_ts |-> 0]) @@
  (w2 :> [multiplier |-> 2, new_multiplier |-> 3, effective_ts |-> 2])
MCAuthority == (v1 :> g) @@ (v2 :> g)
MCInitialVault == (v1 :> [bps |-> 1, min |-> 0]) @@ (v2 :> [bps |-> 2, min |-> 0])
MCInitialAccount ==
  (acc_o :> [holder |-> o, balance |-> 25]) @@ (acc_k :> [holder |-> k, balance |-> 0])
\* Enough for four buys.
MCFundedAccount ==
  (acc_o :> [holder |-> o, balance |-> 40]) @@ (acc_k :> [holder |-> k, balance |-> 0])

-----------------------------------------------------------------------------
(* Instructions *)

TermsOf(first, min, tol, cad) ==
  [owner |-> o, vault |-> v1, account |-> acc_o, amount_usdc |-> 10,
   cadence_seconds |-> cad, first_run_ts |-> first, min_equity_units |-> min,
   tolerance |-> tol]

CreateIx(s, terms) ==
  [op |-> "create_schedule", top |-> TRUE, schedule |-> s, terms |-> terms]
CancelIx(s, who) ==
  [op |-> "cancel_schedule", top |-> TRUE, schedule |-> s, signer |-> who]
FeeIx(v, who, bps, min) ==
  [op |-> "set_keeper_fee", top |-> TRUE, vault |-> v, signer |-> who,
   bps |-> bps, min |-> min]
BeginIx(s, v, w, who, acc, metas) ==
  [op |-> "begin_execution", top |-> TRUE, schedule |-> s, vault |-> v,
   wrapper |-> w, caller |-> who, account |-> acc, metas |-> metas]
SettleIx(s, v, w, who, acc, min) ==
  [op |-> "settle_execution", top |-> TRUE, schedule |-> s, vault |-> v,
   wrapper |-> w, caller |-> who, account |-> acc, min |-> min]
DeliverIx(s, w, n) == [op |-> "deliver", schedule |-> s, wrapper |-> w, amount |-> n]
ApproveIx(s, n) ==
  [op |-> "approve", account |-> acc_o, signer |-> o, delegate |-> s, amount |-> n]
RevokeIx == [op |-> "revoke", account |-> acc_o, signer |-> o]
HandOverIx(who, to) ==
  [op |-> "set_authority", account |-> acc_o, signer |-> who, to |-> to]

ByCpi(ix) == [ix EXCEPT !.top = FALSE]

\* The keeper's begin and settle of s in its own vault.
Begin(s, w) == BeginIx(s, v1, w, k, acc_k, {})
Settle(s, w, min) == SettleIx(s, v1, w, k, acc_k, min)
Buy(s, w, n, min) == <<Begin(s, w), DeliverIx(s, w, n), Settle(s, w, min)>>
\* A buy with other instructions between the delivery and the settle.
BuyAround(s, w, n, ixs) ==
  <<Begin(s, w), DeliverIx(s, w, n)>> \o ixs \o <<Settle(s, w, 0)>>
SelfBuy(s, w, n) ==
  <<BeginIx(s, v1, w, o, acc_o, {}), DeliverIx(s, w, n),
    SettleIx(s, v1, w, o, acc_o, 0)>>

-----------------------------------------------------------------------------
(* What gets submitted *)

\* The app's transactions: create, a second plan, change (cancel and create
\* again), cancel.
Managing(terms) ==
  { <<CreateIx(s1, terms), ApproveIx(s1, 20)>>,
    <<CreateIx(s2, terms)>>,
    <<CancelIx(s1, o), CreateIx(s2, terms), ApproveIx(s2, 10)>>,
    <<CancelIx(s1, o), RevokeIx>> }

\* Transactions that are not the documented shape.
OddTransactions ==
  { <<Begin(s1, w1), DeliverIx(s1, w1, 5)>>,
    <<Settle(s1, w1, 0), Begin(s1, w1)>>,
    <<Begin(s1, w1), DeliverIx(s1, w1, 5), Settle(s1, w1, 0), Settle(s1, w1, 0)>>,
    <<Begin(s1, w1), Begin(s2, w1), DeliverIx(s1, w1, 5), DeliverIx(s2, w1, 5),
      Settle(s2, w1, 0), Settle(s1, w1, 0)>>,
    <<BeginIx(s1, v1, w1, k, acc_k, {s2}), DeliverIx(s1, w1, 5), Settle(s2, w1, 0)>>,
    <<Begin(s1, w1), ByCpi(Begin(s2, w1)), DeliverIx(s2, w1, 5), Settle(s2, w1, 0)>>,
    <<ByCpi(Begin(s1, w1)), DeliverIx(s1, w1, 5), Settle(s1, w1, 0)>>,
    <<BeginIx(s1, v1, w1, k, acc_k, {s2}), DeliverIx(s1, w1, 5),
      ByCpi(Settle(s1, w1, 0)), Settle(s2, w1, 0)>>,
    <<Begin(s1, w1), DeliverIx(s1, w1, 5), CancelIx(s1, o), Settle(s1, w1, 0)>>,
    BuyAround(s1, w1, 5, <<ByCpi(CancelIx(s1, o))>>),
    BuyAround(s1, w1, 5, <<ByCpi(FeeIx(v1, g, 2, 0))>>),
    BuyAround(s1, w1, 5, <<ByCpi(FeeIx(v1, g, 0, 0))>>),
    BuyAround(s1, w1, 5, <<ByCpi(Settle(s1, w1, 0))>>),
    BuyAround(s1, w1, 5, <<HandOverIx(o, g)>>),
    BuyAround(s1, w1, 5, <<RevokeIx>>),
    BuyAround(s1, w1, 5, <<ApproveIx(s2, 20)>>),
    BuyAround(s1, w1, 5, <<DeliverIx(s1, w1, 1)>>),
    <<Begin(s1, w1), DeliverIx(s1, w1, 5), Settle(s1, w2, 0)>>,
    <<Begin(s1, w1), DeliverIx(s1, w1, 5), Settle(s1, w1, 0), ByCpi(CancelIx(s1, o))>>,
    <<Begin(s1, w1), Settle(s1, w1, 0)>>,
    <<Begin(s1, w1), DeliverIx(s1, w1, 5), SettleIx(s1, v1, w1, o, acc_o, 0)>>,
    <<BeginIx(s1, v2, w1, k, acc_k, {}), DeliverIx(s1, w1, 5),
      SettleIx(s1, v2, w1, k, acc_k, 0)>>,
    <<Begin(s1, w1), DeliverIx(s1, w1, 5), SettleIx(s1, v2, w1, k, acc_k, 0)>>,
    <<BeginIx(s1, v1, w1, k, acc_k, {s2}), ApproveIx(s2, 20), ByCpi(Begin(s2, w1)),
      DeliverIx(s2, w1, 5), Settle(s2, w1, 0)>>,
    SelfBuy(s1, w1, 5),
    Buy(s1, w1, 5, 6) }

Interference ==
  { <<CancelIx(s1, k)>>, <<FeeIx(v1, g, 0, 5)>>, <<FeeIx(v1, g, 2, 0)>>,
    <<ApproveIx(s1, 15)>>, <<HandOverIx(o, g)>>, <<HandOverIx(g, o)>>,
    <<[ApproveIx(s1, 20) EXCEPT !.signer = g]>> }

\* Shapes and interference around one or two buys.
MCShapes == Managing(TermsOf(0, 4, 4, 2)) \cup OddTransactions \cup Interference

\* A long run of buys of one plan, on time, late and short, in two wrappers;
\* one of the plans starts in the past.
MCPace ==
  { <<CreateIx(s1, TermsOf(0, 4, 4, 2)), ApproveIx(s1, 20)>>,
    <<CreateIx(s1, TermsOf(-4, 0, 2, 3)), ApproveIx(s1, 30)>>,
    <<ApproveIx(s1, 20)>>, <<FeeIx(v1, g, 0, 5)>>,
    Buy(s1, w1, 3, 0), Buy(s1, w1, 5, 0), Buy(s1, w2, 3, 0), Buy(s1, w1, 4, 5) }
=============================================================================
