----------------------------- MODULE MCTrading -----------------------------
(***************************************************************************)
(* The three places where quotes become positions: the contract of the      *)
(* testnet markets, the loop on the paper-live adapter, and the order path  *)
(* to the real exchange.  They share no state, and a behaviour follows one  *)
(* and leaves the others as they began.                                     *)
(*                                                                         *)
(* Contract: one market with two users.  A price is a number of quarters    *)
(* (ONE = 4), so that costs are rounded; no integer exceeds MaxUint.        *)
(* Paper: a cap of two, orders and prints of up to two, depth of none or    *)
(* two.  Live: prices of up to 4 on ticks of 1 and 2, sizes 1 and 2, a cap  *)
(* of 6, so that two orders can fill the cap and rounding to the other tick *)
(* moves the notional of an order across it.                                *)
(***************************************************************************)
EXTENDS PolyLambdaMarket, QuotingLoop, LiveOrders

CONSTANTS EngineFunds, UserFunds

MCInitialUSDC == [a \in Users \cup {Engine} |-> IF a = Engine THEN EngineFunds ELSE UserFunds]

VARIABLE part       \* the place this behaviour is about

tradingVars == <<part, vars, quotingVars, liveVars>>

TradingInit ==
  /\ part \in {"contract", "paper", "live"} /\ Init /\ QuoteInit /\ OrdersInit
  /\ part # "live" => tick = (CHOOSE t \in Ticks : TRUE) /\ env = "live"
  /\ part # "paper" => adapter = "paper"

ContractPart(A) == part = "contract" /\ A /\ UNCHANGED <<part, quotingVars, liveVars>>
PaperPart(A) == part = "paper" /\ A /\ UNCHANGED <<part, vars, liveVars>>
LivePart(A) == part = "live" /\ A /\ UNCHANGED <<part, vars, quotingVars>>

TradingNext == ContractPart(Next) \/ PaperPart(QuoteNext) \/ LivePart(OrdersNext)

\* The fairness of LiveOrders' FairSpec.
TradingSpec ==
  /\ TradingInit /\ [][TradingNext]_tradingVars
  /\ WF_tradingVars(LivePart(Answer)) /\ WF_tradingVars(LivePart(WrapStep))
=============================================================================
