------------------------------ MODULE ReplaySim ------------------------------
(***************************************************************************)
(* The full replay (forwardtest/replay_full.py): the tape of each market    *)
(* drives the production quote, size, cap and exit logic once per arm, and  *)
(* the daily equities of the markets add up to the portfolio curve.         *)
(*                                                                         *)
(* Prices are levels 0..P on the grid the quoter works in; cash and equity  *)
(* are in halves of a level, because an exit crosses half a spread.  The    *)
(* decision path is shared: a step is one event of it under every arm.      *)
(***************************************************************************)
EXTENDS Integers, Sequences, FiniteSets, FiniteSetsExt, Functions

CONSTANTS
  P,                \* the level of probability 1
  PrintSizes,       \* of the tape
  QuoteSize, LightSize,   \* in full, and while defensive
  BaseCap,          \* of the position, halved once the horizon is shorter
  Lot,              \* inventory that skews the quote by a level
  Lambdas,          \* jump intensities, in expected loss at the middle
  LambdaStars,
  MaxMarkets, MaxDay, MaxEvents   \* bounds; events over all markets

ASSUME SimAssumption ==
  /\ {P, QuoteSize, LightSize, BaseCap, Lot} \subseteq Nat \ {0} /\ LightSize <= QuoteSize
  /\ PrintSizes \subseteq Nat \ {0} /\ Lambdas \subseteq Nat /\ LambdaStars \subseteq Nat
  /\ {MaxMarkets, MaxDay, MaxEvents} \subseteq Nat

SimArms == {"diffusion_only", "lambda_jump"}
Sizes == 0..QuoteSize
NoQuote == [bid |-> 0, ask |-> P, bid_size |-> 0, ask_size |-> 0, up |-> FALSE]

VARIABLES
  lambda, star,
  events, sim_day, mid, cap,          \* where the path is
  sim,              \* per arm, the locals of simulate on this market
  marked,           \* per arm, day_equity of this market
  tape,             \* this market's equities, event by event
  sims              \* the markets done: day_equity, pnl, tape

simVars == <<lambda, star, events, sim_day, mid, cap, sim, marked, tape, sims>>

Lam(a) == IF a = "lambda_jump" THEN lambda ELSE 0
Min2(x, y) == IF x < y THEN x ELSE y
Max2(x, y) == IF x > y THEN x ELSE y
-----------------------------------------------------------------------------
(* simulate: one event under one arm.                                      *)
Fresh == [inventory |-> 0, cash |-> 0, defensive |-> FALSE, n_exits |-> 0, q |-> NoQuote]
Equity(s, m) == s.cash + 2 * s.inventory * m

\* A print strictly through a standing quote fills it at the quote's price.
Fill(s, px, sz) ==
  IF s.q.up /\ s.q.bid_size > 0 /\ px < s.q.bid
  THEN LET take == Min2(s.q.bid_size, sz)
       IN  [s EXCEPT !.inventory = @ + take, !.cash = @ - 2 * take * s.q.bid]
  ELSE IF s.q.up /\ s.q.ask_size > 0 /\ px > s.q.ask
  THEN LET take == Min2(s.q.ask_size, sz)
       IN  [s EXCEPT !.inventory = @ - take, !.cash = @ + 2 * take * s.q.ask]
  ELSE s

\* The exit gate: the expected jump loss of the position against the cost of crossing
\* half the spread with half of it (a logit loss of 4l/P is l levels at the middle);
\* without reward parameters nothing is forgone.
Fires(s, m, l) ==
  /\ l > star /\ s.inventory # 0 /\ s.q.up
  /\ 16 * l * m * (P - m) > P * P * (s.q.ask - s.q.bid)

Exit(s, m, l) ==
  IF ~Fires(s, m, l) THEN s
  ELSE LET long == s.inventory > 0
           size == (IF long THEN s.inventory ELSE -s.inventory) \div 2
           px2  == IF long THEN 2 * m - (s.q.ask - s.q.bid) ELSE 2 * m + (s.q.ask - s.q.bid)
           delta == IF long THEN -size ELSE size
       IN  [s EXCEPT !.inventory = @ + delta, !.cash = @ - delta * px2,
                     !.defensive = TRUE, !.n_exits = @ + 1]

\* compute_quote, on levels: the reservation level leans away from a capped inventory and
\* towards the jump, and the half spread widens by the jump premium.
inventory_cap(m) == (BaseCap * 4 * m * (P - m)) \div (P * P)

compute_quote(m, q, half, l) ==
  LET skew == Max2(-inventory_cap(m), Min2(inventory_cap(m), q)) \div Lot
      drift == IF 2 * m >= P THEN l ELSE -l
      at == Max2(1, Min2(P - 1, m - skew + drift))
  IN  [bid |-> Max2(0, at - half - l), ask |-> Min2(P, at + half + l)]

\* A quote that cannot be computed withdraws both sides; a side that would add to a
\* position at the cap has size 0.

Requote(s, m, half, l, c) ==
  IF half = 0 THEN [s EXCEPT !.q = NoQuote]
  ELSE LET q == compute_quote(m, s.inventory, half, l)
           size == IF s.defensive THEN LightSize ELSE QuoteSize
       IN  [s EXCEPT !.q = [bid |-> q.bid, ask |-> q.ask, up |-> TRUE,
                            bid_size |-> IF s.inventory < c THEN size ELSE 0,
                            ask_size |-> IF s.inventory > -c THEN size ELSE 0]]
-----------------------------------------------------------------------------
(* run_full: market after market, event after event.                       *)
NewMarket ==
  /\ sim_day' = 1 /\ mid' = 0 /\ cap' = BaseCap
  /\ sim' = [a \in SimArms |-> Fresh]
  /\ marked' = [a \in SimArms |-> <<>>] /\ tape' = <<>>

SimInit ==
  /\ lambda \in Lambdas /\ star \in LambdaStars
  /\ events = 0 /\ sim_day = 1 /\ mid = 0 /\ cap = BaseCap
  /\ sim = [a \in SimArms |-> Fresh]
  /\ marked = [a \in SimArms |-> <<>>] /\ tape = <<>> /\ sims = <<>>

\* The smoothed mid moves part of the way to the print; the first print is the mid.
Smoothed(px) == IF tape = <<>> THEN {px} ELSE Min2(mid, px)..Max2(mid, px)

Put(dict, key, value) == [x \in DOMAIN dict \cup {key} |-> IF x = key THEN value ELSE dict[x]]

Event(px, sz, m, half, d, c) ==
  /\ events < MaxEvents /\ Len(sims) < MaxMarkets
  /\ m \in Smoothed(px) /\ d >= sim_day /\ c <= cap
  /\ events' = events + 1 /\ mid' = m /\ sim_day' = d /\ cap' = c
  /\ sim' = [a \in SimArms |->
       Requote(Exit(Fill(sim[a], px, sz), m, Lam(a)), m, half, Lam(a), c)]
  /\ marked' = [a \in SimArms |-> Put(marked[a], d, Equity(sim'[a], m))]
  /\ tape' = Append(tape, [day |-> d, worth |-> [a \in SimArms |-> Equity(sim'[a], m)]])
  /\ UNCHANGED <<lambda, star, sims>>

MarketDone ==
  /\ tape # <<>> /\ Len(sims) < MaxMarkets
  /\ sims' = Append(sims, [day_equity |-> marked, tape |-> tape,
                           pnl |-> [a \in SimArms |-> Equity(sim[a], mid)]])
  /\ NewMarket
  /\ UNCHANGED <<lambda, star, events>>

SimNext ==
  \/ \E px \in 1..(P - 1), sz \in PrintSizes, half \in 0..1, d \in 1..MaxDay, c \in {BaseCap, BaseCap \div 2} :
       \E m \in Smoothed(px) : Event(px, sz, m, half, d, c)
  \/ MarketDone
SimSpec == SimInit /\ [][SimNext]_simVars
-----------------------------------------------------------------------------
(* The portfolio.                                                          *)
\* lambda_select leaves out a market whose rate is beyond lambda*, and is lambda-off on the rest.
Skipped == lambda > star
CurveArms == SimArms \cup {"lambda_select"}
As(a) == IF a = "lambda_select" THEN "diffusion_only" ELSE a
Markets(a) == IF a = "lambda_select" /\ Skipped THEN {} ELSE DOMAIN sims

AllDays(a) == UNION {DOMAIN sims[i].day_equity[As(a)] : i \in Markets(a)}

Carried_ahead(de, final, d) ==      \* the mark of the day after
  IF \A e \in DOMAIN de : d < e THEN 0
  ELSE IF \A e \in DOMAIN de : d >= e THEN final ELSE de[Min({e \in DOMAIN de : e > d})]

Carried(de, final, d) ==
  IF \A e \in DOMAIN de : d < e THEN 0
  ELSE IF \A e \in DOMAIN de : d >= e THEN final ELSE de[Max({e \in DOMAIN de : e <= d})]

portfolio_daily(a) ==
  [d \in AllDays(a) |->
     SumFunction([i \in Markets(a) |-> Carried(sims[i].day_equity[As(a)], sims[i].pnl[As(a)], d)])]
-----------------------------------------------------------------------------

\* The daily curve is what the portfolio was worth: on each of its days the sum of every
\* market's equity at its last event until then, and on the last the sum of the pnls.
Worth(i, a, d) ==
  LET past == {k \in DOMAIN sims[i].tape : sims[i].tape[k].day <= d}
  IN  IF past = {} THEN 0 ELSE sims[i].tape[Max(past)].worth[a]

CurveIsWorth ==
  \A a \in CurveArms :
    LET curve == portfolio_daily(a)
    IN  /\ \A d \in DOMAIN curve :
             curve[d] = SumFunction([i \in Markets(a) |-> Worth(i, As(a), d)])
        /\ DOMAIN curve # {} =>
             curve[Max(DOMAIN curve)] = SumFunction([i \in Markets(a) |-> sims[i].pnl[As(a)]])
=============================================================================
