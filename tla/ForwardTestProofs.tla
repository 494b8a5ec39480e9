-------------------------- MODULE ForwardTestProofs --------------------------
(***************************************************************************)
(* Theorems about the forward tests.  Of the ablation: the accounting       *)
(* identity and the dominance of the reward-aware exit, for every market,   *)
(* label list, rate and grid.  Of the full replay: its daily curve is what  *)
(* the portfolio was worth, for every tape and every number of markets.  Of *)
(* the session log: what is read back from it is what happened, for every   *)
(* fleet, through any number of days, processes and crashes.                *)
(***************************************************************************)
EXTENDS ReplayAblation, ReplaySim, SessionLog, SumProofs, SequenceTheorems, TLAPS

(* The ablation.                                                           *)
Totals == [pnl : Int, avoided : Int, forgone : Int]

\* What a market's replay reads has its type, and so do the sums.
InputOK ==
  /\ dispute_ts \in [Cids -> Instants \cup {NoDispute}]
  /\ fills \in [Cids -> [weight : Weights, loss : [Instants -> Moves], sel : Rates, haz : Rates]]
  /\ ls \in Nat \ {0}
TotalsOK == acc \in [Arms -> Totals] /\ results \in Seq([Arms -> Totals])
TypeInv == InputOK /\ TotalsOK

LEMMA InitTyped == ReplayInit => TypeInv
  BY DEF ReplayInit, FillInputs, DisputeTimes, TypeInv, InputOK, TotalsOK, Totals, Nothing

LEMMA MarketInputs ==
  ASSUME TypeInv, NEW c \in Cids
  PROVE  fills[c].weight \in Nat /\ jump_loss(c) \in Int
<1>1. fills[c] \in [weight : Weights, loss : [Instants -> Moves], sel : Rates, haz : Rates]
  BY DEF TypeInv, InputOK
<1>2. fills[c].weight \in Weights /\ fills[c].loss \in [Instants -> Moves]
  BY <1>1
<1>3. dispute_ts[c] = NoDispute \/ dispute_ts[c] \in Instants
  BY DEF TypeInv, InputOK
<1>4. Weights \subseteq Nat /\ Moves \subseteq Nat
  BY ReplayAssumption DEF ReplayAssumption
<1>5. dispute_ts[c] \in Instants => fills[c].loss[dispute_ts[c]] \in Int
  <2>1. \A f \in [Instants -> Moves], t \in Instants : f[t] \in Moves
    OBVIOUS
  <2>2. \A m \in Moves : m \in Int
    BY <1>4
  <2>3. QED
    BY <1>2, <2>1, <2>2, Zenon
<1>6. jump_loss(c) \in Int
  BY <1>3, <1>5 DEF jump_loss
<1>7. QED
  BY <1>2, <1>4, <1>6

LEMMA GridTyped == TypeInv /\ ls <= Len(Grid) => Grid[ls] \in Int
  BY ReplayAssumption DEF ReplayAssumption, TypeInv, InputOK

\* One market under one arm: its pnl, what it avoided and forwent are integers.
LEMMA MarketTyped ==
  ASSUME TypeInv, NEW c \in Cids, NEW lambda_star \in Int
  PROVE  _replay_market(c, lambda_star) \in [Arms -> Totals]
<1>1. reward(c) \in Int /\ 2 * fills[c].weight \in Int
  BY MarketInputs DEF reward
<1>2. jump_loss(c) \in Int
  BY MarketInputs
<1>3. Held(c) \in Totals
  BY <1>1, <1>2 DEF Held, Totals
<1>4. Blanket(c, lambda_star) \in Totals
  BY <1>1, <1>2, <1>3 DEF Blanket, Totals
<1>5. \A rate : Surgical(c, rate, lambda_star) \in Totals
  BY <1>1, <1>2, <1>3 DEF Surgical, Totals
<1>6. QED
  BY <1>3, <1>4, <1>5 DEF _replay_market, Arms, Jumpers

LEMMA StepTyped == TypeInv /\ [ReplayNext]_replayVars => TypeInv'
<1> SUFFICES ASSUME TypeInv, [ReplayNext]_replayVars PROVE TypeInv'
  OBVIOUS
<1>1. ASSUME NEW c \in Cids, Replay(c) PROVE TypeInv'
  <2>1. Grid[ls] \in Int
    BY <1>1, GridTyped DEF Replay
  <2> DEFINE m == _replay_market(c, Grid[ls])
  <2>2. m \in [Arms -> Totals]
    BY <2>1, MarketTyped
  <2>3. acc' = [a \in Arms |-> Sum2(acc[a], m[a])] /\ UNCHANGED <<dispute_ts, fills, ls, results>>
    BY <1>1 DEF Replay
  <2> HIDE DEF m
  <2>4. acc' \in [Arms -> Totals]
    BY <2>2, <2>3 DEF Sum2, Totals, TypeInv, TotalsOK
  <2>5. QED
    BY <2>3, <2>4 DEF TypeInv, InputOK, TotalsOK
<1>2. CASE NextLambda
  BY <1>2 DEF NextLambda, TypeInv, InputOK, TotalsOK, Totals, Nothing
<1>3. CASE UNCHANGED replayVars
  BY <1>3 DEF replayVars, TypeInv, InputOK, TotalsOK
<1>4. QED
  BY <1>1, <1>2, <1>3 DEF ReplayNext
-----------------------------------------------------------------------------
\* One market keeps the identity, and a reward-aware exit of it gains.
LEMMA MarketAccounted ==
  ASSUME TypeInv, NEW c \in Cids, NEW lambda_star \in Int
  PROVE  Accounted(_replay_market(c, lambda_star)) /\ Dominates(_replay_market(c, lambda_star))
<1>1. reward(c) \in Int /\ 2 * fills[c].weight \in Int /\ jump_loss(c) \in Int
  BY MarketInputs DEF reward
<1> DEFINE Gain(s) == s.pnl - Held(c).pnl
<1>2. \A rate : LET s == Surgical(c, rate, lambda_star)
                  IN  Gain(s) = s.avoided - s.forgone /\ s.pnl >= Held(c).pnl
  BY <1>1 DEF Surgical, Held, should_exit
<1>3. LET s == Blanket(c, lambda_star) IN Gain(s) = s.avoided - s.forgone
  BY <1>1 DEF Blanket, Held
<1>4. LET s == Held(c) IN Gain(s) = s.avoided - s.forgone
  BY <1>1 DEF Held
<1>5. QED
  BY <1>2, <1>3, <1>4 DEF Accounted, Dominates, _replay_market, Arms, Jumpers

\* Both add up.
LEMMA SumsAccounted ==
  ASSUME NEW x \in [Arms -> Totals], NEW y \in [Arms -> Totals],
         Accounted(x), Dominates(x), Accounted(y), Dominates(y)
  PROVE  LET z == [a \in Arms |-> Sum2(x[a], y[a])] IN Accounted(z) /\ Dominates(z)
<1> DEFINE z == [a \in Arms |-> Sum2(x[a], y[a])]
<1>1. "diffusion_only" \in Arms /\ Jumpers \subseteq Arms
  BY DEF Arms
<1>2. \A a \in Arms : /\ z[a].pnl = x[a].pnl + y[a].pnl
                      /\ z[a].avoided = x[a].avoided + y[a].avoided
                      /\ z[a].forgone = x[a].forgone + y[a].forgone
  BY DEF Sum2
<1>3. \A a \in Arms : /\ x[a].pnl \in Int /\ x[a].avoided \in Int /\ x[a].forgone \in Int
                      /\ y[a].pnl \in Int /\ y[a].avoided \in Int /\ y[a].forgone \in Int
  BY DEF Totals
<1> HIDE DEF z
<1> DEFINE d == "diffusion_only"
<1>4. Accounted(z)
  <2> SUFFICES ASSUME NEW a \in Arms
               PROVE  z[a].pnl - z[d].pnl = z[a].avoided - z[a].forgone
    BY DEF Accounted
  <2>1. x[a].pnl - x[d].pnl = x[a].avoided - x[a].forgone
    BY DEF Accounted
  <2>2. y[a].pnl - y[d].pnl = y[a].avoided - y[a].forgone
    BY DEF Accounted
  <2>3. QED
    BY <1>1, <1>2, <1>3, <2>1, <2>2
<1>5. Dominates(z)
  BY <1>1, <1>2, <1>3 DEF Dominates
<1>6. QED
  BY <1>4, <1>5 DEF z

Inv == TypeInv /\ NetOfForgone /\ SurgicalNeverWorse

LEMMA InitInv == ReplayInit => Inv
<1> SUFFICES ASSUME ReplayInit PROVE Inv
  OBVIOUS
<1>1. "diffusion_only" \in Arms /\ Jumpers \subseteq Arms
  BY DEF Arms
<1>2. Accounted(acc) /\ Dominates(acc)
  BY <1>1 DEF ReplayInit, Accounted, Dominates, Nothing
<1>3. QED
  BY <1>2, InitTyped DEF ReplayInit, Inv, NetOfForgone, SurgicalNeverWorse

LEMMA StepInv == Inv /\ [ReplayNext]_replayVars => Inv'
<1> SUFFICES ASSUME Inv, [ReplayNext]_replayVars PROVE Inv'
  OBVIOUS
<1>0. TypeInv /\ TypeInv'
  BY StepTyped DEF Inv
<1>1. ASSUME NEW c \in Cids, Replay(c) PROVE Inv'
  <2>1. Grid[ls] \in Int
    BY <1>0, <1>1, GridTyped DEF Replay
  <2> DEFINE m == _replay_market(c, Grid[ls])
  <2>2. m \in [Arms -> Totals] /\ Accounted(m) /\ Dominates(m)
    BY <1>0, <2>1, MarketTyped, MarketAccounted
  <2>3. acc' = [a \in Arms |-> Sum2(acc[a], m[a])] /\ results' = results
    BY <1>1 DEF Replay
  <2> HIDE DEF m
  <2>4. Accounted(acc') /\ Dominates(acc')
    BY <1>0, <2>2, <2>3, SumsAccounted DEF Inv, NetOfForgone, SurgicalNeverWorse, TypeInv, TotalsOK
  <2>5. QED
    BY <1>0, <2>3, <2>4 DEF Inv, NetOfForgone, SurgicalNeverWorse
<1>2. CASE NextLambda
  <2>1. results' = Append(results, acc) /\ acc' = [a \in Arms |-> Nothing]
    BY <1>2 DEF NextLambda
  <2>2. "diffusion_only" \in Arms /\ Jumpers \subseteq Arms
    BY DEF Arms
  <2>3. Accounted(acc') /\ Dominates(acc')
    BY <2>1, <2>2 DEF Accounted, Dominates, Nothing
  <2>4. \A i \in DOMAIN results' : results'[i] = acc \/ (i \in DOMAIN results /\ results'[i] = results[i])
    BY <1>0, <2>1 DEF TypeInv, TotalsOK
  <2>5. QED
    BY <1>0, <2>3, <2>4 DEF Inv, NetOfForgone, SurgicalNeverWorse, Accounted, Dominates
<1>3. CASE UNCHANGED replayVars
  BY <1>0, <1>3 DEF replayVars, Inv, NetOfForgone, SurgicalNeverWorse
<1>4. QED
  BY <1>1, <1>2, <1>3 DEF ReplayNext

\* The accounting of run_replay: for every label source, market, rate and grid, each arm's
\* pnl differs from the diffusion arm's by what it avoided less what it forwent.
THEOREM AblationNet == ReplaySpec => []NetOfForgone
<1>1. Inv => NetOfForgone
  BY DEF Inv
<1>2. QED
  BY InitInv, StepInv, <1>1, PTL DEF ReplaySpec

\* For every input the reward-aware exit of run_replay is never behind holding through.
THEOREM AblationDominates == ReplaySpec => []SurgicalNeverWorse
<1>1. Inv => SurgicalNeverWorse
  BY DEF Inv
<1>2. QED
  BY InitInv, StepInv, <1>1, PTL DEF ReplaySpec
-----------------------------------------------------------------------------
(* The portfolio's curve, whatever the arms do on their markets: the last   *)
(* mark of a day is the equity at the last event of that day, because the   *)
(* days of a tape never go back, and the final mark is the market's pnl.    *)

\* A market's tape: its events in order of days.
IsTape(tp) ==
  /\ \E S : tp \in Seq(S)
  /\ \A k \in 1..Len(tp) : tp[k].day \in 1..MaxDay
  /\ \A j, k \in 1..Len(tp) : j <= k => tp[j].day <= tp[k].day

\* The marks of an arm are its equities at the last event of each day of the tape.
MarksOf(a, de, tp) ==
  /\ DOMAIN de = {tp[k].day : k \in 1..Len(tp)}
  /\ \A k \in 1..Len(tp) :
       (\A j \in 1..Len(tp) : j > k => tp[j].day # tp[k].day) => de[tp[k].day] = tp[k].worth[a]

MarketSimulated(s) ==
  /\ IsTape(s.tape) /\ Len(s.tape) > 0
  /\ \A a \in SimArms : MarksOf(a, s.day_equity[a], s.tape) /\ s.pnl[a] = s.tape[Len(s.tape)].worth[a]

\* The current market's tape and marks, the equity it stands at, and the markets done.
CurveInv ==
  /\ IsTape(tape) /\ sim_day \in Nat
  /\ \A k \in 1..Len(tape) : tape[k].day <= sim_day
  /\ \A a \in SimArms : MarksOf(a, marked[a], tape)
  /\ \A a \in SimArms : tape # <<>> => tape[Len(tape)].worth[a] = Equity(sim[a], mid)
  /\ (\E S : sims \in Seq(S)) /\ \A i \in 1..Len(sims) : MarketSimulated(sims[i])

\* Before the first event there is no tape and no mark.
LEMMA CurveInit == SimInit => CurveInv
<1> SUFFICES ASSUME SimInit PROVE CurveInv
  OBVIOUS
<1>1. tape = <<>> /\ sims = <<>> /\ sim_day = 1 /\ \A a \in SimArms : marked[a] = <<>>
  BY DEF SimInit
<1>2. (\E S : tape \in Seq(S)) /\ (\E S : sims \in Seq(S))
  <2>1. tape \in Seq({}) /\ sims \in Seq({})
    BY <1>1
  <2>2. QED
    BY <2>1
<1>3. Len(tape) = 0 /\ Len(sims) = 0 /\ 1..0 = {}
  BY <1>1
<1>4. \A a \in SimArms : MarksOf(a, marked[a], tape)
  <2>1. DOMAIN <<>> = {}
    OBVIOUS
  <2>2. QED
    BY <1>1, <1>3, <2>1 DEF MarksOf
<1>5. QED
  BY <1>1, <1>2, <1>3, <1>4 DEF CurveInv, IsTape

\* An event overwrites the mark of its day, which is the last day so far.
LEMMA EventKeeps ==
  ASSUME CurveInv, NEW px, NEW sz, NEW m, NEW half, NEW d \in 1..MaxDay, NEW c, Event(px, sz, m, half, d, c)
  PROVE  CurveInv'
<1> DEFINE e == [day |-> d, worth |-> [a \in SimArms |-> Equity(sim'[a], m)]]
           n == Len(tape)
<1>1. /\ d >= sim_day /\ sim_day' = d /\ mid' = m /\ sims' = sims
      /\ marked' = [a \in SimArms |-> Put(marked[a], d, Equity(sim'[a], m))]
      /\ tape' = Append(tape, e)
  BY DEF Event
<1>2. PICK S : tape \in Seq(S)
  BY DEF CurveInv, IsTape
<1>3. n \in Nat /\ d \in Nat
  BY <1>2
<1> HIDE DEF e
<1>4. /\ tape' \in Seq(S \cup {e}) /\ Len(tape') = n + 1 /\ tape'[n + 1] = e
      /\ \A k \in 1..n : tape'[k] = tape[k]
  BY <1>1, <1>2, <1>3
<1>5. e.day = d /\ \A a \in SimArms : e.worth[a] = Equity(sim'[a], m)
  BY DEF e
<1> HIDE DEF n
<1>6. \A k \in 1..(n + 1) : k \in 1..n \/ k = n + 1
  BY <1>3
<1>7. \A k \in 1..n : tape[k].day \in 1..MaxDay /\ tape[k].day <= sim_day
  BY DEF n, CurveInv, IsTape
<1>8. \A k \in 1..(n + 1) : tape'[k].day \in 1..MaxDay /\ tape'[k].day <= d
  BY <1>1, <1>3, <1>4, <1>5, <1>6, <1>7 DEF CurveInv
<1>9. IsTape(tape')
  <2>1. ASSUME NEW j \in 1..(n + 1), NEW k \in 1..(n + 1), j <= k PROVE tape'[j].day <= tape'[k].day
    <3>1. CASE k = n + 1
      BY <1>4, <1>5, <1>8, <3>1
    <3>2. CASE k \in 1..n
      <4>1. j \in 1..n
        BY <1>3, <2>1, <3>2
      <4>2. tape[j].day <= tape[k].day
        BY <2>1, <3>2, <4>1 DEF n, CurveInv, IsTape
      <4>3. QED
        BY <1>4, <3>2, <4>1, <4>2
    <3>3. QED
      BY <1>6, <3>1, <3>2
  <2>2. QED
    BY <1>4, <1>8, <2>1 DEF IsTape
<1>10. ASSUME NEW a \in SimArms PROVE MarksOf(a, marked'[a], tape')
  <2> DEFINE de == marked[a]
             new == marked'[a]
  <2>1. new = Put(de, d, Equity(sim'[a], m))
    BY <1>1
  <2>2. /\ DOMAIN new = {d} \cup DOMAIN de
        /\ new[d] = Equity(sim'[a], m)
        /\ \A x \in DOMAIN de : x # d => new[x] = de[x]
    <3> HIDE DEF new, de
    <3>1. QED
      BY <2>1 DEF Put
  <2>3. MarksOf(a, de, tape)
    BY DEF CurveInv
  <2> HIDE DEF new, de
  <2>4. DOMAIN new = {tape'[k].day : k \in 1..(n + 1)}
    <3>1. DOMAIN de = {tape[k].day : k \in 1..n}
      BY <2>3 DEF MarksOf, n
    <3>2. \A k \in 1..n : k \in 1..(n + 1)
      BY <1>3
    <3>3. n + 1 \in 1..(n + 1)
      BY <1>3
    <3>4. ASSUME NEW x PROVE x \in DOMAIN new <=> \E k \in 1..(n + 1) : x = tape'[k].day
      BY <1>4, <1>5, <1>6, <2>2, <3>1, <3>2, <3>3
    <3>5. QED
      BY <3>4
  <2>5. ASSUME NEW k \in 1..(n + 1), \A j \in 1..(n + 1) : j > k => tape'[j].day # tape'[k].day
        PROVE  new[tape'[k].day] = tape'[k].worth[a]
    <3>1. CASE k = n + 1
      BY <1>4, <1>5, <2>2, <3>1
    <3>2. CASE k \in 1..n
      <4>1. n + 1 \in 1..(n + 1) /\ n + 1 > k
        BY <1>3, <3>2
      <4>2. tape[k].day # d
        BY <1>4, <1>5, <2>5, <3>2, <4>1
      <4>3. \A j \in 1..n : j \in 1..(n + 1) /\ tape'[j] = tape[j]
        BY <1>3, <1>4
      <4>4. \A j \in 1..n : j > k => tape[j].day # tape[k].day
        BY <2>5, <3>2, <4>3
      <4>5. de[tape[k].day] = tape[k].worth[a] /\ tape[k].day \in DOMAIN de
        BY <2>3, <3>2, <4>4 DEF MarksOf, n
      <4>6. QED
        BY <1>4, <2>2, <3>2, <4>2, <4>5
    <3>3. QED
      BY <1>6, <3>1, <3>2
  <2>6. QED
    BY <1>4, <2>4, <2>5 DEF MarksOf, new
<1>11. \A a \in SimArms : tape'[Len(tape')].worth[a] = Equity(sim'[a], mid')
  BY <1>1, <1>4, <1>5
<1>12. \A k \in 1..Len(tape') : tape'[k].day <= sim_day'
  BY <1>1, <1>4, <1>8
<1>13. (\E T : sims' \in Seq(T)) /\ \A i \in 1..Len(sims') : MarketSimulated(sims'[i])
  BY <1>1 DEF CurveInv
<1>14. sim_day' \in Nat
  BY <1>1, <1>3
<1>15. QED
  BY <1>9, <1>10, <1>11, <1>12, <1>13, <1>14 DEF CurveInv, Equity

\* A market that is done takes its tape, its marks and its last equity along.
LEMMA MarketDoneKeeps ==
  ASSUME CurveInv, MarketDone
  PROVE  CurveInv'
<1> DEFINE s == [day_equity |-> marked, tape |-> tape, pnl |-> [a \in SimArms |-> Equity(sim[a], mid)]]
           n == Len(sims)
<1>1. /\ tape # <<>> /\ sims' = Append(sims, s) /\ sim_day' = 1 /\ tape' = <<>>
      /\ \A a \in SimArms : marked'[a] = <<>>
  BY DEF MarketDone, NewMarket
<1>2. MarketSimulated(s)
  <2>1. s.tape = tape /\ s.day_equity = marked /\ s.pnl = [a \in SimArms |-> Equity(sim[a], mid)]
    OBVIOUS
  <2>2. Len(tape) > 0
    BY <1>1 DEF CurveInv, IsTape
  <2> HIDE DEF s
  <2>3. QED
    BY <1>1, <2>1, <2>2 DEF CurveInv, MarketSimulated
<1>3. PICK S : sims \in Seq(S)
  BY DEF CurveInv
<1> HIDE DEF s
<1>4. n \in Nat
  BY <1>3
<1>5. sims' \in Seq(S \cup {s}) /\ Len(sims') = n + 1 /\ sims'[n + 1] = s /\ \A i \in 1..n : sims'[i] = sims[i]
  BY <1>1, <1>3, <1>4
<1>6. \A i \in 1..(n + 1) : i \in 1..n \/ i = n + 1
  BY <1>4
<1>7. \A i \in 1..n : MarketSimulated(sims[i])
  BY DEF CurveInv
<1>8. \A i \in 1..Len(sims') : MarketSimulated(sims'[i])
  <2> HIDE DEF n
  <2>1. QED
    BY <1>2, <1>5, <1>6, <1>7
<1>9. tape' \in Seq({}) /\ Len(tape') = 0 /\ 1..0 = {} /\ DOMAIN <<>> = {}
  BY <1>1
<1>10. IsTape(tape') /\ \A k \in 1..Len(tape') : tape'[k].day <= sim_day'
  BY <1>9 DEF IsTape
<1>11. \A a \in SimArms : MarksOf(a, marked'[a], tape')
  BY <1>1, <1>9 DEF MarksOf
<1>12. \A a \in SimArms : tape' # <<>> => tape'[Len(tape')].worth[a] = Equity(sim'[a], mid')
  BY <1>1
<1>13. (\E T : sims' \in Seq(T)) /\ sim_day' \in Nat
  BY <1>1, <1>5
<1>14. QED
  BY <1>8, <1>10, <1>11, <1>12, <1>13 DEF CurveInv, Equity

\* Every step of the replay keeps the invariant.
LEMMA CurveNext == CurveInv /\ [SimNext]_simVars => CurveInv'
<1>1. ASSUME CurveInv, UNCHANGED simVars PROVE CurveInv'
  BY <1>1 DEF CurveInv, simVars, Equity, IsTape, MarksOf, MarketSimulated
<1>2. ASSUME CurveInv, SimNext PROVE CurveInv'
  <2>1. CASE MarketDone
    BY <1>2, <2>1, MarketDoneKeeps
  <2>2. CASE \E px \in 1..(P - 1), sz \in PrintSizes, half \in 0..1, d \in 1..MaxDay, c \in {BaseCap, BaseCap \div 2} :
               \E m \in Smoothed(px) : Event(px, sz, m, half, d, c)
    BY <1>2, <2>2, EventKeeps
  <2>3. QED
    BY <1>2, <2>1, <2>2 DEF SimNext
<1>3. QED
  BY <1>1, <1>2

\* An arm's equity at the last event of a tape until a day.
Latest(a, tp, d) ==
  LET past == {k \in DOMAIN tp : tp[k].day <= d}
  IN  IF past = {} THEN 0 ELSE tp[Max(past)].worth[a]

\* What a market is carried at on a day is its equity at the last event until then.
LEMMA CarriedIsWorth ==
  ASSUME NEW tp, IsTape(tp), Len(tp) > 0, NEW a, NEW de, MarksOf(a, de, tp), NEW d \in Nat
  PROVE  Carried(de, tp[Len(tp)].worth[a], d) = Latest(a, tp, d)
<1> DEFINE n == Len(tp)
           past == {k \in DOMAIN tp : tp[k].day <= d}
           until == {e \in DOMAIN de : e <= d}
<1>0. Latest(a, tp, d) = IF past = {} THEN 0 ELSE tp[Max(past)].worth[a]
  BY DEF Latest
<1>1. n \in Nat /\ n \in 1..n /\ DOMAIN tp = 1..n
  BY DEF IsTape
<1>2. \A k \in 1..n : tp[k].day \in 1..MaxDay
  BY DEF IsTape
<1>3. \A j, k \in 1..n : j <= k => tp[j].day <= tp[k].day
  BY DEF IsTape
<1>4. DOMAIN de = {tp[k].day : k \in 1..n}
  BY DEF MarksOf
<1>5. \A k \in 1..n : (\A j \in 1..n : j > k => tp[j].day # tp[k].day) => de[tp[k].day] = tp[k].worth[a]
  BY DEF MarksOf
<1>6. MaxDay \in Nat
  BY SimAssumption DEF SimAssumption
<1> HIDE DEF n
<1>7. CASE \A e \in DOMAIN de : d < e
  <2>1. past = {}
    <3>1. \A k \in 1..n : tp[k].day \in Nat /\ d < tp[k].day
      BY <1>2, <1>4, <1>6, <1>7
    <3>2. \A k \in DOMAIN tp : ~(tp[k].day <= d)
      BY <1>1, <3>1
    <3>3. QED
      BY <3>2
  <2>2. Carried(de, tp[n].worth[a], d) = 0
    BY <1>7 DEF Carried
  <2>3. QED
    BY <1>0, <2>1, <2>2 DEF n
<1>8. CASE ~(\A e \in DOMAIN de : d < e)
  <2>1. past # {}
    BY <1>1, <1>2, <1>4, <1>8
  <2>2. past \in SUBSET Nat /\ \A k \in past : k <= n
    BY <1>1
  <2>3. Max(past) \in past /\ \A k \in past : k <= Max(past)
    <3> HIDE DEF past
    <3>1. QED
      BY <1>1, <2>1, <2>2, GreatestNatural
  <2> DEFINE K == Max(past)
  <2>4. K \in 1..n /\ tp[K].day <= d /\ \A j \in 1..n : j > K => tp[j].day > d
    <3>1. \A j \in 1..n : j > K => j \notin past
      <4>1. K \in Nat /\ \A k \in past : k <= K
        BY <2>2, <2>3
      <4> HIDE DEF K, past
      <4>2. QED
        BY <1>1, <4>1
    <3>2. \A j \in 1..n : j \notin past => tp[j].day > d
      BY <1>1, <1>2
    <3>3. K \in 1..n /\ tp[K].day <= d
      BY <1>1, <2>3
    <3>4. QED
      BY <3>1, <3>2, <3>3
  <2> HIDE DEF K, past
  <2>5. de[tp[K].day] = tp[K].worth[a]
    <3>1. \A j \in 1..n : j > K => tp[j].day # tp[K].day
      BY <1>2, <2>4
    <3>2. QED
      BY <1>5, <2>4, <3>1
  <2>6. CASE \A e \in DOMAIN de : d >= e
    <3>1. ~(n > K)
      <4>1. tp[n].day \in DOMAIN de
        BY <1>1, <1>4
      <4>2. QED
        BY <1>1, <1>2, <2>4, <2>6, <4>1
    <3>2. K = n
      BY <1>1, <2>4, <3>1
    <3>3. Carried(de, tp[n].worth[a], d) = tp[n].worth[a]
      BY <1>8, <2>6 DEF Carried
    <3>4. QED
      BY <1>0, <2>1, <3>2, <3>3 DEF n, K, past
  <2>7. CASE ~(\A e \in DOMAIN de : d >= e)
    <3>1. tp[K].day \in until /\ \A e \in until : e <= tp[K].day
      <4>1. tp[K].day \in until
        BY <1>4, <2>4
      <4>2. ASSUME NEW j \in 1..n, tp[j].day <= d PROVE tp[j].day <= tp[K].day
        <5>1. j <= K
          BY <1>1, <1>2, <2>4, <4>2
        <5>2. QED
          BY <1>3, <2>4, <5>1
      <4>3. QED
        BY <1>4, <4>1, <4>2
    <3>2. until \in SUBSET Nat /\ \A e \in until : e <= MaxDay
      BY <1>2, <1>4, <1>6
    <3>3. Max(until) \in until /\ \A e \in until : e <= Max(until)
      <4> HIDE DEF until
      <4>1. QED
        BY <1>6, <3>1, <3>2, GreatestNatural
    <3>4. Max(until) = tp[K].day
      <4> HIDE DEF until
      <4>1. \A x, y \in Nat : x <= y /\ y <= x => x = y
        OBVIOUS
      <4>2. QED
        BY <3>1, <3>2, <3>3, <4>1
    <3>5. Carried(de, tp[n].worth[a], d) = de[Max(until)]
      BY <1>8, <2>7 DEF Carried
    <3>6. QED
      BY <1>0, <2>1, <2>5, <3>4, <3>5 DEF n, K, past
  <2>8. QED
    BY <2>6, <2>7
<1>9. QED
  BY <1>7, <1>8

\* Carried market by market, the curve of an arm is the sum of the equities.
LEMMA CurveHolds == CurveInv => CurveIsWorth
<1> SUFFICES ASSUME CurveInv, NEW a \in CurveArms
             PROVE  LET curve == portfolio_daily(a)
                    IN  /\ \A d \in DOMAIN curve : curve[d] = SumFunction([i \in Markets(a) |-> Worth(i, As(a), d)])
                        /\ DOMAIN curve # {} =>
                             curve[Max(DOMAIN curve)] = SumFunction([i \in Markets(a) |-> sims[i].pnl[As(a)]])
  BY DEF CurveIsWorth
<1> DEFINE b == As(a)
           M == Markets(a)
           days == AllDays(a)
           curve == portfolio_daily(a)
<1>1. b \in SimArms
  BY DEF As, CurveArms, SimArms
<1>2. \A i \in M : MarketSimulated(sims[i])
  BY DEF CurveInv, Markets
<1>3. ASSUME NEW i \in M
      PROVE  /\ IsTape(sims[i].tape) /\ Len(sims[i].tape) > 0
             /\ MarksOf(b, sims[i].day_equity[b], sims[i].tape)
             /\ sims[i].pnl[b] = sims[i].tape[Len(sims[i].tape)].worth[b]
  <2> HIDE DEF b, M
  <2>1. QED
    BY <1>1, <1>2, <1>3 DEF MarketSimulated
<1>4. days = UNION {DOMAIN sims[i].day_equity[b] : i \in M}
  BY DEF AllDays
<1>5. curve = [d \in days |-> SumFunction([i \in M |-> Carried(sims[i].day_equity[b], sims[i].pnl[b], d)])]
  BY DEF portfolio_daily
<1> HIDE DEF b, M, days, curve
<1>6. ASSUME NEW i \in M
      PROVE  /\ DOMAIN sims[i].day_equity[b] \subseteq 1..MaxDay
             /\ DOMAIN sims[i].day_equity[b] # {}
  <2> DEFINE tp == sims[i].tape
  <2>1. IsTape(tp) /\ Len(tp) > 0 /\ DOMAIN sims[i].day_equity[b] = {tp[k].day : k \in 1..Len(tp)}
    BY <1>3, <1>6 DEF MarksOf
  <2> HIDE DEF tp
  <2>2. Len(tp) \in Nat /\ 1 \in 1..Len(tp) /\ \A k \in 1..Len(tp) : tp[k].day \in 1..MaxDay
    BY <2>1 DEF IsTape
  <2>3. QED
    BY <2>1, <2>2
<1>7. days \subseteq 1..MaxDay /\ \A i \in M : DOMAIN sims[i].day_equity[b] \subseteq days
  BY <1>4, <1>6
<1>8. MaxDay \in Nat
  BY SimAssumption DEF SimAssumption
<1>9. ASSUME NEW d \in days
      PROVE  curve[d] = SumFunction([i \in M |-> Worth(i, b, d)])
  <2>1. d \in Nat
    BY <1>7, <1>8
  <2>2. ASSUME NEW i \in M
        PROVE  Carried(sims[i].day_equity[b], sims[i].pnl[b], d) = Worth(i, b, d)
    <3> DEFINE tp == sims[i].tape
               de == sims[i].day_equity[b]
    <3>1. IsTape(tp) /\ Len(tp) > 0 /\ MarksOf(b, de, tp) /\ sims[i].pnl[b] = tp[Len(tp)].worth[b]
      BY <1>3, <2>2
    <3>2. Worth(i, b, d) = Latest(b, tp, d)
      BY DEF Worth, Latest
    <3>3. Carried(de, tp[Len(tp)].worth[b], d) = Latest(b, tp, d)
      <4> HIDE DEF tp, de
      <4>1. QED
        BY <2>1, <3>1, CarriedIsWorth
    <3>4. QED
      BY <3>1, <3>2, <3>3
  <2>3. [i \in M |-> Carried(sims[i].day_equity[b], sims[i].pnl[b], d)] = [i \in M |-> Worth(i, b, d)]
    BY <2>2
  <2>4. QED
    BY <1>5, <2>3
<1>10. ASSUME days # {}
       PROVE  curve[Max(days)] = SumFunction([i \in M |-> sims[i].pnl[b]])
  <2> DEFINE last == Max(days)
  <2>1. last \in days /\ \A e \in days : e <= last
    <3>1. days \in SUBSET Nat /\ \A e \in days : e <= MaxDay
      BY <1>7, <1>8
    <3>2. QED
      BY <1>8, <1>10, <3>1, GreatestNatural
  <2> HIDE DEF last
  <2>2. ASSUME NEW i \in M
        PROVE  Carried(sims[i].day_equity[b], sims[i].pnl[b], last) = sims[i].pnl[b]
    <3> DEFINE E == DOMAIN sims[i].day_equity[b]
    <3>1. E # {} /\ \A e \in E : e \in Nat /\ last \in Nat /\ e <= last
      <4>1. E # {} /\ E \subseteq days
        BY <1>6, <1>7, <2>2
      <4>2. last \in Nat /\ \A e \in days : e \in Nat
        <5>1. \A e \in 1..MaxDay : e \in Nat
          BY <1>8
        <5>2. QED
          BY <1>7, <2>1, <5>1
      <4> HIDE DEF E
      <4>3. QED
        BY <2>1, <4>1, <4>2
    <3> HIDE DEF E
    <3>2. ~(\A e \in E : last < e) /\ \A e \in E : last >= e
      BY <3>1
    <3>3. QED
      BY <3>2 DEF Carried, E
  <2>3. [i \in M |-> Carried(sims[i].day_equity[b], sims[i].pnl[b], last)] = [i \in M |-> sims[i].pnl[b]]
    BY <2>2
  <2>4. QED
    BY <1>5, <2>1, <2>3 DEF last
<1>11. DOMAIN curve = days
  BY <1>5
<1>12. QED
  BY <1>9, <1>10, <1>11 DEF b, M, curve

\* The daily curve that run_full reports is, on each of its days, what the portfolio was worth,
\* and ends at the sum of the pnls, for every tape, quote, exit rate and number of markets.
THEOREM CurveAlwaysWorth == SimSpec => []CurveIsWorth
  BY CurveInit, CurveNext, CurveHolds, PTL DEF SimSpec
-----------------------------------------------------------------------------
(* The session log.                                                        *)
\* What a file says, and what a process holds.
Stages == {"down", "idle", "loop", "fills", "market", "flag", "flagged", "quote", "quoted"}
AtMarket == {"fills", "market", "flag", "flagged", "quote", "quoted"}

Sessions ==
  [type : {"session_end"}, per_market : [FleetCids -> Int], n_disputes_witnessed : Nat]
LogFiles ==
  [exists : BOOLEAN, fill : [FleetCids -> Nat], exit : SUBSET FleetCids, quote : SUBSET FleetCids,
   tick : [FleetCids -> Int], dispute_flagged : Nat, ends : Seq(Sessions)]

MemoryOK ==
  /\ utc_day \in LogDays /\ out \in 0..utc_day /\ keeper_at \in Stages /\ started \in BOOLEAN
  /\ traded \in SUBSET FleetCids /\ n_disputes \in Nat /\ turn \in Nat
  /\ keeper_at \in AtMarket => turn \in DOMAIN Fleet
  /\ mined \in [FleetCids -> Nat] /\ logged \in Nat /\ unlogged \in BOOLEAN

\* A market with a mark other than 0 has a fill in the same file, or it would be in neither arm.
DiskOK ==
  /\ files \in [LogDays -> LogFiles] /\ torn \in SUBSET LogDays
  /\ \A d \in LogDays : files[d].exists => d <= utc_day
  /\ \A d \in torn : files[d].exists
  /\ \A d \in LogDays, c \in FleetCids : files[d].tick[c] # 0 => c \in Named(files[d])

\* A process that has written owns the newest file, which is whole, and what it holds is in it.
Owned ==
  keeper_at # "down" =>
    /\ keeper_at # "idle" => out # NoFile
    /\ started => out # NoFile
    /\ out = NoFile => traded = {} /\ n_disputes = 0
    /\ out # NoFile =>
         /\ out \notin torn /\ files[out].exists
         /\ \A d \in LogDays : files[d].exists => d <= out
         /\ \A c \in traded : files[out].fill[c] > 0
         /\ n_disputes <= files[out].dispute_flagged

FillsIn == SumFunction([d \in LogDays |-> SumFunction(files[d].fill)])
DisputesIn == SumFunction([d \in LogDays |-> files[d].dispute_flagged])
Pending == IF keeper_at = "flagged" THEN 1 ELSE 0

Counted ==
  /\ logged = FillsIn
  /\ DisputesIn + Pending <= SumFunction(mined)
  /\ ~unlogged => DisputesIn + Pending = SumFunction(mined)

SessionInv == MemoryOK /\ DiskOK /\ Owned /\ Counted

\* There is a day, and not infinitely many.
LEMMA LogDaysFinite == IsFiniteSet(LogDays) /\ LogDays \subseteq Nat /\ MaxDays \in Nat /\ 1 \in LogDays
<1>1. MaxDays \in Nat \ {0}
  BY SessionAssumption DEF SessionAssumption
<1>2. IsFiniteSet(1..MaxDays)
  BY <1>1, FS_Interval
<1>3. QED
  BY <1>1, <1>2 DEF LogDays

\* A fleet is a finite list.
LEMMA FleetFinite == IsFiniteSet(FleetCids) /\ \A i \in DOMAIN Fleet : Fleet[i] \in FleetCids
<1>1. Fleet \in Seq(STRING) /\ DOMAIN Fleet = 1..Len(Fleet) /\ Len(Fleet) \in Nat
  BY SessionAssumption DEF SessionAssumption
<1>2. IsFiniteSet(1..Len(Fleet))
  BY <1>1, FS_Interval
<1>3. FleetCids = {Fleet[i] : i \in 1..Len(Fleet)}
  BY <1>1 DEF FleetCids, Range
<1>4. Fleet \in Surjection(1..Len(Fleet), FleetCids)
  BY <1>1, <1>3 DEF Surjection
<1>5. QED
  BY <1>1, <1>2, <1>3, <1>4, FS_Surjection

\* What a file says of the sums, whatever it holds.
LEMMA FileSums ==
  ASSUME NEW f \in LogFiles
  PROVE  SumFunction(f.fill) \in Nat
<1>1. f.fill \in [FleetCids -> Nat]
  BY DEF LogFiles
<1>2. DOMAIN f.fill = FleetCids /\ \A c \in FleetCids : f.fill[c] \in Nat
  BY <1>1
<1>3. QED
  BY <1>2, FleetFinite, SumNat DEF SumFunction

-----------------------------------------------------------------------------
(* What a record adds to a file.                                           *)
\* All that the sums, the marks and the arms are taken from is the same, or more.
Keeps(f, g) ==
  /\ g \in LogFiles /\ g.exists
  /\ g.fill = f.fill /\ g.tick = f.tick /\ g.dispute_flagged = f.dispute_flagged
  /\ f.exit \subseteq g.exit /\ f.quote \subseteq g.quote


\* The type of what a file says.
LEMMA FileFields ==
  ASSUME NEW f \in LogFiles
  PROVE  /\ f.fill \in [FleetCids -> Nat] /\ f.tick \in [FleetCids -> Int] /\ f.dispute_flagged \in Nat
         /\ f.exit \in SUBSET FleetCids /\ f.quote \in SUBSET FleetCids /\ f.ends \in Seq(Sessions)
  BY DEF LogFiles

\* A record that is no fill, no mark and no dispute.
LEMMA QuietKeeps ==
  ASSUME NEW f \in LogFiles, NEW rec,
         \/ rec = [type |-> "session_start"]
         \/ rec = [type |-> "degraded"]
         \/ \E c \in FleetCids : rec = OfMarket("exit", c) \/ rec = OfMarket("quote", c)
         \/ rec \in Sessions
  PROVE  Keeps(f, Appended(f, rec))
<1> DEFINE g == Appended(f, rec)
<1>1. CASE rec = [type |-> "session_start"] \/ rec = [type |-> "degraded"]
  <2>1. rec.type \notin {"fill", "exit", "quote", "tick", "dispute_flagged", "session_end"}
    BY <1>1
  <2>2. QED
    BY <2>1, FileFields DEF LogFiles, Keeps, Appended
<1>2. ASSUME NEW c \in FleetCids, rec = OfMarket("exit", c) PROVE Keeps(f, g)
  <2>1. rec.type = "exit" /\ rec.cid = c
    BY <1>2 DEF OfMarket
  <2>2. QED
    BY <2>1, FileFields DEF LogFiles, Keeps, Appended
<1>3. ASSUME NEW c \in FleetCids, rec = OfMarket("quote", c) PROVE Keeps(f, g)
  <2>1. rec.type = "quote" /\ rec.cid = c
    BY <1>3 DEF OfMarket
  <2>2. QED
    BY <2>1, FileFields DEF LogFiles, Keeps, Appended
<1>4. CASE rec \in Sessions
  <2>1. rec.type = "session_end" /\ <<rec>> \in Seq(Sessions)
    BY <1>4 DEF Sessions
  <2>2. QED
    BY <2>1, FileFields DEF LogFiles, Keeps, Appended
<1>5. QED
  BY <1>1, <1>2, <1>3, <1>4

\* A fill record adds one to its market.
LEMMA FillAdds ==
  ASSUME NEW f \in LogFiles, NEW c \in FleetCids
  PROVE  LET g == Appended(f, OfMarket("fill", c))
         IN  /\ g \in LogFiles /\ g.exists /\ g.fill = [f.fill EXCEPT ![c] = @ + 1]
             /\ g.tick = f.tick /\ g.dispute_flagged = f.dispute_flagged
             /\ f.exit \subseteq g.exit /\ f.quote \subseteq g.quote
<1> DEFINE rec == OfMarket("fill", c)
<1>1. rec.type = "fill" /\ rec.cid = c
  BY DEF OfMarket
<1>2. [f.fill EXCEPT ![c] = @ + 1] \in [FleetCids -> Nat]
  BY FileFields
<1> HIDE DEF rec
<1>3. /\ Appended(f, rec) \in LogFiles
      /\ Appended(f, rec).fill = [f.fill EXCEPT ![c] = @ + 1]
  BY <1>1, <1>2, FileFields DEF LogFiles, Appended
<1>4. QED
  BY <1>1, <1>3, FileFields DEF Appended, rec

\* A tick record replaces its market's mark.
LEMMA TickMarks ==
  ASSUME NEW f \in LogFiles, NEW c \in FleetCids, NEW e \in Int
  PROVE  LET g == Appended(f, [type |-> "tick", cid |-> c, equity |-> e])
         IN  /\ g \in LogFiles /\ g.exists /\ g.tick = [f.tick EXCEPT ![c] = e]
             /\ g.fill = f.fill /\ g.dispute_flagged = f.dispute_flagged
             /\ f.exit \subseteq g.exit /\ f.quote \subseteq g.quote
<1> DEFINE rec == [type |-> "tick", cid |-> c, equity |-> e]
<1>1. rec.type = "tick" /\ rec.cid = c /\ rec.equity = e
  OBVIOUS
<1>2. [f.tick EXCEPT ![c] = e] \in [FleetCids -> Int]
  BY FileFields
<1> HIDE DEF rec
<1>3. /\ Appended(f, rec) \in LogFiles
      /\ Appended(f, rec).tick = [f.tick EXCEPT ![c] = e]
  BY <1>1, <1>2, FileFields DEF LogFiles, Appended
<1>4. QED
  BY <1>1, <1>3, FileFields DEF Appended, rec

\* A dispute_flagged record is counted.
LEMMA FlagCounts ==
  ASSUME NEW f \in LogFiles, NEW c \in FleetCids
  PROVE  LET g == Appended(f, OfMarket("dispute_flagged", c))
         IN  /\ g \in LogFiles /\ g.exists /\ g.dispute_flagged = f.dispute_flagged + 1
             /\ g.fill = f.fill /\ g.tick = f.tick
             /\ f.exit \subseteq g.exit /\ f.quote \subseteq g.quote
<1> DEFINE rec == OfMarket("dispute_flagged", c)
<1>1. rec.type = "dispute_flagged"
  BY DEF OfMarket
<1> HIDE DEF rec
<1>2. Appended(f, rec) \in LogFiles
  BY <1>1, FileFields DEF LogFiles, Appended
<1>3. QED
  BY <1>1, <1>2, FileFields DEF Appended, rec

-----------------------------------------------------------------------------
(* What a record does to the sums and to the invariant.                    *)
\* What is read from all days, and that no day has more disputes than all.
LEMMA SumsOfFiles ==
  ASSUME DiskOK
  PROVE  FillsIn \in Nat /\ DisputesIn \in Nat /\ \A d \in LogDays : files[d].dispute_flagged <= DisputesIn
<1> DEFINE v == [d \in LogDays |-> SumFunction(files[d].fill)]
           w == [d \in LogDays |-> files[d].dispute_flagged]
<1>1. \A d \in LogDays : files[d] \in LogFiles
  BY DEF DiskOK
<1>2. \A d \in LogDays : v[d] \in Nat /\ w[d] \in Nat /\ w[d] = files[d].dispute_flagged
  BY <1>1, FileSums, FileFields
<1>3. DOMAIN v = LogDays /\ DOMAIN w = LogDays
  OBVIOUS
<1>4. FillsIn = SumFunctionOnSet(v, LogDays) /\ DisputesIn = SumFunctionOnSet(w, LogDays)
  BY <1>3 DEF FillsIn, DisputesIn, SumFunction
<1> HIDE DEF v, w
<1>5. SumFunctionOnSet(v, LogDays) \in Nat /\ SumFunctionOnSet(w, LogDays) \in Nat
  BY <1>2, LogDaysFinite, SumNat
<1>6. \A d \in LogDays : w[d] <= SumFunctionOnSet(w, LogDays)
  BY <1>2, LogDaysFinite, SumAtLeast
<1>7. QED
  BY <1>2, <1>4, <1>5, <1>6

\* Writing to one day changes the sums by what it changes of that day.
LEMMA SumsWritten ==
  ASSUME DiskOK, NEW d \in LogDays, NEW g \in LogFiles, files' = [files EXCEPT ![d] = g]
  PROVE  /\ FillsIn' = FillsIn - SumFunction(files[d].fill) + SumFunction(g.fill)
         /\ DisputesIn' = DisputesIn - files[d].dispute_flagged + g.dispute_flagged
<1> DEFINE v == [e \in LogDays |-> SumFunction(files[e].fill)]
           w == [e \in LogDays |-> files[e].dispute_flagged]
<1>1. \A e \in LogDays : files[e] \in LogFiles /\ files'[e] = IF e = d THEN g ELSE files[e]
  BY DEF DiskOK
<1>2. v \in [LogDays -> Int] /\ w \in [LogDays -> Int]
  <2>1. \A e \in LogDays : SumFunction(files[e].fill) \in Int /\ files[e].dispute_flagged \in Int
    BY <1>1, FileSums, FileFields
  <2>2. QED
    BY <2>1
<1> DEFINE a == SumFunction(g.fill)
           b == g.dispute_flagged
           v1 == [e \in LogDays |-> SumFunction(files'[e].fill)]
           w1 == [e \in LogDays |-> files'[e].dispute_flagged]
<1>3. a \in Int /\ b \in Int
  BY FileSums, FileFields
<1>4. v1 = [v EXCEPT ![d] = a] /\ w1 = [w EXCEPT ![d] = b]
  <2>1. \A e \in LogDays : v1[e] = (IF e = d THEN a ELSE v[e]) /\ w1[e] = (IF e = d THEN b ELSE w[e])
    BY <1>1
  <2>2. v1 = [e \in LogDays |-> v1[e]] /\ w1 = [e \in LogDays |-> w1[e]]
    OBVIOUS
  <2>3. v = [e \in LogDays |-> v[e]] /\ w = [e \in LogDays |-> w[e]]
    OBVIOUS
  <2> HIDE DEF v1, w1, v, w, a, b
  <2>4. QED
    BY <2>1, <2>2, <2>3
<1>5. v[d] = SumFunction(files[d].fill) /\ w[d] = files[d].dispute_flagged
  OBVIOUS
<1>6. FillsIn = SumFunction(v) /\ DisputesIn = SumFunction(w)
  BY DEF FillsIn, DisputesIn
<1>7. FillsIn' = SumFunction(v1) /\ DisputesIn' = SumFunction(w1)
  BY DEF FillsIn, DisputesIn
<1> HIDE DEF v, w, v1, w1, a, b
<1>8. SumFunction([v EXCEPT ![d] = a]) = SumFunction(v) - v[d] + a
  BY <1>2, <1>3, LogDaysFinite, SumExcept
<1>9. SumFunction([w EXCEPT ![d] = b]) = SumFunction(w) - w[d] + b
  BY <1>2, <1>3, LogDaysFinite, SumExcept
<1>10. QED
  BY <1>4, <1>5, <1>6, <1>7, <1>8, <1>9 DEF a, b

\* The flagDisputes that were mined, and one more.
LEMMA MinedSum ==
  ASSUME MemoryOK
  PROVE  /\ SumFunction(mined) \in Nat
         /\ \A c \in FleetCids : SumFunction([mined EXCEPT ![c] = @ + 1]) = SumFunction(mined) + 1
<1>1. mined \in [FleetCids -> Nat] /\ DOMAIN mined = FleetCids
  BY DEF MemoryOK
<1>2. \A c \in FleetCids : mined[c] \in Nat
  BY <1>1
<1>3. SumFunctionOnSet(mined, FleetCids) \in Nat
  BY <1>2, FleetFinite, SumNat
<1>4. SumFunction(mined) \in Nat
  BY <1>1, <1>3 DEF SumFunction
<1>5. ASSUME NEW c \in FleetCids
      PROVE  SumFunction([mined EXCEPT ![c] = @ + 1]) = SumFunction(mined) + 1
  <2> DEFINE n == mined[c] + 1
  <2>1. mined \in [FleetCids -> Int] /\ n \in Int /\ mined[c] \in Int
    BY <1>1, <1>2
  <2>2. [mined EXCEPT ![c] = @ + 1] = [mined EXCEPT ![c] = n]
    OBVIOUS
  <2>3. n = mined[c] + 1
    OBVIOUS
  <2> HIDE DEF n
  <2>4. SumFunction([mined EXCEPT ![c] = n]) = SumFunction(mined) - mined[c] + n
    BY <2>1, FleetFinite, SumExcept
  <2>5. QED
    BY <1>4, <2>1, <2>2, <2>3, <2>4
<1>6. QED
  BY <1>4, <1>5

\* The file a record goes to, and what becomes of it: a torn file takes the first line of
\* a process with its last one, and every later line is read.
LEMMA LogWrites ==
  ASSUME MemoryOK, DiskOK, Owned, keeper_at # "down", NEW rec, Log(rec)
  PROVE  /\ out' \in LogDays /\ out' = (IF out = NoFile THEN utc_day ELSE out)
         /\ torn' = torn \ {out'}
         /\ \E g : /\ files' = [files EXCEPT ![out'] = g]
                   /\ \/ g = Appended(files[out'], rec)
                      \/ out = NoFile /\ g = files[out'] /\ g.exists
<1>1. out' = IF out = NoFile THEN utc_day ELSE out
  BY DEF Log
<1>2. out' \in LogDays
  BY <1>1, LogDaysFinite DEF MemoryOK, LogDays, NoFile
<1>3. torn' = torn \ {out'}
  BY DEF Log
<1>4. CASE out' \in torn
  <2>1. files' = files /\ out = NoFile /\ files[out'].exists
    BY <1>1, <1>4 DEF Log, Owned, DiskOK
  <2>2. [files EXCEPT ![out'] = files[out']] = files
    BY DEF DiskOK
  <2>3. QED
    BY <1>1, <1>2, <1>3, <2>1, <2>2
<1>5. CASE out' \notin torn
  BY <1>1, <1>2, <1>3, <1>5 DEF Log
<1>6. QED
  BY <1>4, <1>5

\* A line written keeps the disk and the ownership of the file, if the marks and the memory stay in it.
LEMMA Written ==
  ASSUME MemoryOK, DiskOK, Owned, keeper_at # "down", keeper_at' # "down", utc_day' = utc_day,
         NEW d \in LogDays, d = out', d = (IF out = NoFile THEN utc_day ELSE out), torn' = torn \ {d},
         NEW g \in LogFiles, files' = [files EXCEPT ![d] = g], g.exists,
         \A c \in FleetCids : g.tick[c] # 0 => c \in Named(g),
         \A c \in traded' : g.fill[c] > 0,
         n_disputes' <= g.dispute_flagged
  PROVE  DiskOK' /\ Owned'
<1>1. \A e \in LogDays : files'[e] = IF e = d THEN g ELSE files[e]
  BY DEF DiskOK
<1>2. files' \in [LogDays -> LogFiles] /\ torn' \in SUBSET LogDays
  BY DEF DiskOK
<1>3. d <= utc_day /\ d # NoFile
  BY LogDaysFinite DEF MemoryOK, LogDays, NoFile
<1>4. \A e \in LogDays : files[e].exists => e <= d
  BY DEF DiskOK, Owned
<1>5. DiskOK'
  <2>1. \A e \in LogDays : files'[e].exists => e <= utc_day'
    BY <1>1, <1>3 DEF DiskOK
  <2>2. \A e \in torn' : files'[e].exists
    BY <1>1 DEF DiskOK
  <2>3. \A e \in LogDays, c \in FleetCids : files'[e].tick[c] # 0 => c \in Named(files'[e])
    BY <1>1 DEF DiskOK
  <2>4. QED
    BY <1>2, <2>1, <2>2, <2>3 DEF DiskOK, Named
<1>6. Owned'
  <2>1. files'[d] = g /\ d \notin torn'
    BY <1>1
  <2>2. \A e \in LogDays : files'[e].exists => e <= d
    BY <1>1, <1>4, LogDaysFinite
  <2>3. QED
    BY <1>3, <2>1, <2>2 DEF Owned, NoFile
<1>7. QED
  BY <1>5, <1>6

\* A market named stays named.
LEMMA NamedGrows ==
  ASSUME NEW f \in LogFiles, NEW g \in LogFiles, f.exit \subseteq g.exit, f.quote \subseteq g.quote,
         \A c \in FleetCids : f.fill[c] <= g.fill[c],
         NEW c \in FleetCids, c \in Named(f)
  PROVE  c \in Named(g)
<1>1. f.fill[c] \in Nat /\ g.fill[c] \in Nat
  BY FileFields
<1>2. QED
  BY <1>1 DEF Named

\* Of a record that is no fill, no mark and no dispute.
LEMMA QuietStep ==
  ASSUME SessionInv, keeper_at \notin {"down", "flagged"}, keeper_at' \notin {"down", "flagged"},
         NEW rec, Log(rec),
         \/ rec = [type |-> "session_start"]
         \/ rec = [type |-> "degraded"]
         \/ \E c \in FleetCids : rec = OfMarket("exit", c) \/ rec = OfMarket("quote", c)
         \/ rec \in Sessions,
         UNCHANGED <<utc_day, traded, n_disputes, mined, logged, unlogged>>
  PROVE  DiskOK' /\ Owned' /\ Counted'
<1> DEFINE d == out'
<1>0. MemoryOK /\ DiskOK /\ Owned /\ Counted
  BY DEF SessionInv
<1>1. /\ d \in LogDays /\ d = (IF out = NoFile THEN utc_day ELSE out) /\ torn' = torn \ {d}
  BY <1>0, LogWrites
<1>2. PICK g : /\ files' = [files EXCEPT ![d] = g]
               /\ g = Appended(files[d], rec) \/ (out = NoFile /\ g = files[d] /\ g.exists)
  BY <1>0, LogWrites
<1> DEFINE f == files[d]
<1>3. f \in LogFiles /\ \A c \in FleetCids : f.tick[c] # 0 => c \in Named(f)
  BY <1>0, <1>1 DEF DiskOK
<1>4. Keeps(f, g)
  <2>1. CASE g = Appended(f, rec)
    <3> HIDE DEF f, d
    <3>1. QED
      BY <1>3, <2>1, QuietKeeps
  <2>2. CASE g = f /\ g.exists
    BY <1>3, <2>2 DEF Keeps
  <2>3. QED
    BY <1>2, <2>1, <2>2
<1>5. /\ \A c \in traded' : g.fill[c] > 0
      /\ n_disputes' <= g.dispute_flagged
  <2>1. g.fill = f.fill /\ g.dispute_flagged = f.dispute_flagged
    BY <1>4 DEF Keeps
  <2>2. CASE out = NoFile
    <3>1. traded' = {} /\ n_disputes' = 0 /\ f.dispute_flagged \in Nat
      BY <1>0, <1>3, <2>2, FileFields DEF Owned
    <3>2. QED
      BY <2>1, <3>1
  <2>3. CASE out # NoFile
    BY <1>0, <1>1, <2>1, <2>3 DEF Owned
  <2>4. QED
    BY <2>2, <2>3
<1>6. \A c \in FleetCids : g.tick[c] # 0 => c \in Named(g)
  BY <1>3, <1>4, FileFields DEF Keeps, Named
<1>7. DiskOK' /\ Owned'
  <2> HIDE DEF f
  <2>1. g \in LogFiles /\ g.exists
    BY <1>4 DEF Keeps
  <2>2. QED
    BY <1>0, <1>1, <1>2, <1>5, <1>6, <2>1, Written
<1>8. Counted'
  <2>1. g \in LogFiles /\ g.fill = f.fill /\ g.dispute_flagged = f.dispute_flagged
    BY <1>4 DEF Keeps
  <2>2. /\ FillsIn' = FillsIn - SumFunction(f.fill) + SumFunction(g.fill)
        /\ DisputesIn' = DisputesIn - f.dispute_flagged + g.dispute_flagged
    BY <1>0, <1>1, <1>2, <2>1, SumsWritten
  <2>3. SumFunction(f.fill) \in Nat /\ f.dispute_flagged \in Nat /\ FillsIn \in Nat /\ DisputesIn \in Nat
    BY <1>0, <1>3, FileSums, FileFields, SumsOfFiles
  <2>4. FillsIn' = FillsIn /\ DisputesIn' = DisputesIn
    BY <2>1, <2>2, <2>3
  <2>5. Pending' = Pending
    BY DEF Pending
  <2>6. QED
    BY <1>0, <2>4, <2>5 DEF Counted
<1>9. QED
  BY <1>7, <1>8

\* run_loop's fill: the record and the count of fills go together.
LEMMA FilledKeeps ==
  ASSUME SessionInv, NEW c \in FleetCids, Filled(c)
  PROVE  SessionInv'
<1> DEFINE d == out'
           f == files[d]
           g == Appended(f, OfMarket("fill", c))
<1>0. MemoryOK /\ DiskOK /\ Owned /\ Counted
  BY DEF SessionInv
<1>1. /\ keeper_at = "fills" /\ keeper_at' = "fills" /\ Log(OfMarket("fill", c))
      /\ traded' = traded \cup {c} /\ logged' = logged + 1
      /\ UNCHANGED <<utc_day, started, n_disputes, turn, mined, unlogged>>
  BY DEF Filled
<1>2. out # NoFile
  BY <1>0, <1>1 DEF Owned
<1>3. /\ d \in LogDays /\ d = (IF out = NoFile THEN utc_day ELSE out) /\ torn' = torn \ {d}
      /\ files' = [files EXCEPT ![d] = g]
  BY <1>0, <1>1, <1>2, LogWrites
<1>4. f \in LogFiles /\ \A x \in FleetCids : f.tick[x] # 0 => x \in Named(f)
  BY <1>0, <1>3 DEF DiskOK
<1>5. /\ g \in LogFiles /\ g.exists /\ g.fill = [f.fill EXCEPT ![c] = @ + 1]
      /\ g.tick = f.tick /\ g.dispute_flagged = f.dispute_flagged
      /\ f.exit \subseteq g.exit /\ f.quote \subseteq g.quote
  <2> HIDE DEF f
  <2>1. QED
    BY <1>4, FillAdds
<1>6. \A x \in traded : f.fill[x] > 0
  BY <1>0, <1>1, <1>2, <1>3 DEF Owned
<1>7. n_disputes <= f.dispute_flagged
  BY <1>0, <1>1, <1>2, <1>3 DEF Owned
<1> HIDE DEF g, f, d
<1>8. f.fill \in [FleetCids -> Nat] /\ g.fill \in [FleetCids -> Nat]
  BY <1>4, <1>5, FileFields
<1>9. g.fill[c] = f.fill[c] + 1 /\ \A x \in FleetCids : f.fill[x] \in Nat /\ f.fill[x] <= g.fill[x]
  BY <1>5, <1>8
<1>10. \A x \in FleetCids : g.tick[x] # 0 => x \in Named(g)
  BY <1>4, <1>5, <1>9, NamedGrows
<1>11. \A x \in traded' : g.fill[x] > 0
  <2>1. \A x \in traded : x \in FleetCids
    BY <1>0 DEF MemoryOK
  <2>2. g.fill[c] > 0
    BY <1>9
  <2>3. ASSUME NEW x \in traded PROVE g.fill[x] > 0
    <3>1. f.fill[x] > 0 /\ f.fill[x] <= g.fill[x] /\ f.fill[x] \in Nat /\ g.fill[x] \in Nat
      BY <1>6, <1>8, <1>9, <2>1
    <3>2. QED
      BY <3>1
  <2>4. QED
    BY <1>1, <2>2, <2>3
<1>12. DiskOK' /\ Owned'
  <2>1. n_disputes' <= g.dispute_flagged
    BY <1>1, <1>5, <1>7
  <2>2. files' = [files EXCEPT ![d] = g] /\ d = out'
    BY <1>3 DEF d
  <2>3. QED
    BY <1>0, <1>1, <1>3, <1>5, <1>10, <1>11, <2>1, <2>2, Written
<1>13. Counted'
  <2>1. /\ FillsIn' = FillsIn - SumFunction(f.fill) + SumFunction(g.fill)
        /\ DisputesIn' = DisputesIn - f.dispute_flagged + g.dispute_flagged
    BY <1>0, <1>3, <1>5, SumsWritten DEF f
  <2>2. /\ SumFunction(f.fill) \in Nat /\ f.dispute_flagged \in Nat /\ FillsIn \in Nat /\ DisputesIn \in Nat
    BY <1>0, <1>4, FileSums, FileFields, SumsOfFiles
  <2>3. SumFunction(g.fill) = SumFunction(f.fill) + 1
    <3> DEFINE n == f.fill[c] + 1
    <3>1. f.fill \in [FleetCids -> Int] /\ n \in Int /\ g.fill = [f.fill EXCEPT ![c] = n]
      BY <1>5, <1>8
    <3>2. n = f.fill[c] + 1 /\ f.fill[c] \in Int
      BY <1>8
    <3> HIDE DEF n
    <3>3. SumFunction([f.fill EXCEPT ![c] = n]) = SumFunction(f.fill) - f.fill[c] + n
      BY <3>1, FleetFinite, SumExcept
    <3>4. QED
      BY <2>2, <3>1, <3>2, <3>3
  <2>4. FillsIn' = FillsIn + 1 /\ DisputesIn' = DisputesIn
    BY <1>5, <2>1, <2>2, <2>3
  <2>5. Pending' = Pending
    BY <1>1 DEF Pending
  <2>6. QED
    BY <1>0, <1>1, <2>4, <2>5 DEF Counted
<1>14. MemoryOK'
  BY <1>0, <1>1, <1>3, LogDaysFinite DEF MemoryOK, d, LogDays
<1>15. QED
  BY <1>12, <1>13, <1>14 DEF SessionInv

\* The record of a dispute settles the one pending.
LEMMA FlagLoggedKeeps ==
  ASSUME SessionInv, FlagLogged
  PROVE  SessionInv'
<1> DEFINE c == Fleet[turn]
           d == out'
           f == files[d]
           g == Appended(f, OfMarket("dispute_flagged", c))
<1>0. MemoryOK /\ DiskOK /\ Owned /\ Counted
  BY DEF SessionInv
<1>1. /\ keeper_at = "flagged" /\ keeper_at' = "quote" /\ Log(OfMarket("dispute_flagged", c))
      /\ n_disputes' = n_disputes + 1
      /\ UNCHANGED <<utc_day, started, traded, turn, mined, logged, unlogged>>
  BY DEF FlagLogged
<1>2. c \in FleetCids /\ out # NoFile
  BY <1>0, <1>1, FleetFinite DEF MemoryOK, AtMarket, Owned
<1>3. /\ d \in LogDays /\ d = (IF out = NoFile THEN utc_day ELSE out) /\ torn' = torn \ {d}
      /\ files' = [files EXCEPT ![d] = g]
  BY <1>0, <1>1, <1>2, LogWrites
<1>4. f \in LogFiles /\ \A x \in FleetCids : f.tick[x] # 0 => x \in Named(f)
  BY <1>0, <1>3 DEF DiskOK
<1>5. /\ g \in LogFiles /\ g.exists /\ g.dispute_flagged = f.dispute_flagged + 1
      /\ g.fill = f.fill /\ g.tick = f.tick
      /\ f.exit \subseteq g.exit /\ f.quote \subseteq g.quote
  <2> HIDE DEF f, c
  <2>1. QED
    BY <1>2, <1>4, FlagCounts
<1>6. \A x \in traded : f.fill[x] > 0
  BY <1>0, <1>1, <1>2, <1>3 DEF Owned
<1>7. n_disputes <= f.dispute_flagged /\ n_disputes \in Nat
  BY <1>0, <1>1, <1>2, <1>3 DEF Owned, MemoryOK
<1> HIDE DEF g, f, d, c
<1>8. f.dispute_flagged \in Nat
  BY <1>4, FileFields
<1>9. \A x \in FleetCids : g.tick[x] # 0 => x \in Named(g)
  BY <1>4, <1>5 DEF Named
<1>10. DiskOK' /\ Owned'
  <2>1. n_disputes' <= g.dispute_flagged
    BY <1>1, <1>5, <1>7, <1>8
  <2>2. files' = [files EXCEPT ![d] = g] /\ d = out'
    BY <1>3 DEF d
  <2>3. \A x \in traded' : g.fill[x] > 0
    BY <1>1, <1>5, <1>6
  <2>4. QED
    BY <1>0, <1>1, <1>3, <1>5, <1>9, <2>1, <2>2, <2>3, Written
<1>11. Counted'
  <2>1. /\ FillsIn' = FillsIn - SumFunction(f.fill) + SumFunction(g.fill)
        /\ DisputesIn' = DisputesIn - f.dispute_flagged + g.dispute_flagged
    BY <1>0, <1>3, <1>5, SumsWritten DEF f
  <2>2. SumFunction(f.fill) \in Nat /\ FillsIn \in Nat /\ DisputesIn \in Nat
    BY <1>0, <1>4, FileSums, SumsOfFiles
  <2>3. FillsIn' = FillsIn /\ DisputesIn' = DisputesIn + 1
    BY <1>5, <1>8, <2>1, <2>2
  <2>4. Pending' = 0 /\ Pending = 1
    BY <1>1 DEF Pending
  <2>5. SumFunction(mined) \in Nat
    BY <1>0, MinedSum
  <2>6. logged' = FillsIn'
    BY <1>0, <1>1, <2>3 DEF Counted
  <2>7. DisputesIn' + Pending' = DisputesIn + Pending
    BY <2>2, <2>3, <2>4
  <2>8. QED
    BY <1>0, <1>1, <2>6, <2>7 DEF Counted
<1>12. MemoryOK'
  <2>1. out' \in 0..utc_day' /\ keeper_at' \in Stages
    BY <1>0, <1>1, <1>3, LogDaysFinite DEF MemoryOK, d, LogDays, Stages
  <2>2. n_disputes' \in Nat
    BY <1>1, <1>7
  <2>3. keeper_at' \in AtMarket => turn' \in DOMAIN Fleet
    BY <1>0, <1>1 DEF MemoryOK, AtMarket
  <2>4. QED
    BY <1>0, <1>1, <2>1, <2>2, <2>3 DEF MemoryOK
<1>13. QED
  BY <1>10, <1>11, <1>12 DEF SessionInv

\* The turn stays within the fleet.
LEMMA EndOfMarketTurn ==
  ASSUME MemoryOK, keeper_at \in AtMarket, EndOfMarket
  PROVE  keeper_at' \in {"loop", "market"} /\ turn' \in Nat /\ turn' \in DOMAIN Fleet
<1>1. DOMAIN Fleet = 1..Len(Fleet) /\ Len(Fleet) \in Nat
  BY SessionAssumption DEF SessionAssumption
<1>2. turn \in 1..Len(Fleet)
  BY <1>1 DEF MemoryOK
<1>3. CASE turn = Len(Fleet)
  BY <1>1, <1>2, <1>3 DEF EndOfMarket
<1>4. CASE turn # Len(Fleet)
  <2>1. keeper_at' = "market" /\ turn' = turn + 1
    BY <1>4 DEF EndOfMarket
  <2>2. \A n \in Nat : \A t \in 1..n : t # n => t + 1 \in 1..n
    OBVIOUS
  <2>3. turn + 1 \in 1..Len(Fleet)
    BY <1>1, <1>2, <1>4, <2>2
  <2>4. turn + 1 \in Nat
    BY <1>1, <2>3
  <2>5. QED
    BY <1>1, <2>1, <2>3, <2>4
<1>5. QED
  BY <1>3, <1>4

\* A mark other than 0 is of a market with a fill in this file.
LEMMA TickedKeeps ==
  ASSUME SessionInv, Ticked
  PROVE  SessionInv'
<1> DEFINE c == Fleet[turn]
           d == out'
           f == files[d]
<1>0. MemoryOK /\ DiskOK /\ Owned /\ Counted
  BY DEF SessionInv
<1>1. /\ keeper_at \in {"market", "quote", "quoted"} /\ EndOfMarket
      /\ UNCHANGED <<utc_day, started, traded, n_disputes, mined, logged, unlogged>>
  BY DEF Ticked
<1>2. PICK e \in Marks(c) : Log([type |-> "tick", cid |-> c, equity |-> e])
  BY DEF Ticked
<1> DEFINE g == Appended(f, [type |-> "tick", cid |-> c, equity |-> e])
<1>3. c \in FleetCids /\ out # NoFile
  BY <1>0, <1>1, FleetFinite DEF MemoryOK, AtMarket, Owned
<1>4. /\ d \in LogDays /\ d = (IF out = NoFile THEN utc_day ELSE out) /\ torn' = torn \ {d}
      /\ files' = [files EXCEPT ![d] = g]
  BY <1>0, <1>1, <1>2, <1>3, LogWrites
<1>5. f \in LogFiles /\ \A x \in FleetCids : f.tick[x] # 0 => x \in Named(f)
  BY <1>0, <1>4 DEF DiskOK
<1>6. e \in Int /\ (e # 0 => c \in traded)
  BY SessionAssumption DEF SessionAssumption, Marks
<1>7. /\ g \in LogFiles /\ g.exists /\ g.tick = [f.tick EXCEPT ![c] = e]
      /\ g.fill = f.fill /\ g.dispute_flagged = f.dispute_flagged
      /\ f.exit \subseteq g.exit /\ f.quote \subseteq g.quote
  <2> HIDE DEF f, c
  <2>1. QED
    BY <1>3, <1>5, <1>6, TickMarks
<1>8. /\ \A x \in traded : f.fill[x] > 0
      /\ n_disputes <= f.dispute_flagged
  BY <1>0, <1>1, <1>3, <1>4 DEF Owned
<1> HIDE DEF g, f, d, c
<1>9. f.dispute_flagged \in Nat /\ f.tick \in [FleetCids -> Int]
  BY <1>5, FileFields
<1>10. ASSUME NEW x \in FleetCids, g.tick[x] # 0 PROVE x \in Named(g)
  <2>1. Named(f) \subseteq Named(g)
    BY <1>7 DEF Named
  <2>2. CASE x = c
    <3>1. c \in traded
      BY <1>6, <1>7, <1>9, <1>10, <2>2
    <3>2. f.fill[c] > 0
      BY <1>8, <3>1
    <3>3. QED
      BY <1>3, <2>1, <2>2, <3>2 DEF Named
  <2>3. CASE x # c
    BY <1>5, <1>7, <1>9, <1>10, <2>1, <2>3
  <2>4. QED
    BY <2>2, <2>3
<1>11. keeper_at' \in {"loop", "market"} /\ turn' \in Nat /\ turn' \in DOMAIN Fleet
  BY <1>0, <1>1, EndOfMarketTurn DEF AtMarket
<1>12. DiskOK' /\ Owned'
  <2>1. files' = [files EXCEPT ![d] = g] /\ d = out'
    BY <1>4 DEF d
  <2>2. (\A x \in traded' : g.fill[x] > 0) /\ n_disputes' <= g.dispute_flagged
    BY <1>1, <1>7, <1>8
  <2>3. keeper_at # "down" /\ keeper_at' # "down"
    BY <1>1, <1>11
  <2>4. QED
    BY <1>0, <1>1, <1>4, <1>7, <1>10, <2>1, <2>2, <2>3, Written
<1>13. Counted'
  <2>1. /\ FillsIn' = FillsIn - SumFunction(f.fill) + SumFunction(g.fill)
        /\ DisputesIn' = DisputesIn - f.dispute_flagged + g.dispute_flagged
    BY <1>0, <1>4, <1>7, SumsWritten DEF f
  <2>2. SumFunction(f.fill) \in Nat /\ FillsIn \in Nat /\ DisputesIn \in Nat
    BY <1>0, <1>5, FileSums, SumsOfFiles
  <2>3. FillsIn' = FillsIn /\ DisputesIn' = DisputesIn
    BY <1>7, <1>9, <2>1, <2>2
  <2>4. Pending' = Pending
    BY <1>1, <1>11 DEF Pending
  <2>5. QED
    BY <1>0, <1>1, <2>3, <2>4 DEF Counted
<1>14. MemoryOK'
  <2>1. out' \in 0..utc_day' /\ keeper_at' \in Stages
    BY <1>0, <1>1, <1>4, <1>11, LogDaysFinite DEF MemoryOK, d, LogDays, Stages
  <2>2. QED
    BY <1>0, <1>1, <1>11, <2>1 DEF MemoryOK
<1>15. QED
  BY <1>12, <1>13, <1>14 DEF SessionInv
-----------------------------------------------------------------------------
\* Steps that write nothing and leave the process running or idle.
LEMMA CalmStep ==
  ASSUME SessionInv, keeper_at # "down", keeper_at' # "down", keeper_at = "idle" /\ keeper_at' # "idle" => started',
         UNCHANGED <<utc_day, files, torn, out, traded, n_disputes>>, started' => started
  PROVE  DiskOK' /\ Owned' /\ FillsIn' = FillsIn /\ DisputesIn' = DisputesIn
<1>0. MemoryOK /\ DiskOK /\ Owned
  BY DEF SessionInv
<1>1. DiskOK'
  BY <1>0 DEF DiskOK, Named
<1>2. Owned'
  BY <1>0 DEF Owned
<1>3. QED
  BY <1>1, <1>2 DEF FillsIn, DisputesIn

\* The counts of a step that reads and writes no record.
LEMMA CountedCalm ==
  ASSUME Counted, FillsIn' = FillsIn, DisputesIn' = DisputesIn, UNCHANGED <<mined, logged>>,
         \/ Pending' = Pending /\ unlogged' = unlogged
         \/ Pending = 1 /\ Pending' = 0 /\ unlogged',
         DisputesIn \in Nat, SumFunction(mined) \in Nat
  PROVE  Counted'
<1>1. CASE Pending' = Pending /\ unlogged' = unlogged
  BY <1>1 DEF Counted
<1>2. CASE Pending = 1 /\ Pending' = 0 /\ unlogged'
  <2>1. DisputesIn + 0 <= SumFunction(mined)
    BY <1>2 DEF Counted
  <2>2. logged' = FillsIn'
    BY DEF Counted
  <2>3. DisputesIn' + Pending' <= SumFunction(mined')
    BY <1>2, <2>1
  <2>4. QED
    BY <1>2, <2>2, <2>3 DEF Counted
<1>3. QED
  BY <1>1, <1>2

\* No file, no process.
LEMMA SessionInvInit == LogInit => SessionInv
<1> SUFFICES ASSUME LogInit PROVE SessionInv
  OBVIOUS
<1> USE DEF LogInit
<1>1. /\ Empty \in LogFiles /\ ~Empty.exists /\ Empty.dispute_flagged = 0
      /\ \A c \in FleetCids : Empty.tick[c] = 0 /\ Empty.fill[c] = 0
  <2>1. <<>> \in Seq(Sessions)
    OBVIOUS
  <2>2. [c \in FleetCids |-> 0] \in [FleetCids -> Nat] /\ [c \in FleetCids |-> 0] \in [FleetCids -> Int]
    OBVIOUS
  <2>3. QED
    BY <2>1, <2>2 DEF Empty, LogFiles
<1>2. MemoryOK
  <2>1. utc_day \in LogDays /\ out \in 0..utc_day
    BY LogDaysFinite DEF NoFile
  <2>2. mined \in [FleetCids -> Nat]
    OBVIOUS
  <2>3. keeper_at \in Stages /\ keeper_at \notin AtMarket
    BY DEF Stages, AtMarket
  <2>4. QED
    BY <2>1, <2>2, <2>3 DEF MemoryOK
<1>3. DiskOK
  BY <1>1 DEF DiskOK
<1>4. Owned
  BY DEF Owned
<1>5. SumFunction(Empty.fill) = 0
  <2>1. DOMAIN Empty.fill = FleetCids
    BY DEF Empty
  <2>2. QED
    BY <1>1, <2>1, FleetFinite, SumZero DEF SumFunction
<1>6. FillsIn = 0 /\ DisputesIn = 0
  <2> DEFINE v == [d \in LogDays |-> SumFunction(files[d].fill)]
             w == [d \in LogDays |-> files[d].dispute_flagged]
  <2>1. \A d \in LogDays : v[d] = 0 /\ w[d] = 0
    BY <1>1, <1>5
  <2>2. DOMAIN v = LogDays /\ DOMAIN w = LogDays
    OBVIOUS
  <2>3. FillsIn = SumFunctionOnSet(v, LogDays) /\ DisputesIn = SumFunctionOnSet(w, LogDays)
    BY <2>2 DEF FillsIn, DisputesIn, SumFunction
  <2> HIDE DEF v, w
  <2>4. QED
    BY <2>1, <2>3, LogDaysFinite, SumZero
<1>7. SumFunction(mined) = 0
  <2>1. DOMAIN mined = FleetCids /\ \A c \in FleetCids : mined[c] = 0
    OBVIOUS
  <2>2. QED
    BY <2>1, FleetFinite, SumZero DEF SumFunction
<1>8. Counted
  BY <1>6, <1>7 DEF Counted, Pending
<1>9. QED
  BY <1>2, <1>3, <1>4, <1>8 DEF SessionInv

\* Days, restarts and crashes: a dispute mined and not yet logged is lost with the process.
LEMMA ProcessKeeps ==
  ASSUME SessionInv, DayTurns \/ Launch \/ Crash
  PROVE  SessionInv'
<1>0. MemoryOK /\ DiskOK /\ Owned /\ Counted
  BY DEF SessionInv
<1>1. DisputesIn \in Nat /\ SumFunction(mined) \in Nat
  BY <1>0, SumsOfFiles, MinedSum
<1>2. CASE DayTurns
  <2> USE <1>2 DEF DayTurns, memory
  <2>1. utc_day' \in LogDays /\ utc_day \in Nat
    BY <1>0, LogDaysFinite DEF MemoryOK, LogDays
  <2>2. MemoryOK'
    <3>1. out' \in 0..utc_day'
      BY <1>0, <2>1 DEF MemoryOK
    <3>2. QED
      BY <1>0, <2>1, <3>1 DEF MemoryOK
  <2>3. DiskOK'
    <3>1. \A d \in LogDays : files'[d].exists => d <= utc_day'
      BY <1>0, <2>1, LogDaysFinite DEF DiskOK
    <3>2. QED
      BY <1>0, <3>1 DEF DiskOK, Named
  <2>4. Owned'
    BY <1>0 DEF Owned
  <2>5. FillsIn' = FillsIn /\ DisputesIn' = DisputesIn /\ Pending' = Pending
    BY DEF FillsIn, DisputesIn, Pending
  <2>6. Counted'
    BY <1>0, <1>1, <2>5, CountedCalm
  <2>7. QED
    BY <2>2, <2>3, <2>4, <2>6 DEF SessionInv
<1>3. CASE Launch
  <2> USE <1>3 DEF Launch
  <2>1. MemoryOK'
    <3>1. utc_day \in Nat /\ \A n \in Nat : 0 \in 0..n
      BY <1>0, LogDaysFinite DEF MemoryOK
    <3>2. out' \in 0..utc_day'
      BY <3>1 DEF NoFile
    <3>3. keeper_at' \in Stages /\ keeper_at' \notin AtMarket
      BY DEF Stages, AtMarket
    <3>4. QED
      BY <1>0, <3>2, <3>3 DEF MemoryOK
  <2>2. DiskOK'
    BY <1>0 DEF DiskOK, Named
  <2>3. Owned'
    BY DEF Owned
  <2>4. FillsIn' = FillsIn /\ DisputesIn' = DisputesIn /\ Pending' = Pending
    BY DEF FillsIn, DisputesIn, Pending
  <2>5. Counted'
    BY <1>0, <1>1, <2>4, CountedCalm
  <2>6. QED
    BY <2>1, <2>2, <2>3, <2>5 DEF SessionInv
<1>4. CASE Crash
  <2> USE <1>4 DEF Crash, memory
  <2>1. MemoryOK'
    BY <1>0 DEF MemoryOK, Stages, AtMarket
  <2>2. torn' = torn \/ (out # NoFile /\ torn' = torn \cup {out})
    OBVIOUS
  <2>3. out # NoFile => out \in LogDays /\ files[out].exists
    BY <1>0, LogDaysFinite DEF MemoryOK, LogDays, NoFile, Owned
  <2>4. DiskOK'
    BY <1>0, <2>2, <2>3 DEF DiskOK, Named
  <2>5. Owned'
    BY DEF Owned
  <2>6. FillsIn' = FillsIn /\ DisputesIn' = DisputesIn
    BY DEF FillsIn, DisputesIn
  <2>7. \/ Pending' = Pending /\ unlogged' = unlogged
        \/ Pending = 1 /\ Pending' = 0 /\ unlogged'
    BY <1>0 DEF Pending, MemoryOK
  <2>8. Counted'
    BY <1>0, <1>1, <2>6, <2>7, CountedCalm
  <2>9. QED
    BY <2>1, <2>4, <2>5, <2>8 DEF SessionInv
<1>5. QED
  BY <1>2, <1>3, <1>4

\* The steps of a burst that write nothing.
LEMMA TickRunsKeep ==
  ASSUME SessionInv, TickBegins \/ BurstDies \/ FillsDone \/ EmptyBook \/ FlagRefused \/ TickRaised
  PROVE  SessionInv'
<1>0. MemoryOK /\ DiskOK /\ Owned /\ Counted
  BY DEF SessionInv
<1>1. DisputesIn \in Nat /\ SumFunction(mined) \in Nat
  BY <1>0, SumsOfFiles, MinedSum
<1>2. 1 \in DOMAIN Fleet
  BY SessionAssumption DEF SessionAssumption
<1>3. /\ UNCHANGED <<utc_day, files, torn, out, started, traded, n_disputes, mined, logged>>
      /\ keeper_at \notin {"down", "idle"} /\ keeper_at' \in Stages \ {"down", "flagged"}
  <2>1. CASE EmptyBook
    BY <1>0, <2>1, EndOfMarketTurn DEF EmptyBook, Stages, AtMarket, disk
  <2>2. CASE TickBegins \/ BurstDies \/ FillsDone \/ FlagRefused \/ TickRaised
    BY <2>2 DEF TickBegins, BurstDies, FillsDone, FlagRefused, TickRaised, Stages, disk, memory
  <2>3. QED
    BY <2>1, <2>2
<1>4. turn' \in Nat /\ (keeper_at' \in AtMarket => turn' \in DOMAIN Fleet)
  <2>1. CASE EmptyBook
    BY <1>0, <2>1, EndOfMarketTurn DEF EmptyBook, AtMarket
  <2>2. CASE TickBegins
    BY <1>2, <2>2 DEF TickBegins, AtMarket
  <2>3. CASE BurstDies \/ FlagRefused \/ TickRaised
    BY <1>0, <2>3 DEF BurstDies, FlagRefused, TickRaised, MemoryOK, AtMarket, memory
  <2>4. CASE FillsDone
    BY <1>0, <1>2, <2>4 DEF FillsDone, MemoryOK, AtMarket, memory
  <2>5. QED
    BY <2>1, <2>2, <2>3, <2>4
<1>5. unlogged' = (unlogged \/ keeper_at = "flagged")
  BY <1>0 DEF TickBegins, BurstDies, FillsDone, EmptyBook, FlagRefused, TickRaised, MemoryOK
<1>6. MemoryOK'
  BY <1>0, <1>3, <1>4, <1>5 DEF MemoryOK
<1>7. DiskOK' /\ Owned' /\ FillsIn' = FillsIn /\ DisputesIn' = DisputesIn
  BY <1>3, CalmStep
<1>8. \/ Pending' = Pending /\ unlogged' = unlogged
      \/ Pending = 1 /\ Pending' = 0 /\ unlogged'
  BY <1>0, <1>3, <1>5 DEF Pending, MemoryOK
<1>9. Counted'
  BY <1>0, <1>1, <1>3, <1>7, <1>8, CountedCalm
<1>10. QED
  BY <1>6, <1>7, <1>9 DEF SessionInv

\* A flagDispute is mined: its record is pending, or will never come.
LEMMA FlagMinedKeeps ==
  ASSUME SessionInv, NEW receipt \in BOOLEAN, FlagMined(receipt)
  PROVE  SessionInv'
<1> DEFINE c == Fleet[turn]
<1>0. MemoryOK /\ DiskOK /\ Owned /\ Counted
  BY DEF SessionInv
<1>1. /\ keeper_at = "flag" /\ keeper_at' = (IF receipt THEN "flagged" ELSE "quote")
      /\ mined' = [mined EXCEPT ![c] = @ + 1] /\ unlogged' = (unlogged \/ ~receipt)
      /\ UNCHANGED <<utc_day, files, torn, out, started, traded, n_disputes, turn, logged>>
  BY DEF FlagMined, memory
<1>2. c \in FleetCids
  BY <1>0, <1>1, FleetFinite DEF MemoryOK, AtMarket
<1> HIDE DEF c
<1>3. DiskOK' /\ Owned' /\ FillsIn' = FillsIn /\ DisputesIn' = DisputesIn
  BY <1>1, CalmStep
<1>4. /\ DisputesIn \in Nat /\ SumFunction(mined) \in Nat
      /\ SumFunction(mined') = SumFunction(mined) + 1
  BY <1>0, <1>1, <1>2, SumsOfFiles, MinedSum
<1>5. Pending = 0 /\ Pending' = (IF receipt THEN 1 ELSE 0)
  BY <1>1 DEF Pending
<1>6. Counted'
  <2>1. logged' = FillsIn'
    BY <1>0, <1>1, <1>3 DEF Counted
  <2>2. DisputesIn <= SumFunction(mined) /\ (~unlogged => DisputesIn = SumFunction(mined))
    BY <1>0, <1>4, <1>5 DEF Counted
  <2>3. DisputesIn' + Pending' <= SumFunction(mined')
    BY <1>3, <1>4, <1>5, <2>2
  <2>4. ~unlogged' => DisputesIn' + Pending' = SumFunction(mined')
    BY <1>1, <1>3, <1>4, <1>5, <2>2
  <2>5. QED
    BY <2>1, <2>3, <2>4 DEF Counted
<1>7. MemoryOK'
  <2>1. mined' \in [FleetCids -> Nat]
    BY <1>0, <1>1, <1>2 DEF MemoryOK
  <2>2. keeper_at' \in Stages /\ turn' \in DOMAIN Fleet
    BY <1>0, <1>1 DEF MemoryOK, Stages, AtMarket
  <2>3. QED
    BY <1>0, <1>1, <2>1, <2>2 DEF MemoryOK
<1>8. QED
  BY <1>3, <1>6, <1>7 DEF SessionInv

\* The steps that write a record of the quiet kinds.
LEMMA QuietKeep ==
  ASSUME SessionInv, Degraded \/ RunBegins \/ RunEnds \/ (\E p \in BOOLEAN : Exits(p)) \/ Quotes
  PROVE  SessionInv'
<1>0. MemoryOK /\ DiskOK /\ Owned /\ Counted
  BY DEF SessionInv
<1>1. /\ UNCHANGED <<utc_day, traded, n_disputes, turn, mined, logged, unlogged>>
      /\ keeper_at \in Stages \ {"down", "flagged"} /\ keeper_at' \in Stages \ {"down", "flagged"}
      /\ started' \in BOOLEAN
  BY <1>0 DEF Degraded, RunBegins, RunEnds, Exits, Quotes, Stages, MemoryOK
<1>2. keeper_at' \in AtMarket => turn' \in DOMAIN Fleet
  BY <1>0 DEF Degraded, RunBegins, RunEnds, Exits, Quotes, AtMarket, MemoryOK
<1>3. ASSUME NEW rec, Log(rec),
             \/ rec = [type |-> "session_start"]
             \/ rec = [type |-> "degraded"]
             \/ \E c \in FleetCids : rec = OfMarket("exit", c) \/ rec = OfMarket("quote", c)
             \/ rec \in Sessions
      PROVE  SessionInv'
  <2>1. DiskOK' /\ Owned' /\ Counted'
    BY <1>1, <1>3, QuietStep
  <2>2. out' \in LogDays /\ out' = (IF out = NoFile THEN utc_day ELSE out)
    BY <1>0, <1>1, <1>3, LogWrites
  <2>3. out' \in 0..utc_day'
    <3>1. utc_day \in Nat
      BY <1>0, LogDaysFinite DEF MemoryOK
    <3>2. QED
      BY <1>0, <1>1, <2>2, <3>1 DEF MemoryOK
  <2>4. MemoryOK'
    BY <1>0, <1>1, <1>2, <2>3 DEF MemoryOK
  <2>5. QED
    BY <2>1, <2>4 DEF SessionInv
<1>4. CASE Degraded
  BY <1>3, <1>4 DEF Degraded
<1>5. CASE RunBegins
  <2>1. CASE started
    <3>1. UNCHANGED <<out, files, torn, started>> /\ keeper_at = "idle" /\ keeper_at' = "loop"
      BY <1>5, <2>1 DEF RunBegins, disk
    <3>2. DiskOK' /\ Owned' /\ FillsIn' = FillsIn /\ DisputesIn' = DisputesIn
      BY <1>1, <2>1, <3>1, CalmStep
    <3>3. Pending' = Pending /\ DisputesIn \in Nat /\ SumFunction(mined) \in Nat
      BY <1>0, <3>1, SumsOfFiles, MinedSum DEF Pending
    <3>4. Counted'
      BY <1>0, <1>1, <3>2, <3>3, CountedCalm
    <3>5. MemoryOK'
      BY <1>0, <1>1, <1>2, <3>1 DEF MemoryOK
    <3>6. QED
      BY <3>2, <3>4, <3>5 DEF SessionInv
  <2>2. CASE ~started
    BY <1>3, <1>5, <2>2 DEF RunBegins
  <2>3. QED
    BY <2>1, <2>2
<1>6. CASE RunEnds
  <2>1. PICK mark \in [FleetCids -> Equities \cup {0}] :
          Log([type |-> "session_end", per_market |-> mark, n_disputes_witnessed |-> n_disputes])
    BY <1>6 DEF RunEnds
  <2>2. mark \in [FleetCids -> Int] /\ n_disputes \in Nat
    <3>1. \A x \in Equities \cup {0} : x \in Int
      BY SessionAssumption DEF SessionAssumption
    <3>2. \A c \in FleetCids : mark[c] \in Int
      BY <3>1
    <3>3. QED
      BY <1>0, <3>2 DEF MemoryOK
  <2>3. [type |-> "session_end", per_market |-> mark, n_disputes_witnessed |-> n_disputes] \in Sessions
    BY <2>2 DEF Sessions
  <2>4. QED
    BY <1>3, <2>1, <2>3
<1>7. CASE (\E p \in BOOLEAN : Exits(p)) \/ Quotes
  <2>1. Fleet[turn] \in FleetCids \/ keeper_at \notin AtMarket
    BY <1>0, FleetFinite DEF MemoryOK
  <2>2. Fleet[turn] \in FleetCids
    BY <1>7, <2>1 DEF Exits, Quotes, AtMarket
  <2>3. Log(OfMarket("exit", Fleet[turn])) \/ Log(OfMarket("quote", Fleet[turn]))
    BY <1>7 DEF Exits, Quotes
  <2>4. QED
    BY <1>3, <2>2, <2>3
<1>8. QED
  BY <1>4, <1>5, <1>6, <1>7

\* Every step of the log keeps the invariant.
LEMMA SessionInvNext == SessionInv /\ [LogNext]_logVars => SessionInv'
<1>1. ASSUME SessionInv, UNCHANGED logVars PROVE SessionInv'
  BY <1>1 DEF logVars, memory, SessionInv, MemoryOK, DiskOK, Owned, Counted, FillsIn, DisputesIn, Pending, Named
<1>2. ASSUME SessionInv, LogNext PROVE SessionInv'
  <2>1. CASE DayTurns \/ Launch \/ Crash
    BY <1>2, <2>1, ProcessKeeps
  <2>2. CASE TickBegins \/ BurstDies \/ FillsDone \/ EmptyBook \/ FlagRefused \/ TickRaised
    BY <1>2, <2>2, TickRunsKeep
  <2>3. CASE Degraded \/ RunBegins \/ RunEnds \/ (\E p \in BOOLEAN : Exits(p)) \/ Quotes
    BY <1>2, <2>3, QuietKeep
  <2>4. CASE \E c \in FleetCids : Filled(c)
    BY <1>2, <2>4, FilledKeeps
  <2>5. CASE \E r \in BOOLEAN : FlagMined(r)
    BY <1>2, <2>5, FlagMinedKeeps
  <2>6. CASE FlagLogged
    BY <1>2, <2>6, FlagLoggedKeeps
  <2>7. CASE Ticked
    BY <1>2, <2>7, TickedKeeps
  <2>8. QED
    BY <1>2, <2>1, <2>2, <2>3, <2>4, <2>5, <2>6, <2>7 DEF LogNext
<1>3. QED
  BY <1>1, <1>2
-----------------------------------------------------------------------------
(* The marks.                                                              *)
\* A file with no session_end was last marked by its ticks; the last session_end marked every
\* market, but for what a later burst marked.
Marked ==
  /\ marks \in [LogDays -> [FleetCids -> Int]]
  /\ \A d \in LogDays :
       /\ files[d].ends = <<>> => marks[d] = files[d].tick
       /\ files[d].ends # <<>> => files[d].ends[1].per_market = marks[d] \/ Unclosed(d)

\* The file of a process that writes.
LEMMA FileOpen ==
  ASSUME SessionInv, keeper_at # "down", NEW rec, Log(rec)
  PROVE  /\ out' \in LogDays /\ (out # NoFile => out' = out /\ out \notin torn)
         /\ files \in [LogDays -> LogFiles]
         /\ keeper_at # "idle" => out # NoFile
<1>1. MemoryOK /\ DiskOK /\ Owned
  BY DEF SessionInv
<1>2. out' \in LogDays /\ out' = (IF out = NoFile THEN utc_day ELSE out)
  BY <1>1, LogWrites
<1>3. QED
  BY <1>1, <1>2 DEF DiskOK, Owned

\* A record that marks nothing.
LEMMA MarkedQuiet ==
  ASSUME SessionInv, Marked, keeper_at # "down", NEW rec, Log(rec),
         rec.type \notin {"tick", "session_end"}, Bursting => Bursting', died' = died
  PROVE  Marked'
<1>1. /\ out' \in LogDays /\ (out # NoFile => out' = out) /\ files \in [LogDays -> LogFiles]
      /\ Bursting => out # NoFile
  BY FileOpen DEF Bursting
<1>2. marks' = marks
  BY DEF Log
<1>3. \A d \in LogDays : files'[d].ends = files[d].ends /\ files'[d].tick = files[d].tick
  <2>1. CASE out' \in torn
    BY <2>1 DEF Log
  <2>2. CASE out' \notin torn
    <3>1. files' = [files EXCEPT ![out'] = Appended(files[out'], rec)]
      BY <2>2 DEF Log
    <3>2. \A f \in LogFiles : Appended(f, rec).ends = f.ends /\ Appended(f, rec).tick = f.tick
      BY DEF Appended
    <3> HIDE DEF Appended
    <3>3. QED
      BY <1>1, <3>1, <3>2
  <2>3. QED
    BY <2>1, <2>2
<1>4. \A d \in LogDays : Unclosed(d) => d \in died' \/ (d = out' /\ Bursting')
  BY <1>1 DEF Unclosed
<1>5. QED
  BY <1>2, <1>3, <1>4 DEF Marked, Unclosed

\* A step that writes nothing.
LEMMA MarkedUnwritten ==
  ASSUME Marked, UNCHANGED <<files, marks>>,
         \A d \in LogDays : Unclosed(d) => d \in died' \/ (d = out' /\ Bursting')
  PROVE  Marked'
  BY DEF Marked, Unclosed

\* A market is marked by its tick, in the last file, within a burst.
LEMMA MarkedTick ==
  ASSUME SessionInv, Marked, Ticked
  PROVE  Marked'
<1>1. PICK e \in Marks(Fleet[turn]) : Log([type |-> "tick", cid |-> Fleet[turn], equity |-> e])
  BY DEF Ticked
<1> DEFINE rec == [type |-> "tick", cid |-> Fleet[turn], equity |-> e]
           c == Fleet[turn]
<1>2. rec.type = "tick" /\ rec.cid = c /\ rec.equity = e /\ Log(rec)
  BY <1>1
<1>3. keeper_at \in AtMarket /\ keeper_at' \notin {"down", "idle"} /\ died' = died
  BY DEF Ticked, AtMarket, EndOfMarket
<1>4. c \in FleetCids
  BY <1>3, FleetFinite DEF SessionInv, MemoryOK
<1>5. e \in Int
  BY SessionAssumption DEF SessionAssumption, Marks
<1> HIDE DEF rec, c
<1>6. out' = out /\ out \in LogDays /\ out \notin torn /\ files \in [LogDays -> LogFiles]
  BY <1>2, <1>3, FileOpen DEF AtMarket
<1>7. marks' = [marks EXCEPT ![out][c] = e] /\ files' = [files EXCEPT ![out] = Appended(files[out], rec)]
  BY <1>2, <1>6 DEF Log
<1>8. \A f \in LogFiles : Appended(f, rec).ends = f.ends /\ Appended(f, rec).tick = [f.tick EXCEPT ![c] = e]
  BY <1>2 DEF Appended
<1>9. \A d \in LogDays \ {out} : marks'[d] = marks[d] /\ files'[d] = files[d]
  BY <1>6, <1>7 DEF Marked
<1>10. marks'[out] = [marks[out] EXCEPT ![c] = e]
  BY <1>6, <1>7 DEF Marked
<1>11. files'[out].ends = files[out].ends /\ files'[out].tick = [files[out].tick EXCEPT ![c] = e]
  BY <1>6, <1>7, <1>8
<1>12. marks' \in [LogDays -> [FleetCids -> Int]]
  BY <1>4, <1>5, <1>6, <1>7 DEF Marked
<1>13. ASSUME NEW d \in LogDays
       PROVE  /\ files'[d].ends = <<>> => marks'[d] = files'[d].tick
              /\ files'[d].ends # <<>> => files'[d].ends[1].per_market = marks'[d] \/ Unclosed(d)'
  <2>1. CASE d = out
    BY <1>3, <1>6, <1>10, <1>11, <2>1 DEF Marked, Unclosed, Bursting
  <2>2. CASE d # out
    BY <1>3, <1>6, <1>9, <2>2 DEF Marked, Unclosed
  <2>3. QED
    BY <2>1, <2>2
<1>14. QED
  BY <1>12, <1>13 DEF Marked

\* A session_end marks every market, and closes the file.
LEMMA MarkedEnd ==
  ASSUME SessionInv, Marked, RunEnds
  PROVE  Marked'
<1>1. PICK mark \in [FleetCids -> Equities \cup {0}] :
        Log([type |-> "session_end", per_market |-> mark, n_disputes_witnessed |-> n_disputes])
  BY DEF RunEnds
<1> DEFINE rec == [type |-> "session_end", per_market |-> mark, n_disputes_witnessed |-> n_disputes]
<1>2. rec.type = "session_end" /\ rec.per_market = mark /\ Log(rec)
  BY <1>1
<1>3. keeper_at = "loop" /\ died' = died \ {out}
  BY DEF RunEnds
<1>4. mark \in [FleetCids -> Int]
  <2>1. \A x \in Equities \cup {0} : x \in Int
    BY SessionAssumption DEF SessionAssumption
  <2>2. \A c \in FleetCids : mark[c] \in Int
    BY <2>1
  <2>3. QED
    BY <2>2
<1> HIDE DEF rec
<1>5. out' = out /\ out \in LogDays /\ out \notin torn /\ files \in [LogDays -> LogFiles]
  BY <1>2, <1>3, FileOpen
<1>6. marks' = [marks EXCEPT ![out] = mark] /\ files' = [files EXCEPT ![out] = Appended(files[out], rec)]
  BY <1>2, <1>5 DEF Log
<1>7. Appended(files[out], rec).ends = <<rec>>
  BY <1>2 DEF Appended
<1>8. \A d \in LogDays \ {out} : marks'[d] = marks[d] /\ files'[d] = files[d]
  BY <1>5, <1>6 DEF Marked
<1>9. marks'[out] = mark /\ files'[out].ends = <<rec>>
  BY <1>5, <1>6, <1>7 DEF Marked
<1>10. marks' \in [LogDays -> [FleetCids -> Int]]
  BY <1>4, <1>5, <1>6 DEF Marked
<1>11. ASSUME NEW d \in LogDays
       PROVE  /\ files'[d].ends = <<>> => marks'[d] = files'[d].tick
              /\ files'[d].ends # <<>> => files'[d].ends[1].per_market = marks'[d] \/ Unclosed(d)'
  <2>1. CASE d = out
    <3>1. files'[d].ends = <<rec>> /\ <<rec>> # <<>> /\ <<rec>>[1] = rec
      BY <1>9, <2>1
    <3>2. files'[d].ends # <<>> /\ files'[d].ends[1] = rec
      BY <3>1, Zenon
    <3>3. marks'[d] = rec.per_market
      BY <1>2, <1>9, <2>1, Zenon
    <3>4. QED
      BY <3>2, <3>3, Zenon
  <2>2. CASE d # out
    BY <1>3, <1>5, <1>8, <2>2 DEF Marked, Unclosed
  <2>3. QED
    BY <2>1, <2>2
<1>12. QED
  BY <1>10, <1>11 DEF Marked

\* Every step keeps the marks: a burst that dies leaves its file unclosed.
LEMMA MarkedNext == SessionInv /\ Marked /\ [LogNext]_logVars => Marked'
<1> SUFFICES ASSUME SessionInv, Marked, [LogNext]_logVars PROVE Marked'
  OBVIOUS
<1>1. CASE UNCHANGED logVars
  BY <1>1, MarkedUnwritten DEF logVars, memory, Unclosed, Bursting
<1>2. CASE DayTurns \/ Launch \/ Crash
  BY <1>2, MarkedUnwritten DEF DayTurns, Launch, Crash, memory, Unclosed, Bursting
<1>3. CASE TickBegins \/ BurstDies \/ FillsDone \/ EmptyBook \/ FlagRefused \/ TickRaised \/ (\E r \in BOOLEAN : FlagMined(r))
  <2>1. UNCHANGED <<files, marks, out>> /\ (BurstDies \/ (died' = died /\ keeper_at' \notin {"down", "idle"}))
    BY <1>3 DEF TickBegins, BurstDies, FillsDone, EmptyBook, FlagRefused, TickRaised, FlagMined, EndOfMarket, memory, disk
  <2>2. QED
    BY <2>1, MarkedUnwritten DEF Unclosed, Bursting, BurstDies
<1>4. CASE Degraded
  <2>1. Log([type |-> "degraded"]) /\ keeper_at = "idle" /\ died' = died
    BY <1>4 DEF Degraded
  <2>2. QED
    BY <2>1, MarkedQuiet DEF Bursting
<1>5. CASE RunBegins
  <2>1. CASE started
    BY <1>5, <2>1, MarkedUnwritten DEF RunBegins, disk, Unclosed, Bursting
  <2>2. CASE ~started
    <3>1. Log([type |-> "session_start"]) /\ keeper_at = "idle" /\ died' = died
      BY <1>5, <2>2 DEF RunBegins
    <3>2. QED
      BY <3>1, MarkedQuiet DEF Bursting
  <2>3. QED
    BY <2>1, <2>2
<1>6. CASE (\E p \in BOOLEAN : Exits(p)) \/ Quotes \/ FlagLogged \/ (\E c \in FleetCids : Filled(c))
  <2>0. PICK type \in {"exit", "quote", "dispute_flagged", "fill"} : \E c : Log(OfMarket(type, c))
    BY <1>6 DEF Exits, Quotes, FlagLogged, Filled
  <2>1. PICK c : Log(OfMarket(type, c))
    BY <2>0
  <2>2. keeper_at # "down" /\ keeper_at' \notin {"down", "idle"} /\ died' = died
    BY <1>6 DEF Exits, Quotes, FlagLogged, Filled
  <2>3. OfMarket(type, c).type = type
    BY DEF OfMarket
  <2>4. QED
    BY <2>1, <2>2, <2>3, MarkedQuiet DEF Bursting
<1>7. CASE Ticked
  BY <1>7, MarkedTick
<1>8. CASE RunEnds
  BY <1>8, MarkedEnd
<1>9. QED
  BY <1>1, <1>2, <1>3, <1>4, <1>5, <1>6, <1>7, <1>8 DEF LogNext
-----------------------------------------------------------------------------
(* What is read back.                                                      *)
\* A market left out of an arm is marked 0, so the fallback loses nothing; a session_end marks
\* every market, until a later burst does.
LEMMA EquityHolds == SessionInv /\ Marked => EquityServed
<1> SUFFICES ASSUME SessionInv, Marked, NEW d \in LogDays, NEW arm \in {"lambda_on", "lambda_off"}
             PROVE  LET served == run_live_ablation(files[d]).equity[arm]
                    IN  \/ served = SumFunctionOnSet(marks[d], ArmFleet(arm))
                        \/ /\ files[d].ends # <<>> /\ Unclosed(d)
                           /\ served = SumFunctionOnSet(files[d].ends[1].per_market, ArmFleet(arm))
  BY DEF EquityServed
<1> DEFINE f == files[d]
           S == ArmFleet(arm)
           T == ArmCids(f, arm)
<1>1. f \in LogFiles /\ \A c \in FleetCids : f.tick[c] # 0 => c \in Named(f)
  BY DEF SessionInv, DiskOK
<1>2. run_live_ablation(f).equity[arm]
        = IF f.ends # <<>> THEN SumFunctionOnSet(f.ends[1].per_market, S) ELSE SumFunctionOnSet(f.tick, T)
  BY DEF run_live_ablation, ArmEquity
<1>3. f.ends # <<>> => f.ends[1].per_market = marks[d] \/ Unclosed(d)
  BY DEF Marked
<1>4. f.ends = <<>> => marks[d] = f.tick
  BY DEF Marked
<1> HIDE DEF f
<1>5. T \in SUBSET S /\ \A c \in S \ T : f.tick[c] = 0
  BY <1>1, FileFields DEF ArmCids, ArmFleet, Named
<1>6. IsFiniteSet(S) /\ \A c \in S : f.tick[c] \in Int
  BY <1>1, FileFields, FleetFinite, FS_Subset DEF ArmFleet
<1> HIDE DEF S, T
<1>7. SumFunctionOnSet(f.tick, S) = SumFunctionOnSet(f.tick, T)
  BY <1>5, <1>6, SumOutside
<1>8. QED
  BY <1>2, <1>3, <1>4, <1>7 DEF f, S

\* The invariant says all that SessionReadBack does.
LEMMA ReadsBack == SessionInv /\ Marked => SessionReadBack
<1> SUFFICES ASSUME SessionInv, Marked PROVE SessionReadBack
  OBVIOUS
<1>0. MemoryOK /\ DiskOK /\ Owned /\ Counted
  BY DEF SessionInv
<1>1. FillsRead
  BY <1>0 DEF FillsRead, Counted, FillsIn
<1>2. \A d \in LogDays : run_live_ablation(files[d]).n_disputes = files[d].dispute_flagged
  BY DEF run_live_ablation
<1>3. DisputesCounted
  <2> DEFINE read == SumFunction([d \in LogDays |-> run_live_ablation(files[d]).n_disputes])
  <2>1. read = DisputesIn
    <3>1. [d \in LogDays |-> run_live_ablation(files[d]).n_disputes] = [d \in LogDays |-> files[d].dispute_flagged]
      BY <1>2
    <3>2. QED
      BY <3>1 DEF DisputesIn
  <2>2. DisputesIn \in Nat /\ SumFunction(mined) \in Nat
    BY <1>0, SumsOfFiles, MinedSum
  <2>3. DisputesIn <= SumFunction(mined) /\ (~unlogged /\ keeper_at # "flagged" => DisputesIn = SumFunction(mined))
    BY <1>0, <2>2 DEF Counted, Pending
  <2>4. ASSUME keeper_at # "down" PROVE n_disputes <= DisputesIn
    <3>1. CASE out = NoFile
      BY <1>0, <2>2, <2>4, <3>1 DEF Owned
    <3>2. CASE out # NoFile
      <4>1. out \in LogDays
        BY <1>0, <3>2, LogDaysFinite DEF MemoryOK, LogDays, NoFile
      <4>2. n_disputes <= files[out].dispute_flagged /\ files[out].dispute_flagged <= DisputesIn
        BY <1>0, <2>4, <3>2, <4>1, SumsOfFiles DEF Owned
      <4>3. n_disputes \in Nat /\ files[out].dispute_flagged \in Nat
        BY <1>0, <4>1, FileFields DEF MemoryOK, DiskOK
      <4>4. QED
        BY <2>2, <4>2, <4>3
    <3>3. QED
      BY <3>1, <3>2
  <2> HIDE DEF read
  <2>5. QED
    BY <2>1, <2>3, <2>4 DEF DisputesCounted, read
<1>4. SessionServed
  <2> SUFFICES ASSUME keeper_at # "down"
               PROVE  /\ \A d \in LogDays : files[d].exists => d <= latest_session_path
                      /\ out # NoFile => n_disputes <= testnet_ablation.n_disputes
    BY DEF SessionServed
  <2>1. CASE out = NoFile
    <3> DEFINE E == {d \in LogDays : files[d].exists} \cup {NoFile}
    <3>1. E \in SUBSET Nat /\ E # {} /\ \A d \in E : d <= MaxDays
      BY LogDaysFinite DEF LogDays, NoFile
    <3>2. latest_session_path = Max(E)
      BY <2>1 DEF latest_session_path
    <3> HIDE DEF E
    <3>3. \A d \in E : d <= Max(E)
      BY <3>1, LogDaysFinite, GreatestNatural
    <3>4. QED
      BY <2>1, <3>2, <3>3 DEF E
  <2>2. CASE out # NoFile
    <3>1. out \in LogDays
      BY <1>0, <2>2, LogDaysFinite DEF MemoryOK, LogDays, NoFile
    <3>2. latest_session_path = out
      BY <2>2 DEF latest_session_path
    <3>3. testnet_ablation.n_disputes = files[out].dispute_flagged
      BY <1>2, <3>1, <3>2 DEF testnet_ablation
    <3>4. QED
      BY <1>0, <2>2, <3>2, <3>3 DEF Owned
  <2>3. QED
    BY <2>1, <2>2
<1>5. QED
  BY <1>1, <1>3, <1>4, EquityHolds DEF SessionReadBack

\* What a reader takes from a session is what happened in it (SessionReadBack): for every fleet,
\* every number of days, processes, ticks and fills, and wherever a process dies.  The equity of
\* an arm is its last marks, but for a file that a later burst marked and did not close after a
\* session_end, which the reader keeps to.
THEOREM SessionAlwaysReadBack == LogSpec => []SessionReadBack
<1>1. LogInit => Marked
  BY DEF LogInit, Marked, Empty
<1>2. QED
  BY <1>1, SessionInvInit, SessionInvNext, MarkedNext, ReadsBack, PTL DEF LogSpec
=============================================================================
