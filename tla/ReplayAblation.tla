--------------------------- MODULE ReplayAblation ---------------------------
(***************************************************************************)
(* The historical counterfactual (forwardtest/replay_ablation.py): labels   *)
(* and matched controls are joined to their fills, and for every lambda* of *)
(* the grid each market is replayed under four arms whose results add up.   *)
(*                                                                         *)
(* Money is in fifths of a reward unit: a market's reward is 5 units of its *)
(* weight, and pulling early forgoes EXIT_REWARD_FRACTION = 2/5 of it.      *)
(***************************************************************************)
EXTENDS Integers, Sequences, FiniteSets, SequencesExt

CONSTANTS
  NoDispute,        \* the absent time
  Cids,             \* tradeable markets, which have fills
  Phantoms,         \* conditions of NegRisk adapters, which nobody trades
  Instants,            \* of disputes
  Weights, Moves,   \* rewards, and loss at the jump after a dispute
  Rates,            \* what lambda_select and the hazard model may say
  Grid,             \* lambda_star_grid
  LabelLists,       \* what a source may answer
  Ratio             \* control_ratio

ASSUME ReplayAssumption ==
  /\ Weights \subseteq Nat /\ Moves \subseteq Nat
  /\ Grid \in Seq(Int) /\ Ratio \in Nat

ASSUME LabelAssumption ==
  /\ NoDispute \notin Instants
  /\ \A list \in LabelLists :
       list \in Seq([cid : Cids \cup Phantoms, tradeable : Cids \cup {"null"}, ts : Instants])

Jumpers == {"lambda_jump", "lambda_jump_hazard"}
Arms == Jumpers \cup {"diffusion_only", "lambda_select"}
Nothing == [pnl |-> 0, avoided |-> 0, forgone |-> 0]

VARIABLES
  labels,           \* what load_disputes read
  dispute_ts,       \* the time each market was disputed at
  controls,
  fills,            \* per market: its reward weight, the loss at each dispute time, its rates
  ls,               \* position in the grid
  left,             \* markets not replayed yet at this lambda*
  acc,              \* per arm, pnl, avoided and forgone so far
  results           \* per position of the grid, acc when it was done

replayVars == <<labels, dispute_ts, controls, fills, ls, left, acc, results>>
-----------------------------------------------------------------------------
FillInputs == [weight : Weights, loss : [Instants -> Moves], sel : Rates, haz : Rates]

JoinCid(label) == IF label.tradeable = "null" THEN label.cid ELSE label.tradeable

Disputed == {JoinCid(labels[i]) : i \in DOMAIN labels}
Contribs == (Disputed \cup controls) \cap Cids

\* dispute_ts is a dict: of several labels of a market the last stays.
LastLabel(i, c) ==
  /\ JoinCid(labels[i]) = c
  /\ \A j \in DOMAIN labels : JoinCid(labels[j]) = c => j <= i

DisputeTimes ==
  {ts \in [Cids -> Instants \cup {NoDispute}] : \A c \in Cids :
     IF c \in Disputed THEN \E i \in DOMAIN labels : LastLabel(i, c) /\ ts[c] = labels[i].ts
                       ELSE ts[c] = NoDispute}

\* load_disputes gives up with no labels on any exception; controls are sampled from the
\* markets that no label names, and only if there are labels.
ReplayInit ==
  /\ labels \in LabelLists \cup {<<>>} /\ dispute_ts \in DisputeTimes
  /\ controls \in {cs \in SUBSET (Cids \ Disputed) : Cardinality(cs) <= Ratio * Len(labels)}
  /\ fills \in [Cids -> FillInputs]
  /\ ls = 1 /\ left = Contribs
  /\ acc = [a \in Arms |-> Nothing] /\ results = <<>>
-----------------------------------------------------------------------------
(* One market.                                                             *)
should_exit(rate, lambda_star, loss, forgone) == rate > lambda_star /\ loss > forgone

reward(c) == 5 * fills[c].weight
jump_loss(c) == IF dispute_ts[c] = NoDispute THEN 0 ELSE fills[c].loss[dispute_ts[c]]
Held(c) == [pnl |-> reward(c) - jump_loss(c), avoided |-> 0, forgone |-> 0]

Surgical(c, rate, lambda_star) ==
  LET forgone == 2 * fills[c].weight
  IN  IF should_exit(rate, lambda_star, jump_loss(c), forgone)
      THEN [pnl |-> reward(c) - forgone, avoided |-> jump_loss(c), forgone |-> forgone]
      ELSE Held(c)

Blanket_free(c, lambda_star) ==     \* does not charge the reward of what it skips
  IF fills[c].sel > lambda_star
  THEN [pnl |-> 0, avoided |-> jump_loss(c), forgone |-> 0]
  ELSE Held(c)

Blanket(c, lambda_star) ==
  IF fills[c].sel > lambda_star
  THEN [pnl |-> 0, avoided |-> jump_loss(c), forgone |-> reward(c)]
  ELSE Held(c)

_replay_market(c, lambda_star) ==
  [a \in Arms |->
     CASE a = "diffusion_only" -> Held(c)
       [] a = "lambda_jump" -> Surgical(c, fills[c].sel, lambda_star)
       [] a = "lambda_jump_hazard" -> Surgical(c, fills[c].haz, lambda_star)
       [] a = "lambda_select" -> Blanket(c, lambda_star)]
-----------------------------------------------------------------------------
(* The grid.                                                               *)
Sum2(x, y) == [pnl |-> x.pnl + y.pnl, avoided |-> x.avoided + y.avoided, forgone |-> x.forgone + y.forgone]

Replay(c) ==
  /\ ls <= Len(Grid) /\ c \in left /\ left' = left \ {c}
  /\ LET m == _replay_market(c, Grid[ls])
     IN  acc' = [a \in Arms |-> Sum2(acc[a], m[a])]
  /\ UNCHANGED <<labels, dispute_ts, controls, fills, ls, results>>

NextLambda ==
  /\ ls <= Len(Grid) /\ left = {}
  /\ results' = Append(results, acc) /\ acc' = [a \in Arms |-> Nothing]
  /\ ls' = ls + 1 /\ left' = Contribs
  /\ UNCHANGED <<labels, dispute_ts, controls, fills>>

ReplayNext == (\E c \in Cids : Replay(c)) \/ NextLambda
ReplaySpec == ReplayInit /\ [][ReplayNext]_replayVars
-----------------------------------------------------------------------------
\* The headline of every arm is net of what it gave up: its pnl differs from holding
\* through by exactly what it avoided less what it forwent, at every point of the sums.
Accounted(sums) ==
  \A a \in Arms : sums[a].pnl - sums["diffusion_only"].pnl = sums[a].avoided - sums[a].forgone

NetOfForgone == Accounted(acc) /\ \A i \in DOMAIN results : Accounted(results[i])

\* The reward-aware exit never costs: whatever the signal says, and however wrong the
\* hazard model is, a jump arm is not behind the arm that always holds.
Dominates(sums) == \A a \in Jumpers : sums[a].pnl >= sums["diffusion_only"].pnl
SurgicalNeverWorse == Dominates(acc) /\ \A i \in DOMAIN results : Dominates(results[i])
=============================================================================
