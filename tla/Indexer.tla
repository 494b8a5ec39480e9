------------------------------ MODULE Indexer ------------------------------
(***************************************************************************)
(* The entities indexer/src/EventHandlers.ts builds from the events of the *)
(* adapters and the optimistic oracle, as the lifecycles of several        *)
(* questions interleave on the chain.                                      *)
(*                                                                         *)
(* A handler is an operator on the entities; an action is a transaction,   *)
(* and applies the handlers of its events in log order (the indexer runs   *)
(* them one after the other).  The adapters and the oracle are external:   *)
(* initialise, propose, dispute (the first dispute resets the question in  *)
(* the same transaction, the second escalates), settle, resolve.           *)
(*                                                                         *)
(* conditionId is derived from adapter and question and back, so an entity *)
(* key is the question itself; an event of the oracle names its request by *)
(* adapter, timestamp and ancillary data, that is <<Adapter[q], ts, q>>.   *)
(***************************************************************************)
EXTENDS Integers, FiniteSets

CONSTANTS
  Questions,
  Adapter,          \* the contract each of them is asked by
  None,             \* no entity
  MaxTime,          \* bounds the block timestamps
  SharedBlocks      \* may an adapter ask twice in one block?

Adapters == {Adapter[q] : q \in Questions}

ASSUME IndexerAssumption ==
  MaxTime \in Nat \ {0} /\ SharedBlocks \in BOOLEAN /\ IsFiniteSet(Adapters)

VARIABLES
  db,               \* the entities
  now,              \* timestamp of the block being mined
  stage,            \* of each question on the chain
  asked,            \* timestamps of its requests, by round
  strikes,          \* resets of the question
  old,              \* questions whose first, disputed request is still unsettled
  disputed          \* history: the disputes there were, [at, question, round]

oracle == <<now, stage, asked, strikes, old, disputed>>
vars == <<db, oracle>>

Rounds == 0..1      \* two strikes
Times == 1..MaxTime

Statuses == {"OPEN", "REQUESTED", "PROPOSED", "DISPUTED", "RESET", "RESOLVED"}
MarketRows == [status : Statuses, currentRound : Rounds]
RequestRows == [requestTimestamp : 0..MaxTime, status : Statuses \ {"OPEN", "RESET"}]

ASSUME NoneAssumption == None \notin Questions /\ None \notin MarketRows /\ None \notin RequestRows

Init ==
  /\ db = [Market |-> [q \in Questions |-> None],
           ResolutionRequest |-> [q \in Questions |-> [r \in Rounds |-> None]],
           RequestIndex |-> [a \in Adapters |-> [t \in Times |-> None]],
           Dispute |-> {}]
  /\ now = 1
  /\ stage = [q \in Questions |-> "none"]
  /\ asked = [q \in Questions |-> [r \in Rounds |-> 0]]
  /\ strikes = [q \in Questions |-> 0]
  /\ old = {} /\ disputed = {}
-----------------------------------------------------------------------------
(* The handlers: e is the store they read and write, c a conditionId.      *)
(* (Defective variants are named after them; no specification uses them.)  *)
Known(e, c) == e.Market[c] # None
Round(e, c) == e.Market[c].currentRound
Live(e, c) == e.ResolutionRequest[c][Round(e, c)]

SetStatus(e, c, status) == [e EXCEPT !.Market[c].status = status]
SetRequest(e, c, r, row) == [e EXCEPT !.ResolutionRequest[c][r] = row]
SetLive(e, c, status) ==
  IF Live(e, c) = None THEN e
  ELSE [e EXCEPT !.ResolutionRequest[c][Round(e, c)].status = status]

Requested(t) == [requestTimestamp |-> t, status |-> "REQUESTED"]

ConditionPreparation(e, c) ==
  IF Known(e, c) THEN e
  ELSE [e EXCEPT !.Market[c] = [status |-> "OPEN", currentRound |-> 0]]

QuestionInitialized(e, c, t) ==
  LET m == IF Known(e, c) THEN e.Market[c] ELSE [status |-> "OPEN", currentRound |-> 0]
      s == IF m.status = "RESOLVED" THEN "RESOLVED" ELSE "REQUESTED"
  IN  [SetRequest(e, c, 0, Requested(t)) EXCEPT
         !.Market[c] = [m EXCEPT !.status = s], !.RequestIndex[Adapter[c]][t] = c]

QuestionReset_inPlace(e, c, t) ==   \* the round is not bumped
  IF ~Known(e, c) THEN e
  ELSE SetRequest(SetStatus(e, c, "RESET"), c, Round(e, c), Requested(t))

QuestionReset_silent(e, c, t) ==    \* the market keeps its status
  IF ~Known(e, c) THEN e
  ELSE SetRequest([e EXCEPT !.Market[c].currentRound = @ + 1], c, Round(e, c) + 1, Requested(t))

QuestionReset(e, c, t) ==
  IF ~Known(e, c) THEN e
  ELSE SetRequest([e EXCEPT !.Market[c] = [status |-> "RESET", currentRound |-> @.currentRound + 1]],
                  c, Round(e, c) + 1, Requested(t))

\* The oracle's events find their market by RequestIndex, else by derivation.
Joined(e, q, t) == IF e.RequestIndex[Adapter[q]][t] # None THEN e.RequestIndex[Adapter[q]][t] ELSE q

ProposePrice_firstRow(e, q, t) ==   \* writes to the row of round 0
  LET c == Joined(e, q, t)
  IN  IF ~Known(e, c) THEN e
      ELSE SetRequest(SetStatus(e, c, "PROPOSED"), c, 0,
                      [requestTimestamp |-> t, status |-> "PROPOSED"])

ProposePrice(e, q, t) ==
  LET c == Joined(e, q, t)
      at == IF Live(e, c) = None THEN t ELSE Live(e, c).requestTimestamp
  IN  IF ~Known(e, c) THEN e
      ELSE SetRequest(SetStatus(e, c, "PROPOSED"), c, Round(e, c),
                      [requestTimestamp |-> at, status |-> "PROPOSED"])

\* id is the log's <transaction hash>-<log index>.
DisputePrice(e, q, t, id) ==
  LET c == Joined(e, q, t)
  IN  IF ~Known(e, c) THEN e
      ELSE [SetStatus(SetLive(e, c, "DISPUTED"), c, "DISPUTED") EXCEPT
              !.Dispute = @ \cup {[at |-> id, question |-> c, round |-> Round(e, c)]}]

Settle(e, q, t) ==
  LET c == Joined(e, q, t) IN IF Known(e, c) THEN SetLive(e, c, "RESOLVED") ELSE e

ConditionResolution(e, c) == SetStatus(ConditionPreparation(e, c), c, "RESOLVED")

QuestionResolved(e, c) ==
  IF Known(e, c) THEN SetLive(SetStatus(e, c, "RESOLVED"), c, "RESOLVED") ELSE e
-----------------------------------------------------------------------------
(* The chain.                                                              *)
NextBlock == now < MaxTime /\ now' = now + 1 /\ UNCHANGED <<db, stage, asked, strikes, old, disputed>>

Current(q) == asked[q][strikes[q]]

AloneInBlock(q) ==
  SharedBlocks \/ \A p \in Questions, r \in Rounds : Adapter[p] = Adapter[q] => asked[p][r] # now

Initialise(q) ==
  /\ stage[q] = "none"
  /\ AloneInBlock(q)
  /\ db' = QuestionInitialized(ConditionPreparation(db, q), q, now)
  /\ stage' = [stage EXCEPT ![q] = "requested"]
  /\ asked' = [asked EXCEPT ![q][0] = now]
  /\ UNCHANGED <<now, strikes, old, disputed>>

Propose(q) ==
  /\ stage[q] = "requested"
  /\ db' = ProposePrice(db, q, Current(q))
  /\ stage' = [stage EXCEPT ![q] = "proposed"]
  /\ UNCHANGED <<now, asked, strikes, old, disputed>>

ThisDispute(q) == [at |-> <<now, q>>, question |-> q, round |-> strikes[q]]

\* The first dispute: the adapter asks again in the same transaction.  A request
\* is proposed and disputed in later blocks than the one that made it.
FirstStrike(q) ==
  /\ stage[q] = "proposed" /\ strikes[q] = 0 /\ now > Current(q)
  /\ AloneInBlock(q)
  /\ db' = QuestionReset(DisputePrice(db, q, Current(q), <<now, q>>), q, now)
  /\ stage' = [stage EXCEPT ![q] = "requested"]
  /\ strikes' = [strikes EXCEPT ![q] = 1]
  /\ asked' = [asked EXCEPT ![q][1] = now]
  /\ old' = old \cup {q}
  /\ disputed' = disputed \cup {ThisDispute(q)}
  /\ UNCHANGED now

\* The second goes to the vote.
SecondStrike(q) ==
  /\ stage[q] = "proposed" /\ strikes[q] = 1 /\ now > Current(q)
  /\ db' = DisputePrice(db, q, Current(q), <<now, q>>)
  /\ stage' = [stage EXCEPT ![q] = "voting"]
  /\ disputed' = disputed \cup {ThisDispute(q)}
  /\ UNCHANGED <<now, asked, strikes, old>>

\* The oracle settles the live request, and the adapter reports the payouts.
SettleLive(q) ==
  /\ stage[q] \in {"proposed", "voting"}
  /\ db' = Settle(db, q, Current(q))
  /\ stage' = [stage EXCEPT ![q] = "settled"]
  /\ UNCHANGED <<now, asked, strikes, old, disputed>>

Resolve(q) ==
  /\ stage[q] = "settled"
  /\ db' = QuestionResolved(ConditionResolution(db, q), q)
  /\ stage' = [stage EXCEPT ![q] = "resolved"]
  /\ UNCHANGED <<now, asked, strikes, old, disputed>>

\* The vote on the first dispute ends: the request the reset replaced settles.
SettleOld(q) ==
  /\ q \in old
  /\ db' = Settle(db, q, asked[q][0])
  /\ old' = old \ {q}
  /\ UNCHANGED <<now, stage, asked, strikes, disputed>>

Next ==
  \/ NextBlock
  \/ \E q \in Questions :
       \/ Initialise(q) \/ Propose(q) \/ FirstStrike(q) \/ SecondStrike(q)
       \/ SettleLive(q) \/ Resolve(q) \/ SettleOld(q)

Spec == Init /\ [][Next]_vars
-----------------------------------------------------------------------------

(* Every dispute there was is recorded once, for the market and the round  *)
(* it disputed: the labels data/disputes.py counts.  Holds while an        *)
(* adapter asks at most once per block, whatever the others do in it.      *)
DisputesJoin == db.Dispute = disputed

(* The row of a round that was reset is history: no later event of the     *)
(* question, nor the settlement of the old request, rewrites the proposal  *)
(* that was disputed.                                                      *)
ClosedRoundsKept ==
  [][\A q \in Questions : strikes[q] = 1 =>
       db'.ResolutionRequest[q][0] = db.ResolutionRequest[q][0]]_vars

StatusOf(q) ==
  CASE stage[q] = "requested" -> IF strikes[q] = 0 THEN "REQUESTED" ELSE "RESET"
    [] stage[q] = "proposed" -> "PROPOSED"
    [] stage[q] = "voting" -> "DISPUTED"
    [] stage[q] = "resolved" -> "RESOLVED"

RowStatusOf(q) == IF StatusOf(q) = "RESET" THEN "REQUESTED" ELSE StatusOf(q)

QuestionFollowed(q) ==
  stage[q] \in {"requested", "proposed", "voting", "resolved"} =>
    /\ db.Market[q].status = StatusOf(q) /\ db.Market[q].currentRound = strikes[q]
    /\ \/ Live(db, q).status = RowStatusOf(q)
       \/ Live(db, q).status = "RESOLVED" /\ strikes[q] = 1 /\ q \notin old

(* The market is where the chain is, and so is the row of its live request *)
(* - but for one thing the handlers let happen: the settlement of the      *)
(* request that the reset replaced marks the live row RESOLVED.            *)
LifecycleFollowed == \A q \in Questions : QuestionFollowed(q)
=============================================================================
