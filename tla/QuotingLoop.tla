----------------------------- MODULE QuotingLoop -----------------------------
(***************************************************************************)
(* The quoting loop of execution/loop.py on one market: an iteration of    *)
(* run_loop steps the adapter, applies its fills to the inventory, and     *)
(* runs tick, which may exit, and cancels and replaces the quotes under a  *)
(* position cap that shrinks towards the resolution.                       *)
(*                                                                         *)
(* The adapter is PaperClob or PaperLive.  What the estimators decide is   *)
(* left open: whether the exit gate fires and how much it reduces, whether *)
(* a quote can be computed, and its size among those the configuration     *)
(* allows.                                                                 *)
(***************************************************************************)
EXTENDS PaperClob

CONSTANTS
  BaseCap,          \* base_inventory_cap
  QuoteSizes,       \* sizes of a quote
  LightSizes,       \* sizes of a quote once defensive
  MaxSize           \* the largest of them

ASSUME LoopAssumption ==
  /\ BaseCap \in Nat /\ MaxSize \in Nat \ {0}
  /\ QuoteSizes \cup LightSizes \subseteq 1..MaxSize

VARIABLES
  adapter,          \* what run_loop drives: PaperClob or PaperLiveClob
  stage,            \* of the iteration: "step", "match", "tick", "quote"
  todo,             \* orders the step has still to look at
  inventory,
  order_ids,        \* what the loop believes is resting
  pos_cap,          \* of the last tick that quoted
  defensive

loopVars == <<adapter, stage, todo, inventory, order_ids, pos_cap, defensive>>
quotingVars == <<paperVars, loopVars>>

\* A mode without a simulated adapter is refused.
Modes == {"paper", "paper-live"}

QuoteInit ==
  /\ PaperInit
  /\ adapter \in Modes
  /\ stage = "step" /\ todo = {}
  /\ inventory = 0 /\ order_ids = {} /\ pos_cap = BaseCap /\ defensive = FALSE
-----------------------------------------------------------------------------
(* clob.step, and the fills it returns.                                    *)
Step ==
  /\ stage = "step"
  /\ \/ adapter = "paper-live" /\ (ReadTape \/ ReadTapeFails) /\ todo' = {o.id : o \in orders}
     \/ adapter = "paper" /\ SyntheticStep /\ todo' = {}
  /\ stage' = "match"
  /\ UNCHANGED <<adapter, inventory, order_ids, pos_cap, defensive>>

Signed(side, qty) == IF side = "BUY" THEN qty ELSE -qty

Fill(o) ==
  /\ stage = "match" /\ o.id \in todo
  /\ \E prints \in SUBSET batch :
       LET o2 == fills_for(o, Volume(prints))
       IN  /\ Match(o, o2, prints)
           /\ inventory' = inventory + Signed(o.side, o2.filled - o.filled)
  /\ todo' = todo \ {o.id}
  /\ UNCHANGED <<adapter, stage, order_ids, pos_cap, defensive>>

\* A synthetic print is of one side, and reaches orders of the other.
PaperFills(side, size) ==
  /\ stage = "match" /\ adapter = "paper"
  /\ \E hit \in SUBSET {o \in orders : o.side # side} :
       /\ TakerPrint(size, hit)
       /\ inventory' = inventory + MapThenSumSet(LAMBDA o : Signed(o.side, Taken(o, size)), hit)
  /\ UNCHANGED <<adapter, stage, todo, order_ids, pos_cap, defensive>>

StepDone ==
  /\ stage = "match" /\ todo = {}
  /\ adapter = "paper" => batch = {}
  /\ stage' = "tick"
  /\ batch' = {}
  /\ UNCHANGED <<market, last_ts, orders, full, reads, adapter, todo, inventory, order_ids, pos_cap, defensive>>
-----------------------------------------------------------------------------
(* tick.  (Defective variants of an operation are named after it; no       *)
(* specification uses them.)                                               *)

\* An empty book, or no quote (a boundary regime, a spread below one tick): what
\* rests stays.
Hold ==
  /\ stage \in {"tick", "quote"}
  /\ stage' = "step"
  /\ UNCHANGED <<paperVars, adapter, todo, inventory, order_ids, pos_cap, defensive>>

Absolute(n) == IF n < 0 THEN -n ELSE n

\* The reward-aware exit: pulls the quotes and takes r off the position at the touch.
Exit_unpulled(r) ==                 \* forgets the quotes without pulling them
  /\ stage = "tick" /\ inventory # 0
  /\ inventory' = IF inventory > 0 THEN inventory - r ELSE inventory + r
  /\ order_ids' = {} /\ defensive' = TRUE
  /\ stage' = "quote"
  /\ UNCHANGED <<paperVars, adapter, todo, pos_cap>>

Exit(r) ==
  /\ stage = "tick" /\ inventory # 0
  /\ orders' = Resting(order_ids) /\ order_ids' = {}
  /\ inventory' = IF inventory > 0 THEN inventory - r ELSE inventory + r
  /\ defensive' = TRUE
  /\ stage' = "quote"
  /\ UNCHANGED <<market, last_ts, batch, full, reads, adapter, todo, pos_cap>>

\* The sides a tick quotes: one that would push the position past the cap is left out.
Quoted_uncapped(cap) == Sides

Quoted(cap) == {side \in Sides : IF side = "BUY" THEN inventory < cap ELSE inventory > -cap}

\* Cancel and replace, both sides with one size.
Quote(cap, size, id, ahead) ==
  /\ stage \in {"tick", "quote"}
  /\ orders' = Resting(order_ids) \cup {NewOrder(id[side], side, size, ahead) : side \in Quoted(cap)}
  /\ order_ids' = {id[side] : side \in Quoted(cap)}
  /\ pos_cap' = cap
  /\ stage' = "step"
  /\ UNCHANGED <<market, last_ts, batch, full, reads, adapter, todo, inventory, defensive>>

\* Ids of the two orders of a tick, which cancels first: none that still rests then; any
\* two are as good as others.
FreshIds ==
  LET free == Oids \ {o.id : o \in Resting(order_ids)}
      fresh == {id \in [Sides -> free] : id["BUY"] # id["SELL"]}
  IN  {id \in fresh : id = CHOOSE any \in fresh : TRUE}

\* Displayed depth ahead of a new order.
queue_at == IF adapter = "paper" THEN {0} ELSE Depths

SizesNow == IF defensive THEN LightSizes ELSE QuoteSizes

quote_tick ==
  \/ Hold
  \/ \E r \in 0..Absolute(inventory) : Exit(r)
  \/ \E cap \in 0..pos_cap, size \in SizesNow, id \in FreshIds, ahead \in queue_at :
       Quote(cap, size, id, ahead)
-----------------------------------------------------------------------------
QuoteNext ==
  \/ adapter = "paper-live" /\ Exchange /\ UNCHANGED loopVars
  \/ Step
  \/ \E o \in orders : Fill(o)
  \/ \E side \in Sides, size \in PrintSizes : PaperFills(side, size)
  \/ StepDone
  \/ quote_tick

QuoteSpec == QuoteInit /\ [][QuoteNext]_quotingVars
-----------------------------------------------------------------------------

(* "cap inventory hard" (loop.py:213-217): sizes are set against the       *)
(* inventory before the fills, and quotes are held over ticks without a    *)
(* quote while the cap shrinks.  Whatever fills meanwhile, the position    *)
(* with all that rests on one side passes the base cap by less than one    *)
(* order.                                                                  *)
PositionBounded ==
  /\ Absolute(inventory) < BaseCap + MaxSize
  /\ \A o \in orders : Absolute(inventory + Signed(o.side, o.size)) < BaseCap + MaxSize

(* Every resting order is one the loop can cancel, and no side has two:    *)
(* none is left behind to fill later, through exits, holds and partial     *)
(* fills (order_ids against the adapter's orders).                         *)
NoStrayOrders ==
  \A o \in orders : o.id \in order_ids /\ \A p \in orders : p.side = o.side => p = o
=============================================================================
