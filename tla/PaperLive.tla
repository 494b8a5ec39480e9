------------------------------ MODULE PaperLive ------------------------------
(***************************************************************************)
(* The paper-live adapter of execution/paper.py: PaperLiveClob with its    *)
(* ConservativeFillModel, which fills simulated orders from the public     *)
(* tape, read through read_trades of execution/clob.py.                    *)
(*                                                                         *)
(* Trades have timestamps of whole seconds and appear on the tape late and *)
(* out of order.  step() reads what is newer than a cursor and compares it *)
(* with every resting order.                                               *)
(*                                                                         *)
(* One market.  Prices are left out: how much rests at or ahead of an      *)
(* order's price when it is placed is chosen then, and which prints reach  *)
(* that price when they are compared.  The bid is below the ask, so no     *)
(* print reaches both.                                                     *)
(***************************************************************************)
EXTENDS Integers, Sequences, FiniteSets, FiniteSetsExt

CONSTANTS
  Oids,             \* order ids, "pl-1", "pl-2", ..., free again when forgotten
  Depths,           \* sizes displayed ahead of an order
  PrintSizes,
  MaxPrints,        \* bounds the trades
  MaxTime           \* bounds the clock, in seconds

ASSUME PaperAssumption ==
  /\ Depths \subseteq Nat /\ PrintSizes \subseteq Nat \ {0}
  /\ MaxPrints \in Nat /\ MaxTime \in Nat
  /\ IsFiniteSet(Oids)

VARIABLES
  now,              \* the exchange's clock
  tape,             \* the trades, in the order they happened: [ts, size]
  published,        \* those the API shows
  last_ts,          \* the cursor _last_ts
  batch,            \* prints of the step under way that reached no order yet
  orders,           \* resting: [id, side, size, queue_ahead], and of its life so far
                    \*   [ahead, volume, filled]: queue at placement, volume seen, filled
  full,             \* history: orders filled entirely in this step
  reads             \* history: how often step() took each trade in

market == <<now, tape, published>>
paperVars == <<market, last_ts, batch, orders, full, reads>>

Sides == {"BUY", "SELL"}

PaperInit ==
  /\ now = 1 /\ tape = <<>> /\ published = {}
  /\ last_ts = 0 /\ batch = {} /\ orders = {} /\ full = {}
  /\ reads = [i \in 1..MaxPrints |-> 0]
-----------------------------------------------------------------------------
(* The exchange.                                                           *)
Second ==
  /\ now < MaxTime
  /\ now' = now + 1
  /\ UNCHANGED <<tape, published, last_ts, batch, orders, full, reads>>

Trade(size) ==
  /\ Len(tape) < MaxPrints
  /\ tape' = Append(tape, [ts |-> now, size |-> size])
  /\ UNCHANGED <<now, published, last_ts, batch, orders, full, reads>>

Publish(i) ==
  /\ i \in 1..Len(tape) /\ i \notin published
  /\ published' = published \cup {i}
  /\ UNCHANGED <<now, tape, last_ts, batch, orders, full, reads>>

Exchange ==
  \/ Second
  \/ \E size \in PrintSizes : Trade(size)
  \/ \E i \in 1..MaxPrints : Publish(i)
-----------------------------------------------------------------------------
(* step.  (Defective variants of an operation are named after it; no       *)
(* specification uses them.)                                               *)

\* The published trades after the cursor.
read_trades(since) == {i \in published : tape[i].ts > since}

\* Reads the tape; an error counts as an empty answer.
ReadTape ==
  LET prints == read_trades(last_ts)
  IN  /\ batch' = prints
      /\ last_ts' = IF prints = {} THEN last_ts ELSE Max({tape[i].ts : i \in prints})
      /\ reads' = [i \in 1..MaxPrints |-> reads[i] + (IF i \in prints THEN 1 ELSE 0)]
      /\ full' = {}
      /\ UNCHANGED <<market, orders>>

ReadTapeFails == batch' = {} /\ full' = {} /\ UNCHANGED <<market, last_ts, orders, reads>>

Smaller(a, b) == IF a < b THEN a ELSE b
Volume(prints) == MapThenSumSet(LAMBDA i : tape[i].size, prints)

\* What a volume of prints at the price of order o makes of it.
fills_for_swept(o, vol) ==          \* any print uses up the whole queue
  LET drain == Smaller(o.queue_ahead, vol)
      qty == Smaller(o.size, vol - drain)
  IN  [o EXCEPT !.queue_ahead = IF vol > 0 THEN 0 ELSE @, !.size = @ - qty,
                !.volume = @ + vol, !.filled = @ + qty]

fills_for(o, vol) ==
  LET drain == Smaller(o.queue_ahead, vol)
      qty == Smaller(o.size, vol - drain)
  IN  [o EXCEPT !.queue_ahead = @ - drain, !.size = @ - qty, !.volume = @ + vol, !.filled = @ + qty]

\* The prints reach order o, which becomes o2 and is dropped once nothing is left of it.
Match(o, o2, prints) ==
  /\ o \in orders /\ prints \subseteq batch
  /\ o2 = fills_for(o, Volume(prints))
  /\ batch' = batch \ prints
  /\ orders' = (orders \ {o}) \cup (IF o2.size = 0 THEN {} ELSE {o2})
  /\ full' = full \cup (IF o2.size = 0 THEN {o2} ELSE {})
  /\ UNCHANGED <<market, last_ts, reads>>
-----------------------------------------------------------------------------
(* place and cancel, as operators on the resting orders.                   *)
NewOrder(id, side, size, ahead) ==
  [id |-> id, side |-> side, size |-> size, queue_ahead |-> ahead,
   ahead |-> ahead, volume |-> 0, filled |-> 0]

Resting(ids) == {o \in orders : o.id \notin ids}
-----------------------------------------------------------------------------
(* "a resting order sits BEHIND all displayed same-price depth at          *)
(* placement" (paper.py:14-19): over all the steps it rests, an order is   *)
(* filled with no more than the volume it saw beyond the depth that was    *)
(* ahead of it when it was placed; and no trade is compared with the       *)
(* orders twice, however late and in which order trades appear on the tape *)
(* (the cursor of step).                                                   *)
TapeFillsHonest ==
  /\ \A o \in orders \cup full : o.filled > 0 => o.filled + o.ahead <= o.volume
  /\ \A i \in 1..MaxPrints : reads[i] <= 1
=============================================================================
