-------------------------- MODULE TradingProofs --------------------------
(***************************************************************************)
(* The live order path for every price grid, cap, and number of sessions:  *)
(* typing, the capital reservation as an inductive invariant, the          *)
(* rounding, the live gate, and the refinement of CapitalBound.  Then the  *)
(* quoting loop over either paper adapter, for every cap, order size and   *)
(* tape: its orders, its position and its fills.                           *)
(***************************************************************************)
EXTENDS QuotingLoop, LiveOrders, SumProofs, TLAPS

USE DEF Attempts, process

\* A bid rounded down to the grid is on the grid's side of the price asked
\* for (clob.py _round_to_tick, BUY).
LEMMA RoundDown ==
  ASSUME NEW p \in Nat, NEW t \in Nat \ {0}
  PROVE  (p \div t) * t \in Nat /\ (p \div t) * t <= p
  OBVIOUS

\* An ask rounded up likewise (clob.py _round_to_tick, SELL).
LEMMA RoundUp ==
  ASSUME NEW p \in Nat, NEW t \in Nat \ {0}
  PROVE  ((p + t - 1) \div t) * t \in Nat /\ ((p + t - 1) \div t) * t >= p
  OBVIOUS

\* The notional of an order is a natural number.
LEMMA NotionalNat ==
  ASSUME NEW o \in Orders
  PROVE  Notional(o) \in Nat
  BY DEF Orders, Notional

\* The price of an order as place_order builds it.
LEMMA RoundedOrder ==
  ASSUME NEW side \in {"BUY", "SELL"}, NEW p \in Nat, NEW s \in Nat, NEW t \in Ticks,
         NEW o, o = [side |-> side, price |-> p, size |-> s, px |-> RoundToTick(p, t, side)]
  PROVE  /\ o \in Orders
         /\ IF o.side = "BUY" THEN o.px <= o.price ELSE o.px >= o.price
<1>1. t \in Nat \ {0}
  BY InputAssumption
<1>2. CASE side = "BUY"
  BY <1>1, <1>2, RoundDown DEF RoundToTick, Orders
<1>3. CASE side = "SELL"
  BY <1>1, <1>3, RoundUp DEF RoundToTick, Orders
<1>4. QED
  BY <1>2, <1>3
-----------------------------------------------------------------------------
(* The invariant: typing, the reservation, and what an order looks like in *)
(* each phase.  The released order of a re-read still has a price to be    *)
(* rounded again, so its well-formedness is kept in every phase.  The      *)
(* allowance only stays within the cap because the wrap under way does,    *)
(* and a cap that is no number is only harmless because no call is under   *)
(* way outside the gate.                                                   *)
Core == OrdersTypeOK /\ ExposureReserved /\ MakerSidePrice /\ AllowanceWithinCap
WrapWithinCap == wrapping <= Cap
IInv == Core /\ WrapWithinCap /\ NothingSentUngated

LEMMA InitInvariant == OrdersInit => IInv
  BY CapAssumption, SessionsAssumption
     DEF OrdersInit, IInv, Core, WrapWithinCap, NothingSentUngated, Environments, OrdersTypeOK, ExposureReserved, MakerSidePrice, AllowanceWithinCap,
         InFlight, Posting, NoOrder, Orders

\* Behind the gate the cap is a number, and is compared with one.
LEMMA CapCompared ==
  ASSUME _require_live_gate, NEW n, ~OverCap(n) PROVE ~(n > Cap)
  BY DEF _require_live_gate, OverCap

\* A call only begins behind the gate, and the environment outlives every call.
LEMMA StaysGated == IInv /\ [OrdersNext]_liveVars => NothingSentUngated'
<1> SUFFICES ASSUME IInv, [OrdersNext]_liveVars PROVE NothingSentUngated'
  OBVIOUS
<1> USE DEF NothingSentUngated
<1>1. CASE _require_live_gate /\ UNCHANGED env
  BY <1>1 DEF _require_live_gate
<1>2. CASE Restart
  BY <1>2 DEF Restart, Return
<1>3. CASE UNCHANGED <<env, client, phase, accepted, wrapping>>
  BY <1>3 DEF IInv
<1>4. CASE Answer
  <2>1. UNCHANGED env /\ phase # "idle"
    BY <1>4 DEF Answer, _live_client, Accepted, Failed, RateLimited, InvalidTick, RereadTick, RereadFails, Sending,
                Posting, process
  <2>2. _require_live_gate
    BY <2>1 DEF IInv, _require_live_gate
  <2>3. QED
    BY <1>1, <2>1, <2>2
<1>5. CASE WrapStep
  <2>1. UNCHANGED env /\ wrapping > 0
    BY <1>5 DEF WrapStep, Approve, Wrapped, WrapFails, process
  <2>2. _require_live_gate
    BY <2>1 DEF IInv, _require_live_gate
  <2>3. QED
    BY <1>1, <2>1, <2>2
<1>6. QED
  BY <1>1, <1>2, <1>3, <1>4, <1>5
     DEF OrdersNext, place_order, wrap, Unrest, TickMoves, liveVars, process, exchange, call, wallet

\* wrap_usdce_to_pusd refuses more than the cap before it touches the wallet.
LEMMA WrapStaysWithinCap == IInv /\ [OrdersNext]_liveVars => WrapWithinCap'
<1> SUFFICES ASSUME IInv, [OrdersNext]_liveVars PROVE WrapWithinCap'
  OBVIOUS
<1>1. ASSUME NEW amount \in Wraps, wrap(amount) PROVE WrapWithinCap'
  <2>1. amount \in Int /\ Cap \in Int
    BY InputAssumption, CapAssumption
  <2>2. QED
    BY <1>1, <2>1, CapCompared DEF wrap, WrapWithinCap
<1>2. CASE Wrapped \/ WrapFails \/ Restart
  BY <1>2, CapAssumption DEF Wrapped, WrapFails, Restart, WrapWithinCap
<1>3. CASE UNCHANGED wrapping
  BY <1>3 DEF IInv, WrapWithinCap
<1>4. QED
  BY <1>1, <1>2, <1>3
     DEF OrdersNext, Answer, place_order, Accepted, Failed, RateLimited, InvalidTick, RereadTick, RereadFails,
         WrapStep, Approve, Unrest, TickMoves, _live_client, liveVars, wallet

LEMMA NextInvariant == IInv /\ [OrdersNext]_liveVars => IInv'
<1> SUFFICES ASSUME IInv, [OrdersNext]_liveVars PROVE Core'
  BY WrapStaysWithinCap, StaysGated DEF IInv
<1> USE DEF IInv, Core
<1>0. /\ Notional(order) \in Nat /\ Notional(NoOrder) \in Nat /\ NoOrder \in Orders
      /\ Cap \in Nat
  BY NotionalNat, CapAssumption DEF OrdersTypeOK, NoOrder, Orders
<1>1. ASSUME NEW side \in {"BUY", "SELL"}, NEW price \in Prices, NEW size \in Sizes, NEW t \in Ticks,
             place_order(side, price, size, t)
      PROVE  Core'
  <2> DEFINE o == [side |-> side, price |-> price, size |-> size, px |-> RoundToTick(price, t, side)]
  <2>1. price \in Nat /\ size \in Nat
    BY InputAssumption
  <2>2. /\ o \in Orders
        /\ IF o.side = "BUY" THEN o.px <= o.price ELSE o.px >= o.price
    BY <2>1, RoundedOrder
  <2>3. Notional(o) \in Nat
    BY <2>2, NotionalNat
  <2> HIDE DEF o
  <2>4. Reserve(o, "post") /\ idle /\ UNCHANGED <<exchange, wallet, process>>
    BY <1>1 DEF place_order, o
  <2>5. OrdersTypeOK'
    BY <2>2, <2>3, <2>4 DEF OrdersTypeOK, Reserve, exchange, wallet
  <2>6. ExposureReserved'
    <3>1. order' = o /\ InFlight' = Notional(o) /\ spent' = spent + Notional(o) /\ accepted' = accepted
      BY <2>4 DEF Reserve, InFlight, Posting, exchange, Notional
    <3>2. InFlight = 0
      BY <2>4 DEF InFlight, Posting, idle
    <3>3. ~(spent + Notional(o) > Cap)
      BY <1>1, <2>4, CapCompared DEF place_order, Reserve
    <3>4. QED
      BY <1>0, <2>3, <3>1, <3>2, <3>3 DEF ExposureReserved, OrdersTypeOK
  <2>7. MakerSidePrice' /\ AllowanceWithinCap'
    BY <2>2, <2>4 DEF MakerSidePrice, AllowanceWithinCap, Reserve, wallet
  <2>8. QED
    BY <2>5, <2>6, <2>7
<1>2. CASE Accepted
  <2>1. OrdersTypeOK'
    BY <1>0, <1>2 DEF OrdersTypeOK, Accepted, Return, wallet
  <2>2. ExposureReserved'
    BY <1>0, <1>2 DEF ExposureReserved, InFlight, Posting, Sending, Accepted, Return, OrdersTypeOK
  <2>3. QED
    BY <1>2, <2>1, <2>2 DEF MakerSidePrice, AllowanceWithinCap, Posting, Accepted, Return, wallet
<1>3. CASE Failed
  BY <1>0, <1>3 DEF OrdersTypeOK, ExposureReserved, MakerSidePrice, AllowanceWithinCap, InFlight, Posting,
                    Failed, Return, exchange, wallet
<1>4. CASE RateLimited
  <2>1. CASE attempt < Attempts - 1
    <3>1. OrdersTypeOK'
      BY <1>4, <2>1 DEF OrdersTypeOK, RateLimited, exchange, wallet
    <3>2. UNCHANGED <<spent, accepted, phase, order, allowance>>
      BY <1>4, <2>1 DEF RateLimited, exchange, wallet
    <3>3. QED
      BY <3>1, <3>2 DEF ExposureReserved, MakerSidePrice, AllowanceWithinCap, InFlight, Posting, Notional
  <2>2. CASE ~(attempt < Attempts - 1)
    BY <1>0, <1>4, <2>2 DEF OrdersTypeOK, ExposureReserved, MakerSidePrice, AllowanceWithinCap, InFlight,
                            Posting, RateLimited, Return, exchange, wallet
  <2>3. QED
    BY <2>1, <2>2
<1>5. CASE InvalidTick
  <2>1. spent' = spent - Notional(order) /\ accepted + Notional(order) <= spent /\ phase' \notin {"post", "repost"}
    BY <1>5 DEF InvalidTick, ExposureReserved, InFlight, Posting, Sending, Return
  <2>2. OrdersTypeOK'
    BY <1>0, <1>5, <2>1 DEF OrdersTypeOK, InvalidTick, Return, exchange, wallet
  <2>3. ExposureReserved'
    BY <1>0, <1>5, <2>1 DEF ExposureReserved, InFlight, Posting, InvalidTick, exchange, OrdersTypeOK
  <2>4. QED
    BY <1>5, <2>1, <2>2, <2>3 DEF MakerSidePrice, AllowanceWithinCap, Posting, InvalidTick, wallet
<1>6. CASE RereadTick
  <2> DEFINE o == [order EXCEPT !.px = RoundToTick(order.price, tick, order.side)]
  <2>1. /\ o \in Orders
        /\ IF o.side = "BUY" THEN o.px <= o.price ELSE o.px >= o.price
    <3>1. o = [side |-> order.side, price |-> order.price, size |-> order.size,
               px |-> RoundToTick(order.price, tick, order.side)]
      BY DEF OrdersTypeOK, Orders
    <3>2. order.side \in {"BUY", "SELL"} /\ order.price \in Nat /\ order.size \in Nat /\ tick \in Ticks
      BY DEF OrdersTypeOK, Orders
    <3> HIDE DEF o
    <3>3. QED
      BY <3>1, <3>2, RoundedOrder
  <2>2. Notional(o) \in Nat
    BY <2>1, NotionalNat
  <2> HIDE DEF o
  <2>3. CASE Reserve(o, "repost")
    <3>1. OrdersTypeOK'
      BY <1>6, <2>1, <2>2, <2>3 DEF OrdersTypeOK, RereadTick, Reserve, exchange, wallet
    <3>2. order' = o /\ InFlight' = Notional(o) /\ spent' = spent + Notional(o) /\ accepted' = accepted
      BY <1>6, <2>3 DEF RereadTick, Reserve, InFlight, Posting, exchange, Notional
    <3>3. InFlight = 0
      BY <1>6 DEF RereadTick, InFlight, Posting
    <3>4. _require_live_gate
      BY <1>6 DEF RereadTick, NothingSentUngated, _require_live_gate
    <3>5. ~(spent + Notional(o) > Cap)
      BY <2>3, <3>4, CapCompared DEF Reserve
    <3>6. ExposureReserved'
      BY <1>0, <2>2, <3>2, <3>3, <3>5 DEF ExposureReserved, OrdersTypeOK
    <3>7. QED
      BY <1>6, <2>1, <2>3, <3>1, <3>6 DEF MakerSidePrice, AllowanceWithinCap, Reserve, RereadTick, wallet
  <2>4. CASE Return /\ UNCHANGED spent
    BY <1>0, <1>6, <2>4 DEF OrdersTypeOK, ExposureReserved, MakerSidePrice, AllowanceWithinCap, InFlight,
                            Posting, RereadTick, Return, exchange, wallet
  <2>5. QED
    BY <1>6, <2>3, <2>4 DEF RereadTick, o
<1>7. CASE RereadFails
  BY <1>0, <1>7 DEF OrdersTypeOK, ExposureReserved, MakerSidePrice, AllowanceWithinCap, InFlight, Posting,
                    RereadFails, Return, exchange, wallet
<1>8. ASSUME NEW amount \in Wraps, wrap(amount)
      PROVE  Core'
  <2>1. amount \in Nat
    BY <1>8, InputAssumption DEF wrap
  <2>2. UNCHANGED <<spent, accepted, phase, order, allowance>>
    BY <1>8 DEF wrap, exchange, call
  <2>3. QED
    BY <1>8, <2>1, <2>2 DEF OrdersTypeOK, ExposureReserved, MakerSidePrice, AllowanceWithinCap, InFlight,
                            Posting, Notional, wrap, exchange, call
<1>9. CASE WrapStep
  <2>1. UNCHANGED <<spent, exchange, call, process>>
    BY <1>9 DEF WrapStep, Approve, Wrapped, WrapFails
  <2>2. ExposureReserved' /\ MakerSidePrice'
    BY <2>1 DEF ExposureReserved, MakerSidePrice, InFlight, Posting, Notional, exchange, call
  <2>3. OrdersTypeOK' /\ AllowanceWithinCap'
    <3>1. allowance' \in Nat /\ wrapping' \in Nat
      BY <1>9 DEF WrapStep, Approve, Wrapped, WrapFails, OrdersTypeOK
    <3>2. allowance' <= Cap
      BY <1>9, <1>0 DEF WrapStep, Approve, Wrapped, WrapFails, OrdersTypeOK, AllowanceWithinCap, WrapWithinCap
    <3>3. QED
      BY <2>1, <3>1, <3>2 DEF OrdersTypeOK, AllowanceWithinCap, exchange, call
  <2>4. QED
    BY <2>2, <2>3
<1>10. ASSUME NEW n \in 1..resting, Unrest(n)
       PROVE  Core'
  <2>1. UNCHANGED <<spent, accepted, phase, order, allowance>>
    BY <1>10 DEF Unrest, call, wallet
  <2>2. QED
    BY <1>10, <2>1 DEF OrdersTypeOK, ExposureReserved, MakerSidePrice, AllowanceWithinCap, InFlight, Posting,
                       Notional, Unrest, call, wallet
<1>11. CASE TickMoves
  <2>1. UNCHANGED <<spent, accepted, phase, order, allowance>>
    BY <1>11 DEF TickMoves, call, wallet
  <2>2. QED
    BY <1>11, <2>1 DEF OrdersTypeOK, ExposureReserved, MakerSidePrice, AllowanceWithinCap, InFlight, Posting,
                       Notional, TickMoves, call, wallet
<1>12. CASE Restart
  BY <1>0, <1>12, SessionsAssumption
     DEF OrdersTypeOK, ExposureReserved, MakerSidePrice, AllowanceWithinCap, InFlight, Posting, Restart, Return
<1>13. CASE UNCHANGED liveVars
  BY <1>13 DEF OrdersTypeOK, ExposureReserved, MakerSidePrice, AllowanceWithinCap, InFlight, Posting, Notional,
               liveVars, exchange, call, wallet
<1>14. CASE _live_client
  BY <1>14 DEF OrdersTypeOK, ExposureReserved, MakerSidePrice, AllowanceWithinCap, InFlight, Posting, Notional,
               _live_client, exchange, call, wallet
<1>15. QED
  BY <1>1, <1>2, <1>3, <1>4, <1>5, <1>6, <1>7, <1>8, <1>9, <1>10, <1>11, <1>12, <1>13, <1>14 DEF OrdersNext, Answer

\* The variables keep their types, for any number of sessions.
THEOREM TypeCorrect == OrdersSpec => []OrdersTypeOK
<1>1. IInv => OrdersTypeOK
  BY DEF IInv, Core
<1>2. QED
  BY <1>1, InitInvariant, NextInvariant, PTL DEF OrdersSpec

\* What the exchange holds or may still take from a session is reserved, and
\* the reservations never exceed MAX_CAPITAL_USDC (clob.py place_order).
THEOREM ExposureAlwaysReserved == OrdersSpec => []ExposureReserved
<1>1. IInv => ExposureReserved
  BY DEF IInv, Core
<1>2. QED
  BY <1>1, InitInvariant, NextInvariant, PTL DEF OrdersSpec

\* No order is sent at a price worse than asked for, also on the re-read tick.
THEOREM AlwaysMakerSide == OrdersSpec => []MakerSidePrice
<1>1. IInv => MakerSidePrice
  BY DEF IInv, Core
<1>2. QED
  BY <1>1, InitInvariant, NextInvariant, PTL DEF OrdersSpec

\* The allowance left to the onramp is never more than the cap on one wrap.
THEOREM AllowanceAlwaysBounded == OrdersSpec => []AllowanceWithinCap
<1>1. IInv => AllowanceWithinCap
  BY DEF IInv, Core
<1>2. QED
  BY <1>1, InitInvariant, NextInvariant, PTL DEF OrdersSpec

\* Outside the live gate a process builds no client, sends no order and begins no wrap.
THEOREM GateAlwaysHolds == OrdersSpec => []NothingSentUngated
<1>1. IInv => NothingSentUngated
  BY DEF IInv
<1>2. QED
  BY <1>1, InitInvariant, NextInvariant, PTL DEF OrdersSpec
-----------------------------------------------------------------------------
(* Refinement: `accepted' behaves as the abstract exposure.                *)

LEMMA CapitalInit == OrdersInit => Capital!Init
  BY DEF OrdersInit, Capital!Init

LEMMA CapitalStep == IInv /\ [OrdersNext]_liveVars => [Capital!Next]_accepted
<1> SUFFICES ASSUME IInv, [OrdersNext]_liveVars PROVE [Capital!Next]_accepted
  OBVIOUS
<1>1. CASE Accepted
  <2>1. Notional(order) \in Nat
    BY NotionalNat DEF IInv, Core, OrdersTypeOK
  <2>2. accepted + Notional(order) <= Cap
    BY <1>1, <2>1, CapAssumption DEF Accepted, IInv, Core, ExposureReserved, InFlight, Sending, OrdersTypeOK
  <2>3. accepted' \in accepted..Cap
    BY <1>1, <2>1, <2>2, CapAssumption DEF Accepted, IInv, Core, OrdersTypeOK
  <2>4. QED
    BY <2>3 DEF Capital!Next, Capital!Take
<1>2. CASE Restart
  BY <1>2 DEF Restart, Capital!Next, Capital!NewSession
<1>3. CASE UNCHANGED accepted
  BY <1>3
<1>4. QED
  BY <1>1, <1>2, <1>3
     DEF OrdersNext, Answer, place_order, Failed, RateLimited, InvalidTick, RereadTick, RereadFails, wrap,
         WrapStep, Approve, Wrapped, WrapFails, Unrest, TickMoves, _live_client, liveVars, exchange

\* The live order path implements the abstract capital bound of a session.
THEOREM CapitalRefinement == OrdersSpec => ImplementsCapitalBound
<1>1. OrdersInit => Capital!Init
  BY CapitalInit
<1>2. IInv /\ [OrdersNext]_liveVars => [Capital!Next]_accepted
  BY CapitalStep
<1>3. QED
  BY <1>1, <1>2, InitInvariant, NextInvariant, PTL DEF OrdersSpec, ImplementsCapitalBound, Capital!Spec
-----------------------------------------------------------------------------
(* The quoting loop on its simulated adapters, for any ids, depths, prints *)
(* and sizes, and any base cap.                                            *)
\* Resting orders, and those filled entirely.
OrderRecs == [id : Oids, side : Sides, size : Nat, queue_ahead : Nat,
              ahead : Nat, volume : Nat, filled : Nat]

PaperTypeOK ==
  /\ now \in Nat /\ last_ts \in Nat
  /\ tape \in Seq([ts : Nat, size : PrintSizes]) /\ Len(tape) <= MaxPrints
  /\ \A i \in 1..Len(tape) : tape[i].ts <= now
  /\ published \subseteq 1..Len(tape)
  /\ batch \subseteq (IF adapter = "paper" THEN {1, 2} ELSE published)
  /\ reads \in [1..MaxPrints -> Nat]
  /\ orders \subseteq OrderRecs /\ full \subseteq OrderRecs
  /\ \A o \in orders : o.size > 0
  /\ adapter \in Modes /\ (adapter = "paper" => todo = {})
  /\ inventory \in Int /\ pos_cap \in 0..BaseCap

(* What makes TapeFillsHonest inductive: an order is filled only when      *)
(* nothing is ahead of it any more, and what it saw went to the queue or   *)
(* to its fills; a trade that was read is not newer than the cursor.       *)
Drained(o) ==
  /\ o.queue_ahead <= o.ahead
  /\ o.filled > 0 => o.queue_ahead = 0
  /\ o.filled + (o.ahead - o.queue_ahead) <= o.volume

ReadOnce ==
  \A i \in 1..MaxPrints :
    reads[i] = 0 \/ (reads[i] = 1 /\ i \in published /\ tape[i].ts <= last_ts)

TapeInv ==
  /\ \A o \in orders \cup full : Drained(o)
  /\ adapter = "paper" => \A o \in orders \cup full : o.queue_ahead = 0
  /\ ReadOnce

QuotingInv == PaperTypeOK /\ TapeInv /\ NoStrayOrders /\ PositionBounded
-----------------------------------------------------------------------------
LEMMA PaperConstants ==
  /\ Depths \subseteq Nat /\ (\A s \in PrintSizes : s \in Nat /\ s > 0)
  /\ MaxPrints \in Nat /\ BaseCap \in Nat /\ MaxSize \in Nat /\ MaxSize > 0
  /\ \A s \in QuoteSizes \cup LightSizes : s \in Nat /\ s > 0 /\ s <= MaxSize
  BY PaperAssumption, LoopAssumption DEF PaperAssumption, LoopAssumption

LEMMA ElementOf ==
  ASSUME NEW S, NEW s \in Seq(S), NEW i \in 1..Len(s)
  PROVE  s[i] \in S
  OBVIOUS

\* The volume of prints is the sum of their sizes.
LEMMA VolumeIsSum ==
  ASSUME NEW P, IsFiniteSet(P), NEW w, w = [i \in P |-> tape[i].size]
  PROVE  Volume(P) = SumFunctionOnSet(w, P)
<1> DEFINE A(h) == h = [s \in SUBSET P |-> IF s = {} THEN 0 ELSE tape[Pick(s)].size + h[s \ {Pick(s)}]]
<1>1. ASSUME NEW h PROVE Sums(w, P, h) <=> A(h)
  <2>1. ASSUME NEW s \in SUBSET P, s # {} PROVE w[Pick(s)] = tape[Pick(s)].size
    BY <2>1, PickIn
  <2>2. [s \in SUBSET P |-> Folded(w, s, h)]
        = [s \in SUBSET P |-> IF s = {} THEN 0 ELSE tape[Pick(s)].size + h[s \ {Pick(s)}]]
    BY <2>1 DEF Folded
  <2>3. QED
    BY <2>2 DEF Sums
<1>2. \E h : A(h)
  BY <1>1, SumsExist
<1> DEFINE C == CHOOSE h : A(h)
<1>3. A(C)
  BY <1>2
<1>4. Volume(P) = C[P]
  BY DEF Volume, MapThenSumSet, MapThenFoldSet, Pick
<1> HIDE DEF A, C
<1>5. Sums(w, P, C)
  BY <1>1, <1>3
<1>6. PICK g : Sums(w, P, g) /\ SumFunctionOnSet(w, P) = g[P]
  BY SumIs
<1>7. C[P] = g[P]
  BY <1>5, <1>6, SumsAgree
<1>8. QED
  BY <1>4, <1>6, <1>7

LEMMA VolumeNat ==
  ASSUME PaperTypeOK, NEW P, P \subseteq 1..Len(tape)
  PROVE  Volume(P) \in Nat
<1> DEFINE w == [i \in P |-> tape[i].size]
<1>1. Len(tape) \in Nat
  BY DEF PaperTypeOK
<1>2. IsFiniteSet(P)
  <2>1. IsFiniteSet(1..Len(tape))
    BY <1>1, FS_Interval
  <2>2. QED
    BY <2>1, FS_Subset
<1>3. \A i \in P : w[i] \in Nat
  <2> TAKE i \in P
  <2>0. i \in 1..Len(tape) /\ tape \in Seq([ts : Nat, size : PrintSizes])
    BY DEF PaperTypeOK
  <2>1. tape[i] \in [ts : Nat, size : PrintSizes]
    BY <2>0, ElementOf
  <2>2. QED
    BY <2>1, PaperConstants
<1>4. Volume(P) = SumFunctionOnSet(w, P)
  BY <1>2, VolumeIsSum
<1> HIDE DEF w
<1>5. QED
  BY <1>2, <1>3, <1>4, SumNat

\* What a volume of prints makes of an order: it goes to the queue first, and then to the
\* order, which keeps its id and side and loses what it is filled with (fills_for).
LEMMA FillIs ==
  ASSUME NEW o \in OrderRecs, Drained(o), NEW vol \in Nat, NEW n, n = fills_for(o, vol)
  PROVE  /\ n \in OrderRecs /\ Drained(n) /\ n.id = o.id /\ n.side = o.side
         /\ n.filled - o.filled \in Nat /\ n.filled - o.filled <= o.size
         /\ n.size = o.size - (n.filled - o.filled) /\ n.queue_ahead <= o.queue_ahead
<1> DEFINE d == Smaller(o.queue_ahead, vol)
           q == Smaller(o.size, vol - d)
<1>1. /\ o.size \in Nat /\ o.queue_ahead \in Nat /\ o.ahead \in Nat /\ o.volume \in Nat
      /\ o.filled \in Nat /\ o.id \in Oids /\ o.side \in Sides
  BY DEF OrderRecs
<1>2. d \in Nat /\ d <= o.queue_ahead /\ d <= vol /\ (d = o.queue_ahead \/ d = vol)
  BY <1>1 DEF Smaller
<1> HIDE DEF d
<1>3. q \in Nat /\ q <= o.size /\ q <= vol - d
  BY <1>1, <1>2 DEF Smaller
<1> HIDE DEF q
<1>4. /\ n.id = o.id /\ n.side = o.side /\ n.ahead = o.ahead
      /\ n.size = o.size - q /\ n.queue_ahead = o.queue_ahead - d
      /\ n.volume = o.volume + vol /\ n.filled = o.filled + q
  BY DEF fills_for, OrderRecs, d, q
<1>5. n = [id |-> n.id, side |-> n.side, size |-> n.size, queue_ahead |-> n.queue_ahead,
           ahead |-> n.ahead, volume |-> n.volume, filled |-> n.filled]
  BY DEF fills_for, OrderRecs
<1>6. n.size \in Nat /\ n.queue_ahead \in Nat /\ n.volume \in Nat /\ n.filled \in Nat
  BY <1>1, <1>2, <1>3, <1>4
<1>7. n \in OrderRecs
  BY <1>1, <1>4, <1>5, <1>6 DEF OrderRecs
<1>8. Drained(n)
  BY <1>1, <1>2, <1>3, <1>4 DEF Drained
<1>9. QED
  BY <1>1, <1>2, <1>3, <1>4, <1>7, <1>8

\* The same of a synthetic print, to which no queue is ahead.
LEMMA PaperFillIs ==
  ASSUME NEW o \in OrderRecs, Drained(o), o.queue_ahead = 0, NEW size \in Nat
  PROVE  LET n == PaperFill(o, size)
         IN  /\ n \in OrderRecs /\ Drained(n) /\ n.id = o.id /\ n.side = o.side
             /\ Taken(o, size) \in Nat /\ Taken(o, size) <= o.size
             /\ n.size = o.size - Taken(o, size) /\ n.queue_ahead = 0
<1> DEFINE q == Taken(o, size)
           n == PaperFill(o, size)
<1>0. n = PaperFill(o, size)
  OBVIOUS
<1> HIDE DEF n
<1>1. /\ o.size \in Nat /\ o.queue_ahead \in Nat /\ o.ahead \in Nat /\ o.volume \in Nat
      /\ o.filled \in Nat /\ o.id \in Oids /\ o.side \in Sides
  BY DEF OrderRecs
<1>2. q \in Nat /\ q <= o.size /\ q <= size
  BY <1>1 DEF Taken, Smaller
<1> HIDE DEF q
<1>3. /\ n.id = o.id /\ n.side = o.side /\ n.ahead = o.ahead /\ n.queue_ahead = o.queue_ahead
      /\ n.size = o.size - q /\ n.volume = o.volume + size /\ n.filled = o.filled + q
  BY <1>0 DEF PaperFill, OrderRecs, q
<1>4. n = [id |-> n.id, side |-> n.side, size |-> n.size, queue_ahead |-> n.queue_ahead,
           ahead |-> n.ahead, volume |-> n.volume, filled |-> n.filled]
  BY <1>0 DEF PaperFill, OrderRecs
<1>5. n.size \in Nat /\ n.volume \in Nat /\ n.filled \in Nat
  BY <1>1, <1>2, <1>3
<1>6. n \in OrderRecs
  BY <1>1, <1>3, <1>4, <1>5 DEF OrderRecs
<1>7. Drained(n)
  BY <1>1, <1>2, <1>3 DEF Drained
<1>8. QED
  BY <1>2, <1>3, <1>6, <1>7 DEF q, n
-----------------------------------------------------------------------------
LEMMA QuotingInvInit == QuoteInit => QuotingInv
<1> SUFFICES ASSUME QuoteInit PROVE QuotingInv
  OBVIOUS
<1> USE DEF QuoteInit, PaperInit
<1>1. PaperTypeOK
  <2>1. tape \in Seq([ts : Nat, size : PrintSizes]) /\ Len(tape) = 0
    OBVIOUS
  <2>2. reads \in [1..MaxPrints -> Nat]
    OBVIOUS
  <2>3. QED
    BY <2>1, <2>2, PaperConstants DEF PaperTypeOK
<1>2. TapeInv
  BY DEF TapeInv, ReadOnce
<1>3. NoStrayOrders /\ PositionBounded
  BY PaperConstants DEF NoStrayOrders, PositionBounded, Absolute
<1>4. QED
  BY <1>1, <1>2, <1>3 DEF QuotingInv

\* The exchange adds trades and shows them; what was read stays as it was.
LEMMA ExchangeKeeps ==
  ASSUME QuotingInv, adapter = "paper-live", Exchange, UNCHANGED loopVars
  PROVE  QuotingInv'
<1> USE DEF QuotingInv, loopVars
<1>1. UNCHANGED <<last_ts, batch, orders, full, reads, loopVars>>
  BY DEF Exchange, Second, Trade, Publish
<1>2. NoStrayOrders' /\ PositionBounded'
  BY <1>1 DEF NoStrayOrders, PositionBounded
<1>3. Len(tape) \in Nat /\ now \in Nat
  BY DEF PaperTypeOK
<1>4. CASE Second
  <2>1. now' = now + 1 /\ UNCHANGED <<tape, published>>
    BY <1>4 DEF Second
  <2>2. \A i \in 1..Len(tape) : tape[i].ts \in Nat /\ tape[i].ts <= now
    <3>1. ASSUME NEW i \in 1..Len(tape) PROVE tape[i] \in [ts : Nat, size : PrintSizes]
      BY <3>1, ElementOf DEF PaperTypeOK
    <3>2. QED
      BY <3>1 DEF PaperTypeOK
  <2>3. PaperTypeOK'
    BY <1>1, <1>3, <2>1, <2>2 DEF PaperTypeOK
  <2>4. TapeInv'
    BY <1>1, <2>1 DEF TapeInv, ReadOnce
  <2>5. QED
    BY <1>2, <2>3, <2>4
<1>5. ASSUME NEW size \in PrintSizes, Trade(size) PROVE QuotingInv'
  <2>1. /\ tape' = Append(tape, [ts |-> now, size |-> size]) /\ Len(tape) < MaxPrints
        /\ UNCHANGED <<now, published>>
    BY <1>5 DEF Trade
  <2>2. tape \in Seq([ts : Nat, size : PrintSizes]) /\ [ts |-> now, size |-> size] \in [ts : Nat, size : PrintSizes]
    BY <1>3 DEF PaperTypeOK
  <2>3. tape' \in Seq([ts : Nat, size : PrintSizes]) /\ Len(tape') = Len(tape) + 1
    BY <2>1, <2>2
  <2>4. \A i \in 1..Len(tape) : tape'[i] = tape[i]
    BY <2>1, <2>2
  <2>5. tape'[Len(tape) + 1] = [ts |-> now, size |-> size]
    BY <2>1, <2>2
  <2>6. \A i \in 1..Len(tape') : tape'[i].ts <= now'
    <3> TAKE i \in 1..Len(tape')
    <3>1. i \in 1..Len(tape) \/ i = Len(tape) + 1
      BY <1>3, <2>3
    <3>2. CASE i = Len(tape) + 1
      BY <1>3, <2>1, <2>5, <3>2
    <3>3. CASE i \in 1..Len(tape)
      BY <2>1, <2>4, <3>3 DEF PaperTypeOK
    <3>4. QED
      BY <3>1, <3>2, <3>3
  <2>7. published \subseteq 1..Len(tape) /\ published' \subseteq 1..Len(tape')
    BY <1>3, <2>1, <2>3 DEF PaperTypeOK
  <2>8. Len(tape') <= MaxPrints
    BY <1>3, <2>1, <2>3, PaperConstants
  <2>9. PaperTypeOK'
    BY <1>1, <2>1, <2>3, <2>6, <2>7, <2>8 DEF PaperTypeOK
  <2>10. TapeInv'
    BY <1>1, <2>1, <2>4, <2>7 DEF TapeInv, ReadOnce
  <2>11. QED
    BY <1>2, <2>9, <2>10
<1>6. ASSUME NEW i \in 1..MaxPrints, Publish(i) PROVE QuotingInv'
  <2>1. published' = published \cup {i} /\ i \in 1..Len(tape) /\ UNCHANGED <<now, tape>>
    BY <1>6 DEF Publish
  <2>2. PaperTypeOK'
    BY <1>1, <2>1 DEF PaperTypeOK
  <2>3. TapeInv'
    BY <1>1, <2>1 DEF TapeInv, ReadOnce
  <2>4. QED
    BY <1>2, <2>2, <2>3
<1>7. QED
  BY <1>4, <1>5, <1>6 DEF Exchange

\* The cursor moves to the newest trade that was read.
LEMMA ReadTapeIs ==
  ASSUME PaperTypeOK, ReadOnce, ReadTape
  PROVE  /\ last_ts' \in Nat /\ reads' \in [1..MaxPrints -> Nat] /\ ReadOnce'
         /\ batch' \subseteq published
<1> DEFINE prints == read_trades(last_ts)
           T == {tape[i].ts : i \in prints}
<1>1. /\ batch' = prints /\ last_ts' = (IF prints = {} THEN last_ts ELSE Max(T))
      /\ reads' = [i \in 1..MaxPrints |-> reads[i] + (IF i \in prints THEN 1 ELSE 0)]
      /\ tape' = tape /\ published' = published
  BY DEF ReadTape, market
<1>2. \A i \in published : i \in 1..Len(tape) /\ tape[i].ts \in Nat /\ tape[i].ts <= now
  <2> TAKE i \in published
  <2>1. i \in 1..Len(tape) /\ tape \in Seq([ts : Nat, size : PrintSizes])
    BY DEF PaperTypeOK
  <2>2. tape[i] \in [ts : Nat, size : PrintSizes]
    BY <2>1, ElementOf
  <2>3. QED
    BY <2>1, <2>2 DEF PaperTypeOK
<1>3. prints \subseteq published /\ \A i \in published : i \in prints <=> tape[i].ts > last_ts
  BY DEF read_trades
<1>4. \A i \in 1..MaxPrints : reads[i] \in Nat /\ reads'[i] \in Nat
  BY <1>1 DEF PaperTypeOK
<1>5. reads' \in [1..MaxPrints -> Nat]
  BY <1>1, <1>4
<1>6. last_ts \in Nat /\ last_ts' \in Nat /\ last_ts <= last_ts' /\ \A i \in prints : tape[i].ts <= last_ts'
  <2>1. last_ts \in Nat /\ now \in Nat
    BY DEF PaperTypeOK
  <2>2. CASE prints = {}
    BY <1>1, <2>1, <2>2
  <2>3. CASE prints # {}
    <3>1. T \in SUBSET Nat /\ T # {} /\ \A t \in T : t \in Nat /\ t <= now
      BY <1>2, <1>3, <2>3
    <3>2. \A t \in T : t > last_ts
      BY <1>3
    <3>3. \A i \in prints : tape[i].ts \in T
      OBVIOUS
    <3>4. last_ts' = Max(T)
      BY <1>1, <2>3
    <3> HIDE DEF T, prints
    <3>5. Max(T) \in T /\ \A t \in T : t <= Max(T)
      BY <2>1, <3>1, GreatestNatural
    <3>6. PICK m : m = Max(T)
      OBVIOUS
    <3>7. m \in Nat /\ m > last_ts
      BY <3>1, <3>2, <3>5, <3>6
    <3>8. \A i \in prints : tape[i].ts <= m
      BY <3>3, <3>5, <3>6
    <3>9. last_ts' = m
      BY <3>4, <3>6
    <3>10. QED
      BY <2>1, <3>7, <3>8, <3>9
  <2>4. QED
    BY <2>2, <2>3
<1>7. ReadOnce'
  <2> SUFFICES ASSUME NEW i \in 1..MaxPrints
               PROVE  reads'[i] = 0 \/ (reads'[i] = 1 /\ i \in published /\ tape[i].ts <= last_ts')
    BY <1>1 DEF ReadOnce
  <2>1. reads'[i] = reads[i] + (IF i \in prints THEN 1 ELSE 0)
    BY <1>1
  <2>2. reads[i] = 0 \/ (reads[i] = 1 /\ i \in published /\ tape[i].ts <= last_ts)
    BY DEF ReadOnce
  <2>3. CASE i \in prints
    <3>1. i \in published /\ tape[i].ts > last_ts /\ tape[i].ts \in Nat /\ tape[i].ts <= last_ts'
      BY <1>2, <1>3, <1>6, <2>3
    <3>2. reads[i] = 0
      BY <1>6, <2>2, <3>1
    <3>3. QED
      BY <2>1, <2>3, <3>1, <3>2
  <2>4. CASE i \notin prints
    <3>1. reads'[i] = reads[i]
      BY <1>4, <2>1, <2>4
    <3>2. i \in published => tape[i].ts \in Nat
      BY <1>2
    <3> HIDE DEF prints
    <3>3. QED
      BY <1>6, <2>2, <3>1, <3>2
  <2>5. QED
    BY <2>3, <2>4
<1>8. QED
  BY <1>1, <1>3, <1>5, <1>6, <1>7

LEMMA StepKeeps ==
  ASSUME QuotingInv, Step
  PROVE  QuotingInv'
<1> USE DEF QuotingInv, market
<1>1. UNCHANGED <<now, tape, published, orders, adapter, inventory, order_ids, pos_cap>> /\ full' = {}
  BY DEF Step, ReadTape, ReadTapeFails, SyntheticStep
<1>2. NoStrayOrders' /\ PositionBounded'
  BY <1>1 DEF NoStrayOrders, PositionBounded
<1>3. last_ts' \in Nat /\ reads' \in [1..MaxPrints -> Nat] /\ ReadOnce'
      /\ batch' \subseteq (IF adapter = "paper" THEN {1, 2} ELSE published)
      /\ (adapter = "paper" => todo' = {})
  <2>1. CASE adapter = "paper-live" /\ ReadTape
    BY <2>1, ReadTapeIs DEF TapeInv
  <2>2. CASE adapter = "paper-live" /\ ReadTapeFails
    <3>1. UNCHANGED <<last_ts, reads>> /\ batch' = {}
      BY <2>2 DEF ReadTapeFails
    <3>2. QED
      BY <1>1, <2>2, <3>1 DEF TapeInv, ReadOnce, PaperTypeOK
  <2>3. CASE adapter = "paper" /\ SyntheticStep /\ todo' = {}
    <3>1. batch' \in taker_prints /\ UNCHANGED <<last_ts, reads>>
      BY <2>3 DEF SyntheticStep
    <3>2. PICK n \in 0..2 : batch' = 1..n
      BY <3>1 DEF taker_prints
    <3>3. batch' \subseteq {1, 2}
      BY <3>2
    <3>4. QED
      BY <1>1, <2>3, <3>1, <3>3 DEF TapeInv, ReadOnce, PaperTypeOK
  <2>4. QED
    BY <2>1, <2>2, <2>3 DEF Step
<1>4. PaperTypeOK'
  BY <1>1, <1>3 DEF PaperTypeOK
<1>5. TapeInv'
  BY <1>1, <1>3 DEF TapeInv
<1>6. QED
  BY <1>2, <1>4, <1>5

\* A fill of one order moves the position by what the order loses, and the other order,
\* if there is one, is of the other side.
LEMMA FillKeepsPosition ==
  ASSUME PaperTypeOK, NoStrayOrders, PositionBounded,
         NEW o \in orders, NEW q \in Nat, q <= o.size,
         inventory' = inventory + Signed(o.side, q),
         \A p \in orders' : (p \in orders /\ p # o) \/ (p.side = o.side /\ p.size = o.size - q)
  PROVE  PositionBounded'
<1> DEFINE B == BaseCap + MaxSize
<1>0. B \in Nat /\ inventory \in Int /\ o.size \in Nat /\ o.side \in Sides
  BY PaperConstants DEF PaperTypeOK, OrderRecs
<1>1. ASSUME NEW p \in orders
      PROVE  p.size \in Nat /\ p.size > 0 /\ p.side \in Sides
             /\ Absolute(inventory + Signed(p.side, p.size)) < B
  <2>1. p \in OrderRecs /\ p.size > 0
    BY DEF PaperTypeOK
  <2>2. QED
    BY <2>1 DEF OrderRecs, PositionBounded
<1>2. Absolute(inventory) < B
  BY DEF PositionBounded
<1> HIDE DEF B
<1>3. /\ -B < inventory /\ inventory < B
      /\ \A p \in orders : p.side = "BUY" => inventory + p.size < B
      /\ \A p \in orders : p.side = "SELL" => inventory - p.size > -B
  <2>1. -B < inventory /\ inventory < B
    BY <1>0, <1>2 DEF Absolute
  <2>2. ASSUME NEW p \in orders, p.side = "BUY" PROVE inventory + p.size < B
    <3>1. Absolute(inventory + p.size) < B /\ p.size \in Nat
      BY <1>1, <2>2 DEF Signed
    <3>2. QED
      BY <1>0, <3>1 DEF Absolute
  <2>3. ASSUME NEW p \in orders, p.side = "SELL" PROVE inventory - p.size > -B
    <3>1. Absolute(inventory + (-p.size)) < B /\ p.size \in Nat
      BY <1>1, <2>3 DEF Signed
    <3>2. QED
      BY <1>0, <3>1 DEF Absolute
  <2>4. QED
    BY <2>1, <2>2, <2>3
<1>4. ASSUME NEW p \in orders, p # o PROVE p.side # o.side
  BY <1>4 DEF NoStrayOrders
<1>5. ASSUME NEW x \in Int, x < B, -B < x PROVE Absolute(x) < B
  BY <1>0, <1>5 DEF Absolute
<1>6. CASE o.side = "BUY"
  <2>1. inventory' = inventory + q /\ inventory + o.size < B
    BY <1>3, <1>6 DEF Signed
  <2>2. Absolute(inventory') < B
    BY <1>0, <1>3, <1>5, <2>1
  <2>3. ASSUME NEW p \in orders' PROVE Absolute(inventory' + Signed(p.side, p.size)) < B
    <3>1. CASE p \in orders /\ p # o
      <4>1. p.side = "SELL" /\ p.size \in Nat /\ inventory - p.size > -B
        BY <1>1, <1>3, <1>4, <1>6, <3>1 DEF Sides
      <4>2. Signed(p.side, p.size) = -p.size
        BY <4>1 DEF Signed
      <4>3. (inventory + q) + (-p.size) \in Int /\ (inventory + q) + (-p.size) < B
            /\ -B < (inventory + q) + (-p.size)
        BY <1>0, <2>1, <4>1
      <4>4. QED
        BY <1>5, <2>1, <4>2, <4>3
    <3>2. CASE p.side = o.side /\ p.size = o.size - q
      <4>1. Signed(p.side, p.size) = o.size - q
        BY <1>6, <3>2 DEF Signed
      <4>2. (inventory + q) + (o.size - q) \in Int /\ (inventory + q) + (o.size - q) < B
            /\ -B < (inventory + q) + (o.size - q)
        BY <1>0, <1>3, <2>1
      <4>3. QED
        BY <1>5, <2>1, <4>1, <4>2
    <3>3. QED
      BY <3>1, <3>2
  <2>4. QED
    BY <2>2, <2>3 DEF PositionBounded, B
<1>7. CASE o.side = "SELL"
  <2>1. inventory' = inventory + (-q) /\ inventory - o.size > -B
    BY <1>3, <1>7 DEF Signed
  <2>2. Absolute(inventory') < B
    BY <1>0, <1>3, <1>5, <2>1
  <2>3. ASSUME NEW p \in orders' PROVE Absolute(inventory' + Signed(p.side, p.size)) < B
    <3>1. CASE p \in orders /\ p # o
      <4>1. p.side = "BUY" /\ p.size \in Nat /\ inventory + p.size < B
        BY <1>1, <1>3, <1>4, <1>7, <3>1 DEF Sides
      <4>2. Signed(p.side, p.size) = p.size
        BY <4>1 DEF Signed
      <4>3. (inventory + (-q)) + p.size \in Int /\ (inventory + (-q)) + p.size < B
            /\ -B < (inventory + (-q)) + p.size
        BY <1>0, <2>1, <4>1
      <4>4. QED
        BY <1>5, <2>1, <4>2, <4>3
    <3>2. CASE p.side = o.side /\ p.size = o.size - q
      <4>1. Signed(p.side, p.size) = -(o.size - q)
        BY <1>7, <3>2 DEF Signed
      <4>2. (inventory + (-q)) + (-(o.size - q)) \in Int /\ (inventory + (-q)) + (-(o.size - q)) < B
            /\ -B < (inventory + (-q)) + (-(o.size - q))
        BY <1>0, <1>3, <2>1
      <4>3. QED
        BY <1>5, <2>1, <4>1, <4>2
    <3>3. QED
      BY <3>1, <3>2
  <2>4. QED
    BY <2>2, <2>3 DEF PositionBounded, B
<1>8. QED
  BY <1>0, <1>6, <1>7 DEF Sides

LEMMA SignedInt ==
  ASSUME NEW side, NEW q \in Int
  PROVE  Signed(side, q) \in Int
  BY DEF Signed

\* One order after a comparison with the tape.
LEMMA FillKeeps ==
  ASSUME QuotingInv, NEW o \in orders, Fill(o)
  PROVE  QuotingInv'
<1> USE DEF QuotingInv, market
<1>1. PICK prints, n :
        /\ prints \in SUBSET batch /\ n = fills_for(o, Volume(prints)) /\ Match(o, n, prints)
        /\ inventory' = inventory + Signed(o.side, n.filled - o.filled)
  BY DEF Fill
<1>2. adapter = "paper-live"
  BY DEF Fill, PaperTypeOK, Modes
<1>3. Volume(prints) \in Nat
  <2>1. prints \subseteq 1..Len(tape)
    BY <1>1, <1>2 DEF PaperTypeOK
  <2>2. QED
    BY <2>1, VolumeNat
<1>4. o \in OrderRecs /\ Drained(o)
  BY DEF PaperTypeOK, TapeInv
<1>5. /\ n \in OrderRecs /\ Drained(n) /\ n.id = o.id /\ n.side = o.side
      /\ n.filled - o.filled \in Nat /\ n.filled - o.filled <= o.size
      /\ n.size = o.size - (n.filled - o.filled)
  BY <1>1, <1>3, <1>4, FillIs
<1>6. /\ UNCHANGED <<now, tape, published, last_ts, reads, adapter, order_ids, pos_cap>>
      /\ batch' \subseteq batch /\ todo' \subseteq todo
      /\ \A p \in orders' : (p \in orders /\ p # o) \/ (p = n /\ n.size # 0)
      /\ \A p \in full' : p \in full \/ p = n
  BY <1>1 DEF Match, Fill
<1>7. n.size \in Nat
  BY <1>5 DEF OrderRecs
<1>8. PaperTypeOK'
  <2>1. inventory' \in Int
    BY <1>1, <1>5, SignedInt DEF PaperTypeOK
  <2>2. \A p \in orders' : p \in OrderRecs /\ p.size > 0
    BY <1>5, <1>6, <1>7 DEF PaperTypeOK
  <2>3. \A p \in full' : p \in OrderRecs
    BY <1>5, <1>6 DEF PaperTypeOK
  <2>4. QED
    BY <1>2, <1>6, <2>1, <2>2, <2>3 DEF PaperTypeOK
<1>9. TapeInv'
  <2>1. \A p \in orders' \cup full' : Drained(p)
    BY <1>5, <1>6 DEF TapeInv
  <2>2. ReadOnce'
    BY <1>6 DEF TapeInv, ReadOnce
  <2>3. QED
    BY <1>2, <1>6, <2>1, <2>2 DEF TapeInv
<1>10. NoStrayOrders'
  BY <1>5, <1>6 DEF NoStrayOrders
<1>11. PositionBounded'
  BY <1>1, <1>5, <1>6, FillKeepsPosition
<1>12. QED
  BY <1>8, <1>9, <1>10, <1>11

\* The sum over the orders a print hits: none, or the only one of its side.
LEMMA HitSum ==
  ASSUME NEW hit, IsFiniteSet(hit), NEW size,
         NEW w, w = [o \in hit |-> Signed(o.side, Taken(o, size))]
  PROVE  MapThenSumSet(LAMBDA o : Signed(o.side, Taken(o, size)), hit) = SumFunctionOnSet(w, hit)
<1> DEFINE F(o) == Signed(o.side, Taken(o, size))
           A(h) == h = [s \in SUBSET hit |-> IF s = {} THEN 0 ELSE F(Pick(s)) + h[s \ {Pick(s)}]]
<1>1. ASSUME NEW h PROVE Sums(w, hit, h) <=> A(h)
  <2>1. ASSUME NEW s \in SUBSET hit, s # {} PROVE w[Pick(s)] = F(Pick(s))
    BY <2>1, PickIn
  <2> HIDE DEF F
  <2>2. [s \in SUBSET hit |-> Folded(w, s, h)]
        = [s \in SUBSET hit |-> IF s = {} THEN 0 ELSE F(Pick(s)) + h[s \ {Pick(s)}]]
    BY <2>1 DEF Folded
  <2>3. QED
    BY <2>2 DEF Sums
<1>2. \E h : A(h)
  BY <1>1, SumsExist
<1> DEFINE C == CHOOSE h : A(h)
<1>3. A(C)
  BY <1>2
<1>4. MapThenSumSet(LAMBDA o : Signed(o.side, Taken(o, size)), hit) = C[hit]
  BY DEF MapThenSumSet, MapThenFoldSet, Pick
<1> HIDE DEF A, C
<1>5. Sums(w, hit, C)
  BY <1>1, <1>3
<1>6. PICK g : Sums(w, hit, g) /\ SumFunctionOnSet(w, hit) = g[hit]
  BY SumIs
<1>7. C[hit] = g[hit]
  BY <1>5, <1>6, SumsAgree
<1>8. QED
  BY <1>4, <1>6, <1>7

LEMMA PaperFillsKeep ==
  ASSUME QuotingInv, NEW side \in Sides, NEW size \in PrintSizes, PaperFills(side, size)
  PROVE  QuotingInv'
<1> USE DEF QuotingInv, market
<1>1. PICK hit \in SUBSET {o \in orders : o.side # side} :
        /\ TakerPrint(size, hit)
        /\ inventory' = inventory + MapThenSumSet(LAMBDA o : Signed(o.side, Taken(o, size)), hit)
  BY DEF PaperFills
<1>2. size \in Nat /\ adapter = "paper" /\ todo = {}
  BY PaperConstants DEF PaperFills, PaperTypeOK
<1>3. /\ UNCHANGED <<now, tape, published, last_ts, reads, adapter, todo, order_ids, pos_cap>>
      /\ batch' \subseteq batch
      /\ orders' = (orders \ hit) \cup {p \in {PaperFill(o, size) : o \in hit} : p.size # 0}
      /\ full' = full \cup {p \in {PaperFill(o, size) : o \in hit} : p.size = 0}
  BY <1>1 DEF TakerPrint, PaperFills
<1>4. CASE hit = {}
  <2>1. UNCHANGED <<orders, full>>
    BY <1>3, <1>4
  <2>2. MapThenSumSet(LAMBDA o : Signed(o.side, Taken(o, size)), hit) = 0
    <3> DEFINE w == [o \in hit |-> Signed(o.side, Taken(o, size))]
    <3>1. IsFiniteSet(hit)
      BY <1>4, FS_EmptySet
    <3>2. MapThenSumSet(LAMBDA o : Signed(o.side, Taken(o, size)), hit) = SumFunctionOnSet(w, hit)
      BY <3>1, HitSum
    <3>3. SumFunctionOnSet(w, {}) = 0
      BY SumEmpty
    <3>4. QED
      BY <1>4, <3>2, <3>3
  <2>3. inventory' = inventory
    BY <1>1, <2>2 DEF PaperTypeOK
  <2>4. PaperTypeOK'
    BY <1>3, <2>1, <2>3 DEF PaperTypeOK
  <2>5. TapeInv'
    BY <1>3, <2>1 DEF TapeInv, ReadOnce
  <2>6. NoStrayOrders' /\ PositionBounded'
    BY <1>3, <2>1, <2>3 DEF NoStrayOrders, PositionBounded
  <2>7. QED
    BY <2>4, <2>5, <2>6
<1>5. ASSUME NEW o \in hit PROVE QuotingInv'
  <2>1. hit = {o} /\ o \in orders
    BY <1>1, <1>5 DEF NoStrayOrders, PaperTypeOK, OrderRecs, Sides
  <2>2. PICK n : n = PaperFill(o, size)
    OBVIOUS
  <2>3. o \in OrderRecs /\ Drained(o) /\ o.queue_ahead = 0
    BY <1>2, <2>1 DEF PaperTypeOK, TapeInv
  <2>4. /\ n \in OrderRecs /\ Drained(n) /\ n.id = o.id /\ n.side = o.side
        /\ Taken(o, size) \in Nat /\ Taken(o, size) <= o.size
        /\ n.size = o.size - Taken(o, size) /\ n.queue_ahead = 0
    <3> DEFINE m == PaperFill(o, size)
    <3>1. /\ m \in OrderRecs /\ Drained(m) /\ m.id = o.id /\ m.side = o.side
          /\ Taken(o, size) \in Nat /\ Taken(o, size) <= o.size
          /\ m.size = o.size - Taken(o, size) /\ m.queue_ahead = 0
      BY <1>2, <2>3, PaperFillIs
    <3>2. n = m
      BY <2>2
    <3> HIDE DEF m
    <3>3. QED
      BY <3>1, <3>2
  <2>5. /\ \A p \in orders' : (p \in orders /\ p # o) \/ (p = n /\ n.size # 0)
        /\ \A p \in full' : p \in full \/ p = n
    BY <1>3, <2>1, <2>2
  <2>6. inventory' = inventory + Signed(o.side, Taken(o, size))
    <3> DEFINE w == [p \in hit |-> Signed(p.side, Taken(p, size))]
    <3>1. IsFiniteSet(hit)
      BY <2>1, FS_Singleton
    <3>2. MapThenSumSet(LAMBDA p : Signed(p.side, Taken(p, size)), hit) = SumFunctionOnSet(w, hit)
      BY <3>1, HitSum
    <3>3. w[o] = Signed(o.side, Taken(o, size)) /\ w[o] \in Int
      BY <2>4, SignedInt
    <3> HIDE DEF w
    <3>4. SumFunctionOnSet(w, {o}) = w[o]
      BY <3>3, SumSingleton
    <3>5. QED
      BY <1>1, <2>1, <3>2, <3>3, <3>4
  <2>7. n.size \in Nat
    BY <2>4 DEF OrderRecs
  <2>8. PaperTypeOK'
    <3>1. inventory' \in Int
      BY <2>4, <2>6, SignedInt DEF PaperTypeOK
    <3>2. \A p \in orders' : p \in OrderRecs /\ p.size > 0
      BY <2>4, <2>5, <2>7 DEF PaperTypeOK
    <3>3. \A p \in full' : p \in OrderRecs
      BY <2>4, <2>5 DEF PaperTypeOK
    <3>4. QED
      BY <1>3, <3>1, <3>2, <3>3 DEF PaperTypeOK
  <2>9. TapeInv'
    <3>1. \A p \in orders' \cup full' : Drained(p) /\ p.queue_ahead = 0
      BY <1>2, <2>4, <2>5 DEF TapeInv
    <3>2. ReadOnce'
      BY <1>3 DEF TapeInv, ReadOnce
    <3>3. QED
      BY <1>3, <3>1, <3>2 DEF TapeInv
  <2>10. NoStrayOrders'
    BY <1>3, <2>1, <2>4, <2>5 DEF NoStrayOrders
  <2>11. PositionBounded'
    BY <2>1, <2>4, <2>5, <2>6, FillKeepsPosition
  <2>12. QED
    BY <2>8, <2>9, <2>10, <2>11
<1>6. QED
  BY <1>4, <1>5

\* What the loop cancels is all that rests.
LEMMA NothingLeft == NoStrayOrders => Resting(order_ids) = {}
  BY DEF NoStrayOrders, Resting

LEMMA BoundedNear ==
  ASSUME NEW x \in Int, x < BaseCap + MaxSize, -(BaseCap + MaxSize) < x
  PROVE  Absolute(x) < BaseCap + MaxSize
  BY PaperConstants DEF Absolute

\* An exit pulls every order and takes no more off the position than it has.
LEMMA ExitKeeps ==
  ASSUME QuotingInv, NEW r \in 0..Absolute(inventory), Exit(r)
  PROVE  QuotingInv'
<1> USE DEF QuotingInv, market
<1>1. orders' = {} /\ UNCHANGED <<now, tape, published, last_ts, batch, full, reads, adapter, todo, pos_cap>>
      /\ inventory' = IF inventory > 0 THEN inventory - r ELSE inventory + r
  BY NothingLeft DEF Exit
<1>2. inventory \in Int /\ Absolute(inventory) < BaseCap + MaxSize
  BY DEF PaperTypeOK, PositionBounded
<1>3. Absolute(inventory) \in Nat /\ r \in Nat /\ r <= Absolute(inventory)
  BY <1>2 DEF Absolute
<1>4. inventory' \in Int /\ Absolute(inventory') <= Absolute(inventory)
  <2>1. CASE inventory > 0
    BY <1>1, <1>2, <1>3, <2>1 DEF Absolute
  <2>2. CASE ~(inventory > 0)
    BY <1>1, <1>2, <1>3, <2>2 DEF Absolute
  <2>3. QED
    BY <2>1, <2>2
<1>5. Absolute(inventory') < BaseCap + MaxSize
  <2>1. PICK x : x = Absolute(inventory')
    OBVIOUS
  <2>2. x \in Int
    BY <1>4, <2>1 DEF Absolute
  <2>3. x < BaseCap + MaxSize
    BY <1>2, <1>3, <1>4, <2>1, <2>2, PaperConstants
  <2>4. QED
    BY <2>1, <2>3
<1>6. PaperTypeOK'
  BY <1>1, <1>4 DEF PaperTypeOK
<1>7. TapeInv'
  BY <1>1 DEF TapeInv, ReadOnce
<1>8. NoStrayOrders' /\ PositionBounded'
  BY <1>1, <1>5 DEF NoStrayOrders, PositionBounded
<1>9. QED
  BY <1>6, <1>7, <1>8

\* A quote replaces every order by one for each side under the cap.
LEMMA QuoteKeeps ==
  ASSUME QuotingInv, NEW cap \in 0..pos_cap, NEW size \in SizesNow, NEW id \in FreshIds,
         NEW ahead \in queue_at, Quote(cap, size, id, ahead)
  PROVE  QuotingInv'
<1> USE DEF QuotingInv, market
<1>1. /\ orders' = {NewOrder(id[side], side, size, ahead) : side \in Quoted(cap)}
      /\ order_ids' = {id[side] : side \in Quoted(cap)}
      /\ pos_cap' = cap
      /\ UNCHANGED <<now, tape, published, last_ts, batch, full, reads, adapter, todo, inventory>>
  BY NothingLeft DEF Quote
<1>2. id \in [Sides -> Oids]
  BY DEF FreshIds
<1>3. size \in Nat /\ size > 0 /\ size <= MaxSize
  BY PaperConstants DEF SizesNow
<1>4. ahead \in Nat /\ (adapter = "paper" => ahead = 0)
  BY PaperConstants DEF queue_at
<1>5. cap \in Nat /\ cap <= BaseCap
  BY PaperConstants DEF PaperTypeOK
<1>6. ASSUME NEW p \in orders'
      PROVE  \E side \in Quoted(cap) :
               /\ p = NewOrder(id[side], side, size, ahead)
               /\ p.id = id[side] /\ p.side = side /\ p.size = size
               /\ p \in OrderRecs /\ Drained(p) /\ p.queue_ahead = ahead
  <2>1. PICK side \in Quoted(cap) : p = NewOrder(id[side], side, size, ahead)
    BY <1>1
  <2>2. side \in Sides /\ id[side] \in Oids
    BY <1>2 DEF Quoted
  <2>3. p \in OrderRecs
    BY <1>3, <1>4, <2>1, <2>2 DEF NewOrder, OrderRecs
  <2>4. Drained(p)
    BY <1>4, <2>1 DEF NewOrder, Drained
  <2>5. QED
    BY <2>1, <2>3, <2>4 DEF NewOrder
<1>7. PaperTypeOK'
  <2>1. \A p \in orders' : p \in OrderRecs /\ p.size > 0
    BY <1>3, <1>6
  <2>2. cap \in 0..BaseCap
    BY <1>5, PaperConstants
  <2>3. QED
    BY <1>1, <2>1, <2>2 DEF PaperTypeOK
<1>8. TapeInv'
  BY <1>1, <1>4, <1>6 DEF TapeInv, ReadOnce
<1>9. NoStrayOrders'
  BY <1>1, <1>6 DEF NoStrayOrders
<1>10. PositionBounded'
  <2>1. inventory \in Int /\ Absolute(inventory) < BaseCap + MaxSize
    BY DEF PaperTypeOK, PositionBounded
  <2>2. -(BaseCap + MaxSize) < inventory /\ inventory < BaseCap + MaxSize
    BY <2>1, PaperConstants DEF Absolute
  <2>3. ASSUME NEW p \in orders' PROVE Absolute(inventory + Signed(p.side, p.size)) < BaseCap + MaxSize
    <3>1. p.side \in Quoted(cap) /\ p.size = size
      BY <1>6
    <3>2. CASE p.side = "BUY"
      <4>1. inventory < cap /\ Signed(p.side, p.size) = size
        BY <3>1, <3>2 DEF Quoted, Signed
      <4>2. inventory + size \in Int /\ inventory + size < BaseCap + MaxSize
            /\ -(BaseCap + MaxSize) < inventory + size
        BY <1>3, <1>5, <2>1, <2>2, <4>1, PaperConstants
      <4>3. QED
        BY <4>1, <4>2, BoundedNear
    <3>3. CASE p.side = "SELL"
      <4>1. inventory > -cap /\ Signed(p.side, p.size) = -size
        BY <3>1, <3>3 DEF Quoted, Signed
      <4>2. inventory + (-size) \in Int /\ inventory + (-size) < BaseCap + MaxSize
            /\ -(BaseCap + MaxSize) < inventory + (-size)
        BY <1>3, <1>5, <2>1, <2>2, <4>1, PaperConstants
      <4>3. QED
        BY <4>1, <4>2, BoundedNear
    <3>4. QED
      BY <3>1, <3>2, <3>3 DEF Quoted, Sides
  <2>4. QED
    BY <1>1, <2>1, <2>3 DEF PositionBounded
<1>11. QED
  BY <1>7, <1>8, <1>9, <1>10

LEMMA QuotingInvNext == QuotingInv /\ [QuoteNext]_quotingVars => QuotingInv'
<1> SUFFICES ASSUME QuotingInv, [QuoteNext]_quotingVars PROVE QuotingInv'
  OBVIOUS
<1>1. CASE UNCHANGED <<now, tape, published, last_ts, orders, full, reads, adapter, inventory, order_ids, pos_cap>>
           /\ batch' \subseteq batch /\ todo' = todo
  <2>1. PaperTypeOK'
    BY <1>1 DEF QuotingInv, PaperTypeOK
  <2>2. TapeInv'
    BY <1>1 DEF QuotingInv, TapeInv, ReadOnce
  <2>3. NoStrayOrders' /\ PositionBounded'
    BY <1>1 DEF QuotingInv, NoStrayOrders, PositionBounded
  <2>4. QED
    BY <2>1, <2>2, <2>3 DEF QuotingInv
<1>2. CASE StepDone \/ Hold \/ UNCHANGED quotingVars
  BY <1>1, <1>2 DEF StepDone, Hold, quotingVars, paperVars, loopVars, market
<1>3. CASE quote_tick
  BY <1>2, <1>3, ExitKeeps, QuoteKeeps DEF quote_tick
<1>4. QED
  BY <1>2, <1>3, ExchangeKeeps, StepKeeps, FillKeeps, PaperFillsKeep DEF QuoteNext

LEMMA QuotingInvAlways == QuoteSpec => []QuotingInv
  BY QuotingInvInit, QuotingInvNext, PTL DEF QuoteSpec

(* Every order that rests is one the loop can cancel, and one of each side *)
(* at most, through exits, holds, partial fills and either adapter.        *)
THEOREM NoOrderLeftBehind == QuoteSpec => []NoStrayOrders
<1>1. QuotingInv => NoStrayOrders
  BY DEF QuotingInv
<1>2. QED
  BY <1>1, QuotingInvAlways, PTL

(* The position with all that rests on one side passes the base cap by     *)
(* less than one order, whatever fills while the cap shrinks, for any cap  *)
(* and order sizes.                                                        *)
THEOREM PositionStaysBounded == QuoteSpec => []PositionBounded
<1>1. QuotingInv => PositionBounded
  BY DEF QuotingInv
<1>2. QED
  BY <1>1, QuotingInvAlways, PTL

(* The fills of the paper adapters are honest: no order is filled before   *)
(* the depth ahead of it is, and no trade is compared with the orders      *)
(* twice, for tapes of any length and any delay.                           *)
THEOREM FillsStayHonest == QuoteSpec => []TapeFillsHonest
<1>1. QuotingInv => TapeFillsHonest
  <2> SUFFICES ASSUME QuotingInv PROVE TapeFillsHonest
    OBVIOUS
  <2>1. ASSUME NEW o \in orders \cup full, o.filled > 0 PROVE o.filled + o.ahead <= o.volume
    <3>1. Drained(o) /\ o \in OrderRecs
      BY DEF QuotingInv, TapeInv, PaperTypeOK
    <3>2. QED
      BY <2>1, <3>1 DEF Drained, OrderRecs
  <2>2. \A i \in 1..MaxPrints : reads[i] <= 1
    BY DEF QuotingInv, TapeInv, ReadOnce
  <2>3. QED
    BY <2>1, <2>2 DEF TapeFillsHonest
<1>2. QED
  BY <1>1, QuotingInvAlways, PTL
=============================================================================
