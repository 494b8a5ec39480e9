----------------------------- MODULE LiveOrders -----------------------------
(***************************************************************************)
(* The gated write path of execution/clob.py: place_order with its capital *)
(* reservation, the 429 back-off and the one INVALID_TICK retry,           *)
(* cancel_orders, and the wrap of USDC.e, against an exchange whose        *)
(* answers can be lost, behind the live gate of the process's environment. *)
(*                                                                         *)
(* One call runs at a time (the loop is single threaded and nothing else   *)
(* calls these functions); a step is what happens between two answers of   *)
(* the network.  Prices are integers in the finest tick and a notional is  *)
(* price times size in that unit.                                          *)
(***************************************************************************)
EXTENDS Integers

CONSTANTS Prices, Sizes,    \* what callers ask for
          Ticks,            \* tick sizes the exchange may use
          MinOrderSize,
          Cap,              \* MAX_CAPITAL_USDC
          Wraps,            \* amounts callers ask to wrap
          Sessions          \* bounds the process starts

ASSUME CapAssumption == Cap \in Nat \ {0}
ASSUME InputAssumption ==
  /\ Prices \subseteq Nat /\ Sizes \subseteq Nat
  /\ Ticks \subseteq Nat \ {0} /\ MinOrderSize \in Nat
  /\ Wraps \subseteq Int
ASSUME SessionsAssumption == Sessions \in Nat \ {0}

Attempts == 5               \* range(5) of the back-off loops

VARIABLES
  spent,                    \* _live_notional_spent
  accepted,                 \* notional the exchange took from this session
  resting,                  \* notional of the orders resting on the exchange
  tick,                     \* the exchange's tick size
  phase,                    \* where place_order is
  order,                    \* the order being placed, with the notional reserved for it
  attempt,                  \* of the back-off loop
  allowance,                \* what the onramp may still pull from the wallet
  wrapping,                 \* amount of the wrap under way, 0 if none
  env,                      \* what the process finds in its environment
  client,                   \* _client, built once: "none" or "made"
  sessions

process == <<env, client, sessions>>
exchange == <<accepted, resting, tick>>
call == <<phase, order, attempt>>
wallet == <<allowance, wrapping>>
liveVars == <<spent, exchange, call, wallet, process>>

\* The gate satisfied, not satisfied (MODE, the acknowledgement or the cap missing), or
\* satisfied but for a MAX_CAPITAL_USDC such as "nan".
Environments == {"live", "paper", "junk_cap"}

NoOrder == [side |-> "BUY", price |-> 0, size |-> 0, px |-> 0]

OrdersInit ==
  /\ spent = 0 /\ accepted = 0 /\ resting = 0 /\ tick \in Ticks
  /\ phase = "idle" /\ order = NoOrder /\ attempt = 0
  /\ allowance = 0 /\ wrapping = 0
  /\ env \in Environments /\ client = "none" /\ sessions = 1
-----------------------------------------------------------------------------
(* Post-only-safe rounding: a bid down, an ask up.                         *)
\* Defective variants of an operation are named after it; no specification uses them.

RoundToTick(price, t, side) ==
  IF side = "BUY" THEN (price \div t) * t ELSE ((price + t - 1) \div t) * t

Notional(o) == o.px * o.size

\* Every function of the write path starts with it.
_require_live_gate == env = "live"

\* A comparison with NaN is false.
OverCap(n) == env # "junk_cap" /\ n > Cap

idle == phase = "idle" /\ wrapping = 0

(* place_order up to the first send, and again from the re-read tick: the  *)
(* order is priced on the tick the client believes in, checked against the *)
(* cap and reserved before it is sent.                                     *)
Reserve_unchecked(o, next) ==       \* the cap is not checked
  /\ spent' = spent + Notional(o)
  /\ order' = o /\ attempt' = 0 /\ phase' = next

Reserve(o, next) ==
  /\ ~OverCap(spent + Notional(o))
  /\ spent' = spent + Notional(o)
  /\ order' = o /\ attempt' = 0 /\ phase' = next

place_order(side, price, size, t) ==
  /\ idle /\ _require_live_gate
  /\ size >= MinOrderSize
  /\ Reserve([side |-> side, price |-> price, size |-> size,
              px |-> RoundToTick(price, t, side)], "post")
  /\ UNCHANGED <<exchange, wallet, process>>

OnGrid == order.px % tick = 0

Posting == phase \in {"post", "repost"}
Sending == Posting /\ client = "made"
Return == phase' = "idle" /\ order' = NoOrder /\ attempt' = 0

\* The first send builds the client, the order being reserved by then.
_live_client ==
  /\ Posting /\ client = "none" /\ _require_live_gate
  /\ client' = "made"
  /\ UNCHANGED <<spent, exchange, call, wallet, env, sessions>>

\* The exchange takes the order.  The answer may be lost: place_order then
\* raises, and keeps the reservation just as if it had returned the order id.
Accepted_released ==                \* a lost answer releases the reservation
  /\ Sending /\ OnGrid
  /\ accepted' = accepted + Notional(order)
  /\ resting' = resting + Notional(order)
  /\ spent' \in {spent, spent - Notional(order)}
  /\ Return
  /\ UNCHANGED <<tick, wallet, process>>

Accepted ==
  /\ Sending /\ OnGrid
  /\ accepted' = accepted + Notional(order)
  /\ resting' = resting + Notional(order)
  /\ Return
  /\ UNCHANGED <<spent, tick, wallet, process>>

\* An error that is neither a 429 nor INVALID_TICK and left nothing on the
\* book (post-only would cross, a connection refused), or no client (no key, no
\* SDK, no credentials): reservation kept.
Failed ==
  /\ Posting
  /\ Return
  /\ UNCHANGED <<spent, exchange, wallet, process>>

RateLimited ==
  /\ Sending
  /\ IF attempt < Attempts - 1
     THEN attempt' = attempt + 1 /\ UNCHANGED <<phase, order>>
     ELSE Return
  /\ UNCHANGED <<spent, exchange, wallet, process>>

\* The one definite rejection: nothing rested, the reservation is released.
\* Only the first leads to a retry.
InvalidTick_endless ==              \* every rejection leads to a retry
  /\ Sending /\ ~OnGrid
  /\ spent' = spent - Notional(order)
  /\ phase' = "reread"
  /\ UNCHANGED <<order, attempt, exchange, wallet, process>>

InvalidTick ==
  /\ Sending /\ ~OnGrid
  /\ spent' = spent - Notional(order)
  /\ IF phase = "post"
     THEN phase' = "reread" /\ UNCHANGED <<order, attempt>>
     ELSE Return
  /\ UNCHANGED <<exchange, wallet, process>>

RereadTick ==
  /\ phase = "reread"
  /\ LET o == [order EXCEPT !.px = RoundToTick(order.price, tick, order.side)]
     IN  \/ Reserve(o, "repost")
         \/ OverCap(spent + Notional(o)) /\ Return /\ UNCHANGED spent
  /\ UNCHANGED <<exchange, wallet, process>>

\* The tick size is read over HTTP; when that fails the exception passes on.

RereadFails ==
  /\ phase = "reread"
  /\ Return
  /\ UNCHANGED <<spent, exchange, wallet, process>>

\* cancel_orders, when its back-off gets through: the reservation stays.  An
\* order also stops resting when it is filled or expires.
Unrest(n) ==
  /\ 0 < n /\ n <= resting
  /\ resting' = resting - n
  /\ UNCHANGED <<spent, accepted, tick, call, wallet, process>>

\* The exchange changes the tick (ticks tighten near 0 and 1).
TickMoves ==
  /\ tick' \in Ticks
  /\ UNCHANGED <<spent, accepted, resting, call, wallet, process>>
-----------------------------------------------------------------------------
(* wrap_usdce_to_pusd: approve when the allowance is short, then wrap.     *)
(* Either transaction can fail, and the call then ends there.              *)
wrap(amount) ==
  /\ idle /\ _require_live_gate
  /\ amount > 0 /\ ~OverCap(amount)
  /\ wrapping' = amount
  /\ UNCHANGED <<spent, exchange, call, allowance, process>>

Approve ==
  /\ wrapping > 0 /\ allowance < wrapping
  /\ allowance' = wrapping
  /\ UNCHANGED <<spent, exchange, call, wrapping, process>>

Wrapped ==
  /\ wrapping > 0 /\ allowance >= wrapping
  /\ allowance' = allowance - wrapping /\ wrapping' = 0
  /\ UNCHANGED <<spent, exchange, call, process>>

WrapFails ==
  /\ wrapping > 0
  /\ wrapping' = 0
  /\ UNCHANGED <<spent, exchange, call, allowance, process>>
-----------------------------------------------------------------------------
(* The process ends, in the middle of a call or not, and another starts.   *)
(* _live_notional_spent is a module variable: it starts from 0 again, and  *)
(* the orders of the session before stay on the book.                      *)
Restart ==
  /\ sessions < Sessions /\ sessions' = sessions + 1
  /\ spent' = 0 /\ accepted' = 0
  /\ Return
  /\ wrapping' = 0
  /\ env' \in Environments /\ client' = "none"
  /\ UNCHANGED <<resting, tick, allowance>>
-----------------------------------------------------------------------------
Answer == _live_client \/ Accepted \/ Failed \/ RateLimited \/ InvalidTick \/ RereadTick \/ RereadFails

WrapStep == Approve \/ Wrapped \/ WrapFails

OrdersNext ==
  \/ \E side \in {"BUY", "SELL"}, price \in Prices, size \in Sizes, t \in Ticks :
       place_order(side, price, size, t)
  \/ Answer
  \/ \E amount \in Wraps : wrap(amount)
  \/ WrapStep
  \/ \E n \in 1..resting : Unrest(n)
  \/ TickMoves
  \/ Restart

OrdersSpec == OrdersInit /\ [][OrdersNext]_liveVars

(* Every request is answered or times out (the SDK's HTTP client has       *)
(* timeouts), so a call that is under way goes on.                         *)
FairSpec == OrdersSpec /\ WF_liveVars(Answer) /\ WF_liveVars(WrapStep)
-----------------------------------------------------------------------------
Orders == [side : {"BUY", "SELL"}, price : Nat, size : Nat, px : Nat]

OrdersTypeOK ==
  /\ spent \in Nat /\ accepted \in Nat /\ resting \in Nat
  /\ tick \in Ticks
  /\ phase \in {"idle", "post", "reread", "repost"}
  /\ order \in Orders
  /\ attempt \in 0..(Attempts - 1)
  /\ allowance \in Nat /\ wrapping \in Nat
  /\ env \in Environments /\ client \in {"none", "made"} /\ sessions \in 1..Sessions

InFlight == IF Posting THEN Notional(order) ELSE 0

(* "Reserve against the cap BEFORE the send": what the exchange has taken  *)
(* and may still take from this session is reserved, and the reservations  *)
(* stay within MAX_CAPITAL_USDC - through lost answers, the release on a   *)
(* rejected tick and the retry at another price, and also when the         *)
(* environment's cap is no number (_require_live_gate).                    *)
ExposureReserved == accepted + InFlight <= spent /\ spent <= Cap

(* "Raised when the real-order path is invoked without the explicit        *)
(* live-mode gate" (LiveGateError): no client exists, no order is under    *)
(* way or taken, and no wrap begins, in a process that is not set up for   *)
(* it, whatever the sessions before it did.                                *)
NothingSentUngated ==
  env # "live" => phase = "idle" /\ accepted = 0 /\ wrapping = 0 /\ client = "none"

(* The price sent is on the maker's side of the price asked for, also      *)
(* after the tick changed under the order (clob.py _round_to_tick).        *)
MakerSidePrice ==
  Posting => IF order.side = "BUY" THEN order.px <= order.price ELSE order.px >= order.price

(* A wrap that failed between approve and wrap leaves an allowance behind; *)
(* however calls fail, it never exceeds the cap on one call.               *)
AllowanceWithinCap == allowance <= Cap

(* The exchange's view of a session implements the abstract bound.         *)
Capital == INSTANCE CapitalBound WITH exposure <- accepted
ImplementsCapitalBound == Capital!Spec

(* place_order ends whatever the exchange answers: five tries, one retry.  *)
CallsReturn == (phase # "idle") ~> (phase = "idle")
=============================================================================
