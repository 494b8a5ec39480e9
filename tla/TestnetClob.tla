---------------------------- MODULE TestnetClob ----------------------------
(***************************************************************************)
(* The keeper's adapter execution/testnet_clob.py on one managed market:   *)
(* quotes buffered by place, collapsed and debounced by _flush_quotes into *)
(* one postQuote, signed and watched by execution/testnet_chain.py send,   *)
(* with the snapshot cache they read through, against the contract of      *)
(* PolyLambdaMarket while users trade on it.                               *)
(*                                                                         *)
(* The engine's transactions share one account: a transaction that is sent *)
(* while an older one is still unmined takes its nonce and is refused.  So *)
(* at most one is on the wire; it may be mined, or dropped, long after the *)
(* keeper stopped waiting for it.                                          *)
(*                                                                         *)
(* Time is left out: whether the cached snapshot is within its TTL (or the *)
(* read failed, which serves it at any age), and whether the standing      *)
(* quote is older than max_quote_age_s, is chosen anew at every use.       *)
(***************************************************************************)
EXTENDS PolyLambdaMarket

CONSTANTS
  Sides,            \* what a tick places: [buy, sell : price or None, size]
  None,             \* a side the position cap left out; also "no record"
  PriceTick,        \* TESTNET_MICRO tick_size
  MinDelta,         \* min_requote_delta
  MaxTradeCap,      \* max_trade_cap
  Collateral,       \* USDC the market is deployed with
  FirstQuote,       \* the quote it is deployed with
  Trades            \* bounds the shares users ever buy

ASSUME PriceAssumption ==
  /\ PriceTick \in 1..(ONE - 1) /\ MinDelta \in Nat
  /\ MaxTradeCap \in 0..MaxUint
\* _tick_round and the post-only check of tick keep a quote one tick off either end of
\* the scale, and its sides apart.
ASSUME SidesAssumption ==
  \A s \in Sides :
    /\ s.size \in Nat
    /\ s.buy = None \/ s.buy \in PriceTick..(ONE - 2 * PriceTick)
    /\ s.sell = None \/ s.sell \in (2 * PriceTick)..(ONE - PriceTick)
    /\ s.buy # None \/ s.sell # None
    /\ s.buy # None /\ s.sell # None => s.buy < s.sell
ASSUME FirstQuoteAssumption ==
  /\ FirstQuote \in [bid : 0..ONE, ask : 0..ONE, size : 0..MaxUint]
  /\ FirstQuote.bid < FirstQuote.ask
  /\ FirstQuote.size <= Collateral
ASSUME ClobBounds == {Collateral, Trades} \subseteq Nat /\ Collateral <= InitialUSDC[Engine]

VARIABLES
  snap,             \* _snap_cache entry of the market, or None
  pending,          \* the buffered sides, or None when not dirty
  last_posted,      \* [bid, ask, size]
  sending,          \* where _send is: "no", "send", "resend", "wait"
  tx,               \* the transaction being sent or waited for
  wire,             \* the engine's unmined transaction, or None
  receipt,          \* of tx, once mined: "none", "ok", "reverted"
  breaker,          \* the governor's error breaker is open
  bought,           \* history: shares users bought
  backedBy,         \* history: `bought' when the snapshot behind the standing quote was read
  doubt             \* history: a postQuote got away unconfirmed since the last confirmed one

contract == <<quoteVars, flagVars, shareVars, moneyVars>>
sendVars == <<sending, tx, receipt>>
book == <<snap, pending, last_posted>>
ghosts == <<bought, backedBy, doubt>>
clobVars == <<book, sendVars, wire, breaker, ghosts>>
allVars == <<contract, clobVars>>

Standing == [bid |-> yesBid, ask |-> yesAsk, size |-> maxTrade]
NoStanding == [bid |-> 0, ask |-> 0, size |-> 0]

ClobInit ==
  /\ usdc = [InitialUSDC EXCEPT ![Engine] = @ - Collateral] /\ escrow = Collateral
  /\ yesBid = FirstQuote.bid /\ yesAsk = FirstQuote.ask /\ maxTrade = FirstQuote.size
  /\ disputed = FALSE /\ resolved = FALSE /\ yesWon = FALSE
  /\ yesShares = [u \in Users |-> 0] /\ totalYes = 0
  /\ snap = None /\ pending = None /\ last_posted = Standing
  /\ sending = "no" /\ tx = None /\ wire = None /\ receipt = "none"
  /\ breaker = FALSE
  /\ bought = 0 /\ backedBy = 0 /\ doubt = FALSE
-----------------------------------------------------------------------------
(* _try_snapshot: a read of the chain, or the cached one.                  *)
Snapshot == [room |-> escrow - totalYes, disputed |-> disputed, resolved |-> resolved,
             bought |-> bought]

Snapshots == {Snapshot} \cup (IF snap = None THEN {} ELSE {snap})

\* One more error for the governor, and maybe the one that opens its breaker.
Fails == breaker' \in {breaker, TRUE}

\* A failed read serves the cache at any age.
ReadFails ==
  /\ Fails
  /\ UNCHANGED <<contract, book, sendVars, wire, ghosts>>

\* get_book, called by the loop's ticks, the marks and the status of the webapp.
get_book ==
  /\ snap' = Snapshot
  /\ UNCHANGED <<contract, pending, last_posted, sendVars, wire, breaker, ghosts>>

(* A tick of the loop on a book that is not empty: place for one or both   *)
(* sides.  cancel changes nothing.                                         *)
place(sides) ==
  /\ sending = "no"
  /\ \E s \in Snapshots : ~s.resolved /\ snap' = s
  /\ pending' = sides
  /\ UNCHANGED <<contract, last_posted, sendVars, wire, breaker, ghosts>>
-----------------------------------------------------------------------------
(* _flush_quotes.                                                          *)
Least(a, b) == IF a < b THEN a ELSE b

\* The pending sides as one quote, sized by what the snapshot leaves redeemable.
\* (Defective variants of an operation are named after it; no specification uses them.)

Collapse_unbounded(sides, s) ==
  [bid  |-> IF sides.buy = None THEN PriceTick ELSE sides.buy,
   ask  |-> IF sides.sell = None THEN ONE - PriceTick ELSE sides.sell,
   size |-> Least(sides.size, MaxTradeCap)]

Collapse(sides, s) ==
  [bid  |-> IF sides.buy = None THEN PriceTick ELSE sides.buy,
   ask  |-> IF sides.sell = None THEN ONE - PriceTick ELSE sides.sell,
   size |-> Least(Least(sides.size, MaxTradeCap), s.room)]

Distance(a, b) == IF a < b THEN b - a ELSE a - b

Moved_pricesOnly(q) ==              \* a change of size alone is not a move
  \/ Distance(q.bid, last_posted.bid) >= MinDelta
  \/ Distance(q.ask, last_posted.ask) >= MinDelta

Moved(q) ==
  \/ Distance(q.bid, last_posted.bid) >= MinDelta
  \/ Distance(q.ask, last_posted.ask) >= MinDelta
  \/ q.size # last_posted.size

Requote_ageless(q, stale) == Moved(q)

Requote(q, stale) == Moved(q) \/ stale

Start(t) == sending' = "send" /\ tx' = t /\ receipt' = "none"
Post(q, s) == [kind |-> "postQuote", quote |-> q, bought |-> s.bought]
Flag == [kind |-> "flagDispute"]

_flush_quotes ==
  /\ sending = "no" /\ pending # None
  /\ pending' = None
  /\ \E s \in Snapshots, stale \in BOOLEAN :
       LET q == Collapse(pending, s)
           live == ~s.resolved /\ q.size > 0
       IN  /\ snap' = s
           /\ \/ /\ live /\ Requote(q, stale) /\ q.bid < q.ask
                 /\ Start(Post(q, s))
              \/ /\ ~live \/ ~Requote(q, stale) \/ q.bid >= q.ask
                 /\ UNCHANGED sendVars
  /\ UNCHANGED <<contract, last_posted, wire, breaker, bought, backedBy, doubt>>

\* The read failed and nothing is cached: the pending sides are dropped.
FlushBlind ==
  /\ sending = "no" /\ pending # None /\ snap = None
  /\ pending' = None
  /\ Fails
  /\ UNCHANGED <<contract, snap, last_posted, sendVars, wire, bought, backedBy, doubt>>

\* flag_dispute_for, from the log of a proposal exit.
flag_dispute_for ==
  /\ sending = "no"
  /\ \E s \in Snapshots : ~s.disputed /\ ~s.resolved /\ snap' = s
  /\ Start(Flag)
  /\ UNCHANGED <<contract, pending, last_posted, wire, breaker, ghosts>>
-----------------------------------------------------------------------------
(* _send and the signer's send.                                            *)
Done == sending' = "no" /\ tx' = None /\ receipt' = "none"

Unconfirmed == doubt' = (doubt \/ tx.kind = "postQuote")

\* allow_tx refuses: the breaker, or any other limit of the governor.
Denied ==
  /\ sending = "send"
  /\ Done
  /\ UNCHANGED <<contract, book, wire, breaker, ghosts>>

\* The node takes the transaction, and answers or not.  When it does not, the
\* copy that is sent next is refused: "already known" or "nonce too low".
Broadcast ==
  /\ sending = "send" /\ ~breaker /\ wire = None
  /\ wire' = tx
  /\ \/ sending' = "wait" /\ UNCHANGED doubt
     \/ sending' = "resend" /\ Unconfirmed
  /\ UNCHANGED <<contract, book, tx, receipt, breaker, bought, backedBy>>

\* A nonce race is retried once on the nonce of the moment.  That is a new one
\* when the first copy has been mined: the same call goes out twice.
Resend ==
  /\ sending = "resend" /\ wire = None
  /\ wire' = tx /\ sending' = "wait"
  /\ UNCHANGED <<contract, book, tx, receipt, breaker, ghosts>>

\* An error from the node; with an older transaction on the wire always.
SendFails ==
  /\ sending \in {"send", "resend"}
  /\ Done /\ Fails
  /\ UNCHANGED <<contract, book, wire, ghosts>>

ReceiptLost_assumed ==              \* an unanswered transaction is taken for posted
  /\ sending = "wait"
  /\ last_posted' = IF tx.kind = "postQuote" THEN tx.quote ELSE last_posted
  /\ Done /\ Fails
  /\ UNCHANGED <<contract, snap, pending, wire, ghosts>>

\* A read error of the node, a timeout of 180 s: the transaction stays out there.
ReceiptLost ==
  /\ sending = "wait"
  /\ Unconfirmed
  /\ Done /\ Fails
  /\ UNCHANGED <<contract, book, wire, bought, backedBy>>

Reverted ==
  /\ sending = "wait" /\ receipt = "reverted"
  /\ Done /\ Fails
  /\ UNCHANGED <<contract, book, wire, ghosts>>

Confirmed ==
  /\ sending = "wait" /\ receipt = "ok"
  /\ IF tx.kind = "postQuote"
     THEN last_posted' = tx.quote /\ doubt' = FALSE
     ELSE UNCHANGED <<last_posted, doubt>>
  /\ snap' = None /\ breaker' = FALSE
  /\ Done
  /\ UNCHANGED <<contract, pending, wire, bought, backedBy>>
-----------------------------------------------------------------------------
(* The chain.                                                              *)
Runs(t) == t.kind = "flagDispute" \/ ~resolved

Mined ==
  /\ wire # None
  /\ \/ /\ wire.kind = "flagDispute" /\ flagDispute /\ UNCHANGED backedBy
     \/ /\ wire.kind = "postQuote"
        /\ postQuote(wire.quote.bid, wire.quote.ask, wire.quote.size)
        /\ backedBy' = wire.bought
     \/ ~Runs(wire) /\ UNCHANGED <<contract, backedBy>>
  /\ wire' = None
  /\ receipt' = IF sending # "wait" THEN receipt ELSE IF Runs(wire) THEN "ok" ELSE "reverted"
  /\ UNCHANGED <<book, sending, tx, breaker, bought, doubt>>

Dropped ==
  /\ wire # None
  /\ wire' = None
  /\ UNCHANGED <<contract, book, sendVars, breaker, ghosts>>

Buys(u, size) ==
  /\ bought + size <= Trades
  /\ buyYes(u, size)
  /\ bought' = bought + size
  /\ UNCHANGED <<book, sendVars, wire, breaker, backedBy, doubt>>

Sells(u, size) == sellYes(u, size) /\ UNCHANGED clobVars

\* The operator's own transaction (a market is funded once, when it is deployed).
Resolves(outcome) == resolve(outcome) /\ UNCHANGED clobVars
-----------------------------------------------------------------------------
(* The keeper dies and another one starts.  Its standing quote is seeded   *)
(* from the chain ("so a keeper restart doesn't re-sign an identical one") *)
(* while a transaction of the old one may still be on the wire.            *)
Restart ==
  /\ Done /\ pending' = None /\ breaker' = FALSE
  /\ \/ snap' = Snapshot /\ last_posted' = Standing
        /\ doubt' = (wire # None /\ wire.kind = "postQuote")
     \/ snap' = None /\ last_posted' = NoStanding /\ doubt' = TRUE
  /\ UNCHANGED <<contract, wire, bought, backedBy>>
-----------------------------------------------------------------------------
SendStep == Denied \/ Broadcast \/ Resend \/ SendFails \/ ReceiptLost \/ Reverted \/ Confirmed

KeeperStep ==
  \/ ReadFails \/ get_book
  \/ \E sides \in Sides : place(sides)
  \/ _flush_quotes \/ FlushBlind \/ flag_dispute_for
  \/ SendStep

ChainStep ==
  \/ Mined \/ Dropped
  \/ \E outcome \in BOOLEAN : Resolves(outcome)
  \/ \E u \in Users, size \in 1..MaxUint : Buys(u, size) \/ Sells(u, size)

ClobNext == KeeperStep \/ ChainStep \/ Restart

ClobSpec == ClobInit /\ [][ClobNext]_allVars

(* A send ends (every wait has a timeout) and the keeper keeps ticking.    *)
(* The rest is the environment: standing quotes age, and the governor that *)
(* admits sends, the node that takes them, the chain that mines them in    *)
(* time and the node that is asked for receipts do not fail the keeper     *)
(* every time.                                                             *)
FairClobSpec ==
  /\ ClobSpec
  /\ WF_allVars(SendStep)
  /\ SF_allVars(\E sides \in Sides : place(sides))
  /\ SF_allVars(_flush_quotes /\ sending' = "send")
  /\ SF_allVars(Broadcast /\ sending' = "wait")
  /\ WF_allVars(Mined) /\ SF_allVars(Mined /\ sending = "wait")
  /\ SF_allVars(Confirmed)
-----------------------------------------------------------------------------

(* The debounce compares with last_posted, so last_posted must be the      *)
(* quote users trade against: it is, unless a postQuote got away           *)
(* unconfirmed (a lost answer, a receipt timeout, a restart in mid-send)   *)
(* and none was confirmed since.                                           *)
StandingQuoteKnown == ~doubt /\ sending # "wait" => last_posted = Standing

(* A flush that signs nothing leaves users a quote within                 *)
(* min_requote_delta of what the loop wanted, and of the size it wanted,   *)
(* or it wanted none (nothing may be traded, the market is resolved).      *)
Near(q) ==
  /\ Distance(yesBid, q.bid) < MinDelta
  /\ Distance(yesAsk, q.ask) < MinDelta
  /\ maxTrade = q.size

DebounceKeepsWanted ==
  [][_flush_quotes /\ sending' = "no" /\ ~doubt =>
       \/ Near(Collapse(pending, snap'))
       \/ snap'.resolved \/ Collapse(pending, snap').size <= 0]_allVars

(* maxTrade is sized on a snapshot that may be old when the quote is mined *)
(* and older when users trade on it.  What was bought since that snapshot  *)
(* accounts for all that is missing from the collateral of the quote, so   *)
(* the first trade after the snapshot is always redeemable 1:1.            *)
QuoteBacked == ~resolved => escrow - totalYes + (bought - backedBy) >= maxTrade

(* testnet_clob.py:23: "worst-case YES win must stay redeemable 1:1".      *)
RedeemableAtYesWin == ~resolved => escrow >= totalYes

(* A quote in doubt is confirmed or replaced once the standing one is old  *)
(* (max_quote_age_s), unless the breaker opens, the market is resolved, or *)
(* no collateral is left to quote with.                                    *)
Stuck == breaker \/ resolved \/ escrow <= totalYes
DoubtEnds == <>[][~Restart]_allVars => (doubt ~> (~doubt \/ Stuck))
=============================================================================
