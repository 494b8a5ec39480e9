----------------------- MODULE TestnetClobProofs -----------------------
(***************************************************************************)
(* The market contract and the adapter that quotes on it, for any set of   *)
(* users, price scale, integer width, balances, prices and sizes: typing,  *)
(* the count of shares as a sum, and the two action properties of a closed *)
(* market; then that every step of keeper, chain and users is one          *)
(* transaction of the contract or leaves it alone, so that the managed     *)
(* market has all of these too; and what the keeper knows of its standing  *)
(* quote, and what backs it.                                               *)
(***************************************************************************)
EXTENDS TestnetClob, SumProofs, TLAPS

\* A cost or a proceed is a natural number (buyYes, sellYes).
LEMMA ValueNat ==
  ASSUME NEW size \in Nat, NEW price \in Nat
  PROVE  Value(size, price) \in Nat
<1>1. size * price \in Nat
  OBVIOUS
<1>2. \A n \in Nat : n \div ONE \in Nat
  BY OneAssumption
<1>3. QED
  BY <1>1, <1>2 DEF Value

\* What a deposit (transferFrom) does to the accounts.
LEMMA PullEffect ==
  ASSUME TypeOK, NEW a \in Accounts, NEW n \in Nat, Pull(a, n)
  PROVE  /\ usdc' \in [Accounts -> Nat] /\ escrow' \in Nat
         /\ usdc'[a] = usdc[a] - n
         /\ \A b \in Accounts : b # a => usdc'[b] = usdc[b]
  BY DEF TypeOK, Pull

\* What a payment (transfer) does to the accounts.
LEMMA PushEffect ==
  ASSUME TypeOK, NEW a \in Accounts, NEW n \in Nat, Push(a, n)
  PROVE  /\ usdc' \in [Accounts -> Nat] /\ escrow' \in Nat
         /\ usdc'[a] = usdc[a] + n
         /\ \A b \in Accounts : b # a => usdc'[b] = usdc[b]
  BY DEF TypeOK, Push

\* A redemption pays a natural number.
LEMMA PayoutNat ==
  ASSUME TypeOK, NEW u \in Users
  PROVE  (IF yesWon THEN yesShares[u] ELSE 0) \in Nat
  BY DEF TypeOK

LEMMA InitTypeOK == Init => TypeOK
<1> SUFFICES ASSUME Init PROVE TypeOK
  OBVIOUS
<1>1. usdc \in [Accounts -> Nat]
  BY FundsAssumption DEF Init, Accounts
<1>2. 0 \in 0..ONE /\ 0 \in 0..MaxUint
  BY OneAssumption, MaxUintAssumption
<1>3. yesShares \in [Users -> Nat]
  BY DEF Init
<1>4. QED
  BY <1>1, <1>2, <1>3 DEF Init, TypeOK

\* Every transaction keeps the types; in particular no balance, and not the
\* escrow, is ever overdrawn.
LEMMA NextTypeOK == TypeOK /\ [Next]_vars => TypeOK'
<1> SUFFICES ASSUME TypeOK, [Next]_vars PROVE TypeOK'
  OBVIOUS
<1> USE DEF quoteVars, flagVars, shareVars, moneyVars
<1>0. Engine \in Accounts /\ Users \subseteq Accounts /\ 0..MaxUint \subseteq Nat /\ 0..ONE \subseteq Nat
  BY OneAssumption, MaxUintAssumption DEF Accounts
<1>1. ASSUME NEW amount \in 0..MaxUint, fund(amount) PROVE TypeOK'
  <2>1. Pull(Engine, amount)
    BY <1>1 DEF fund
  <2>2. QED
    BY <1>0, <1>1, <2>1, PullEffect DEF fund, TypeOK
<1>2. ASSUME NEW amount \in 0..MaxUint, withdraw(amount) PROVE TypeOK'
  <2>1. Push(Engine, amount)
    BY <1>2 DEF withdraw
  <2>2. QED
    BY <1>0, <1>2, <2>1, PushEffect DEF withdraw, TypeOK
<1>3. ASSUME NEW bid \in 0..ONE, NEW ask \in 0..ONE, NEW size \in 0..MaxUint,
             postQuote(bid, ask, size)
      PROVE  TypeOK'
  BY <1>3 DEF postQuote, TypeOK
<1>4. CASE flagDispute
  BY <1>4 DEF flagDispute, TypeOK
<1>5. ASSUME NEW outcome \in BOOLEAN, resolve(outcome) PROVE TypeOK'
  BY <1>5 DEF resolve, TypeOK
<1>6. ASSUME NEW u \in Users, NEW size \in 0..MaxUint, buyYes(u, size) PROVE TypeOK'
  <2>1. Value(size, yesAsk) \in Nat
    BY <1>0, ValueNat DEF TypeOK
  <2>2. Pull(u, Value(size, yesAsk))
    BY <1>6 DEF buyYes
  <2>3. usdc' \in [Accounts -> Nat] /\ escrow' \in Nat
    BY <1>0, <2>1, <2>2, PullEffect
  <2>4. yesShares' \in [Users -> Nat] /\ totalYes' \in 0..MaxUint
    BY <1>0, <1>6, MaxUintAssumption DEF buyYes, TypeOK
  <2>5. QED
    BY <1>6, <2>3, <2>4 DEF buyYes, TypeOK
<1>7. ASSUME NEW u \in Users, NEW size \in 0..MaxUint, sellYes(u, size) PROVE TypeOK'
  <2>1. Value(size, yesBid) \in Nat
    BY <1>0, ValueNat DEF TypeOK
  <2>2. Push(u, Value(size, yesBid))
    BY <1>7 DEF sellYes
  <2>3. usdc' \in [Accounts -> Nat] /\ escrow' \in Nat
    BY <1>0, <2>1, <2>2, PushEffect
  <2>4. yesShares' \in [Users -> Nat] /\ totalYes' \in 0..MaxUint
    BY <1>0, <1>7, MaxUintAssumption DEF sellYes, TypeOK
  <2>5. QED
    BY <1>7, <2>3, <2>4 DEF sellYes, TypeOK
<1>8. ASSUME NEW u \in Users, redeem(u) PROVE TypeOK'
  <2>1. Push(u, IF yesWon THEN yesShares[u] ELSE 0)
    BY <1>8 DEF redeem
  <2>2. usdc' \in [Accounts -> Nat] /\ escrow' \in Nat
    BY <1>0, <2>1, PayoutNat, PushEffect
  <2>3. QED
    BY <1>8, <2>2 DEF redeem, TypeOK
<1>9. CASE UNCHANGED vars
  BY <1>9 DEF vars, TypeOK
<1>10. QED
  BY <1>1, <1>2, <1>3, <1>4, <1>5, <1>6, <1>7, <1>8, <1>9 DEF Next, EngineStep, UserStep

(* Every reachable state of the market is well typed: nothing is paid that *)
(* the payer does not hold (buyYes, sellYes, redeem, withdraw).            *)
THEOREM TypeCorrect == Spec => []TypeOK
  BY InitTypeOK, NextTypeOK, PTL DEF Spec
-----------------------------------------------------------------------------
\* One step of a closed market (flagDispute, resolve, redeem and the guards of the rest).
LEMMA StepUnwinds ==
  TypeOK /\ [Next]_vars =>
    /\ disputed => disputed'
    /\ resolved => resolved' /\ yesWon' = yesWon /\ UNCHANGED quoteVars
    /\ disputed \/ resolved => \A u \in Users : yesShares'[u] <= yesShares[u]
<1> SUFFICES ASSUME TypeOK, [Next]_vars
             PROVE  /\ disputed => disputed'
                    /\ resolved => resolved' /\ yesWon' = yesWon /\ UNCHANGED quoteVars
                    /\ disputed \/ resolved => \A u \in Users : yesShares'[u] <= yesShares[u]
  OBVIOUS
<1> USE DEF TypeOK, quoteVars, flagVars, shareVars, moneyVars
<1>1. ASSUME NEW amount \in 0..MaxUint, fund(amount) \/ withdraw(amount)
      PROVE  UNCHANGED <<quoteVars, flagVars, shareVars>>
  BY <1>1 DEF fund, withdraw
<1>2. ASSUME NEW bid \in 0..ONE, NEW ask \in 0..ONE, NEW size \in 0..MaxUint, postQuote(bid, ask, size)
      PROVE  ~resolved /\ UNCHANGED <<flagVars, shareVars>>
  BY <1>2 DEF postQuote
<1>3. ASSUME flagDispute
      PROVE  disputed' /\ UNCHANGED <<resolved, yesWon, quoteVars, shareVars>>
  BY <1>3 DEF flagDispute
<1>4. ASSUME NEW outcome \in BOOLEAN, resolve(outcome)
      PROVE  ~resolved /\ UNCHANGED <<disputed, quoteVars, shareVars>>
  BY <1>4 DEF resolve
<1>5. ASSUME NEW u \in Users, NEW size \in 0..MaxUint, buyYes(u, size)
      PROVE  ~disputed /\ ~resolved
  BY <1>5 DEF buyYes
<1>6. ASSUME NEW u \in Users, NEW size \in 0..MaxUint, sellYes(u, size)
      PROVE  /\ UNCHANGED <<quoteVars, flagVars>>
             /\ \A v \in Users : yesShares'[v] <= yesShares[v]
  BY <1>6, MaxUintAssumption DEF sellYes
<1>7. ASSUME NEW u \in Users, redeem(u)
      PROVE  /\ UNCHANGED <<quoteVars, flagVars>>
             /\ \A v \in Users : yesShares'[v] <= yesShares[v]
  BY <1>7 DEF redeem
<1>8. CASE UNCHANGED vars
  BY <1>8 DEF vars
<1>9. QED
  BY <1>1, <1>2, <1>3, <1>4, <1>5, <1>6, <1>7, <1>8 DEF Next, EngineStep, UserStep

(* A market that was disputed or resolved only unwinds, whoever trades.    *)
THEOREM OnlyUnwinds == Spec => ClosedMarketOnlyUnwinds
  BY TypeCorrect, StepUnwinds, PTL DEF Spec, ClosedMarketOnlyUnwinds
-----------------------------------------------------------------------------
\* One step after resolution: a wallet grows by the worth of the shares given up.
LEMMA StepPays ==
  ASSUME TypeOK, [Next]_vars, resolved, NEW u \in Users
  PROVE  usdc'[u] - usdc[u] = IF yesWon THEN yesShares[u] - yesShares'[u] ELSE 0
<1> USE DEF TypeOK, quoteVars, flagVars, shareVars, moneyVars
<1>0. Engine \in Accounts /\ Users \subseteq Accounts /\ Engine \notin Users
      /\ usdc[u] \in Nat /\ yesShares[u] \in Nat
  BY EngineAssumption DEF Accounts
<1>1. ASSUME NEW amount \in 0..MaxUint, fund(amount) \/ withdraw(amount)
      PROVE  usdc'[u] = usdc[u] /\ yesShares' = yesShares
  BY <1>0, <1>1 DEF fund, withdraw, Pull, Push
<1>2. ASSUME NEW v \in Users, NEW size \in 0..MaxUint, sellYes(v, size) \/ buyYes(v, size)
      PROVE  FALSE
  BY <1>2 DEF sellYes, buyYes
<1>3. ASSUME NEW v \in Users, redeem(v)
      PROVE  usdc'[u] - usdc[u] = IF yesWon THEN yesShares[u] - yesShares'[u] ELSE 0
  <2>1. Push(v, IF yesWon THEN yesShares[v] ELSE 0)
    BY <1>3 DEF redeem
  <2>2. CASE u = v
    BY <1>0, <1>3, <2>1, <2>2, PayoutNat, PushEffect DEF redeem
  <2>3. CASE u # v
    BY <1>0, <1>3, <2>1, <2>3, PayoutNat, PushEffect DEF redeem
  <2>4. QED
    BY <2>2, <2>3
<1>4. CASE UNCHANGED <<moneyVars, shareVars>>
  BY <1>0, <1>4
<1>5. ASSUME flagDispute PROVE UNCHANGED <<moneyVars, shareVars>>
  BY <1>5 DEF flagDispute
<1>6. ASSUME NEW outcome \in BOOLEAN, resolve(outcome) PROVE FALSE
  BY <1>6 DEF resolve
<1>7. ASSUME NEW bid, NEW ask, NEW size, postQuote(bid, ask, size) PROVE FALSE
  BY <1>7 DEF postQuote
<1>8. CASE UNCHANGED vars
  BY <1>4, <1>8 DEF vars
<1>9. ASSUME usdc'[u] = usdc[u], yesShares' = yesShares
      PROVE  usdc'[u] - usdc[u] = IF yesWon THEN yesShares[u] - yesShares'[u] ELSE 0
  BY <1>0, <1>9
<1>10. CASE EngineStep
  <2>1. CASE \E amount \in 0..MaxUint : fund(amount) \/ withdraw(amount)
    BY <2>1, <1>1, <1>9
  <2>2. CASE flagDispute
    BY <2>2, <1>4, <1>5
  <2>3. QED
    BY <1>10, <1>6, <1>7, <2>1, <2>2 DEF EngineStep
<1>11. CASE \E v \in Users : UserStep(v)
  BY <1>11, <1>2, <1>3 DEF UserStep
<1>12. QED
  BY <1>8, <1>10, <1>11 DEF Next

(* After resolution each share is paid exactly once, at its worth, to the  *)
(* user that gives it up.                                                  *)
THEOREM PaidExactlyOnce == Spec => RedeemedExactlyOnce
<1>1. TypeOK /\ [Next]_vars =>
        (resolved => \A u \in Users :
           usdc'[u] - usdc[u] = IF yesWon THEN yesShares[u] - yesShares'[u] ELSE 0)
  BY StepPays
<1>2. QED
  BY <1>1, TypeCorrect, PTL DEF Spec, RedeemedExactlyOnce
-----------------------------------------------------------------------------
\* The sum of the positions moves with the one position that is changed.
LEMMA OwedIs ==
  ASSUME TypeOK, NEW u \in Users, NEW n \in Nat, yesShares' = [yesShares EXCEPT ![u] = n]
  PROVE  /\ Owed \in Nat /\ yesShares[u] \in Nat
         /\ Owed' = Owed - yesShares[u] + n
<1>1. IsFiniteSet(Users)
  BY UsersAssumption DEF UsersAssumption
<1>2. yesShares \in [Users -> Int] /\ DOMAIN yesShares = Users /\ \A v \in Users : yesShares[v] \in Nat
  BY DEF TypeOK
<1>3. Owed \in Nat
  BY <1>1, <1>2, SumNat DEF Owed, SumFunction
<1>4. SumFunction([yesShares EXCEPT ![u] = n]) = SumFunction(yesShares) - yesShares[u] + n
  <2>1. n \in Int
    OBVIOUS
  <2>2. QED
    BY <1>1, <1>2, <2>1, SumExcept, Zenon
<1>5. QED
  BY <1>2, <1>3, <1>4 DEF Owed

LEMMA InitAccounted == Init => SharesAccounted
<1> SUFFICES ASSUME Init PROVE SharesAccounted
  OBVIOUS
<1>1. IsFiniteSet(Users)
  BY UsersAssumption DEF UsersAssumption
<1>2. DOMAIN yesShares = Users /\ \A v \in Users : yesShares[v] = 0
  BY DEF Init
<1>3. Owed = 0
  BY <1>1, <1>2, SumZero DEF Owed, SumFunction
<1>4. QED
  BY <1>3 DEF Init, SharesAccounted

\* Every transaction keeps the count and the positions together.
LEMMA NextAccounted == TypeOK /\ SharesAccounted /\ [Next]_vars => SharesAccounted'
<1> SUFFICES ASSUME TypeOK, SharesAccounted, [Next]_vars PROVE SharesAccounted'
  OBVIOUS
<1> USE DEF quoteVars, flagVars, shareVars, moneyVars
<1>1. CASE UNCHANGED <<resolved, shareVars>>
  <2>1. Owed' = Owed /\ resolved' = resolved /\ totalYes' = totalYes
    BY <1>1 DEF Owed
  <2>2. QED
    BY <2>1 DEF SharesAccounted
<1>2. ASSUME NEW outcome \in BOOLEAN, resolve(outcome) PROVE SharesAccounted'
  <2>1. Owed' = Owed /\ totalYes' = totalYes /\ ~resolved
    BY <1>2 DEF resolve, Owed
  <2>2. Owed <= totalYes
    BY <2>1 DEF SharesAccounted, TypeOK
  <2>3. resolved'
    BY <1>2 DEF resolve
  <2>4. QED
    BY <2>1, <2>2, <2>3 DEF SharesAccounted
<1>3. ASSUME NEW u \in Users, NEW size \in 0..MaxUint, buyYes(u, size) PROVE SharesAccounted'
  <2> DEFINE n == yesShares[u] + size
  <2>1. yesShares' = [yesShares EXCEPT ![u] = n] /\ totalYes' = totalYes + size
        /\ ~resolved /\ resolved' = resolved
    BY <1>3 DEF buyYes
  <2>2. n \in Nat
    BY MaxUintAssumption DEF TypeOK
  <2>3. Owed \in Nat /\ yesShares[u] \in Nat /\ Owed' = Owed - yesShares[u] + n
    BY <2>1, <2>2, OwedIs
  <2>4. QED
    BY <2>1, <2>3, MaxUintAssumption DEF SharesAccounted
<1>4. ASSUME NEW u \in Users, NEW size \in 0..MaxUint, sellYes(u, size) PROVE SharesAccounted'
  <2> DEFINE n == yesShares[u] - size
  <2>1. yesShares' = [yesShares EXCEPT ![u] = n] /\ totalYes' = totalYes - size
        /\ ~resolved /\ resolved' = resolved /\ size <= yesShares[u]
    BY <1>4 DEF sellYes
  <2>2. n \in Nat
    BY <2>1, MaxUintAssumption DEF TypeOK
  <2>3. Owed \in Nat /\ yesShares[u] \in Nat /\ Owed' = Owed - yesShares[u] + n
    BY <2>1, <2>2, OwedIs
  <2>4. QED
    BY <2>1, <2>3, MaxUintAssumption DEF SharesAccounted
<1>5. ASSUME NEW u \in Users, redeem(u) PROVE SharesAccounted'
  <2>1. yesShares' = [yesShares EXCEPT ![u] = 0] /\ totalYes' = totalYes
        /\ resolved /\ resolved' = resolved
    BY <1>5 DEF redeem
  <2>2. Owed \in Nat /\ yesShares[u] \in Nat /\ Owed' = Owed - yesShares[u] + 0
    BY <2>1, OwedIs
  <2>3. Owed <= totalYes /\ totalYes \in Int
    BY <2>1, MaxUintAssumption DEF SharesAccounted, TypeOK
  <2>4. Owed' <= totalYes
    BY <2>2, <2>3
  <2>5. QED
    BY <2>1, <2>4 DEF SharesAccounted
<1>6. QED
  BY <1>1, <1>2, <1>3, <1>4, <1>5
  DEF Next, EngineStep, UserStep, vars, fund, withdraw, postQuote, flagDispute

(* For any users and any history of trades: the counter from which the     *)
(* engine sizes its quotes (totalYes, snapshot()) is the sum of the        *)
(* positions while quotes can be posted, and bounds what is still to be    *)
(* paid from resolution on.                                                *)
THEOREM CounterIsSum == Spec => []SharesAccounted
  BY TypeCorrect, InitAccounted, NextAccounted, InitTypeOK, NextTypeOK, PTL DEF Spec
-----------------------------------------------------------------------------
(* The keeper's adapter, for any sides the loop places, any first quote    *)
(* and collateral, any caps and any debounce.                              *)
Quotes == [bid : 0..ONE, ask : 0..ONE, size : 0..MaxUint]

Snaps == [room : Int, disputed : BOOLEAN, resolved : BOOLEAN, bought : Nat]

IsTx(t) ==
  \/ t = Flag
  \/ \E q \in Quotes, n \in Nat :
       q.bid < q.ask /\ t = [kind |-> "postQuote", quote |-> q, bought |-> n]

ClobTypeOK ==
  /\ snap # None => snap \in Snaps
  /\ pending # None => pending \in Sides
  /\ last_posted \in Quotes
  /\ sending \in {"no", "send", "resend", "wait"}
  /\ sending # "no" => IsTx(tx)
  /\ wire # None => IsTx(wire)
  /\ receipt \in {"none", "ok", "reverted"} /\ breaker \in BOOLEAN /\ doubt \in BOOLEAN
  /\ bought \in Nat /\ backedBy \in Nat

\* A quote was confirmed by the chain and not yet by the keeper.
Landed == sending = "wait" /\ receipt = "ok" /\ tx.kind = "postQuote"

(* What makes StandingQuoteKnown inductive: what is on the wire while the  *)
(* keeper waits is what it waits for, a receipt comes when the wire is     *)
(* empty, and a quote nobody waits for is in doubt.                        *)
WireKnown ==
  /\ sending # "wait" \/ wire # None => receipt = "none"
  /\ sending = "wait" /\ wire # None => wire = tx
  /\ Landed => Standing = tx.quote
  /\ ~doubt /\ ~Landed => last_posted = Standing
  /\ ~doubt /\ wire # None /\ wire.kind = "postQuote" => sending = "wait"

\* The collateral covers `size' shares beyond those bought since the count was `at'.
Covers(size, at) == escrow - totalYes + (bought - at) >= size

TxBacked(t) == t.kind = "postQuote" => Covers(t.quote.size, t.bought)

(* What makes QuoteBacked inductive: the snapshot, the quote that is sent  *)
(* and the one on the wire are covered as the standing one is.             *)
AllBacked ==
  ~resolved =>
    /\ Covers(maxTrade, backedBy)
    /\ snap # None => Covers(snap.room, snap.bought)
    /\ sending # "no" => TxBacked(tx)
    /\ wire # None => TxBacked(wire)
-----------------------------------------------------------------------------
LEMMA ClobConstants ==
  /\ ONE \in Nat /\ MaxUint \in Nat /\ PriceTick \in Nat /\ PriceTick >= 1 /\ PriceTick < ONE
  /\ MinDelta \in Nat /\ MaxTradeCap \in Nat /\ MaxTradeCap <= MaxUint
  /\ Collateral \in Nat /\ Trades \in Nat
  BY OneAssumption, MaxUintAssumption, PriceAssumption, ClobBounds
  DEF OneAssumption, MaxUintAssumption, PriceAssumption, ClobBounds

\* A transaction is a dispute flag or a quote whose sides are apart.
LEMMA TxKinds ==
  ASSUME NEW t, IsTx(t)
  PROVE  /\ t.kind \in {"flagDispute", "postQuote"}
         /\ t.kind = "postQuote" =>
              /\ t.quote \in Quotes /\ t.quote.bid < t.quote.ask
              /\ t.bought \in Nat
<1>1. CASE t = Flag
  BY <1>1 DEF Flag
<1>2. CASE t # Flag
  <2>1. PICK q \in Quotes, n \in Nat :
          q.bid < q.ask /\ t = [kind |-> "postQuote", quote |-> q, bought |-> n]
    BY <1>2 DEF IsTx
  <2>2. t.kind = "postQuote" /\ t.quote = q /\ t.bought = n
    BY <2>1
  <2>3. QED
    BY <2>1, <2>2
<1>3. QED
  BY <1>1, <1>2

\* What _flush_quotes makes of the buffered sides: a quote whose sides are apart, no
\* larger than what the snapshot leaves redeemable.
LEMMA Collapsed ==
  ASSUME NEW sides \in Sides, NEW s, s.room \in Int, NEW q, q = Collapse(sides, s)
  PROVE  /\ q.bid \in 0..ONE /\ q.ask \in 0..ONE /\ q.bid < q.ask
         /\ q.size \in Int /\ q.size <= MaxUint /\ q.size <= s.room
         /\ q.size > 0 => q \in Quotes
<1>1. /\ sides.size \in Nat
      /\ sides.buy = None \/ sides.buy \in PriceTick..(ONE - 2 * PriceTick)
      /\ sides.sell = None \/ sides.sell \in (2 * PriceTick)..(ONE - PriceTick)
      /\ sides.buy # None \/ sides.sell # None
      /\ sides.buy # None /\ sides.sell # None => sides.buy < sides.sell
  BY SidesAssumption DEF SidesAssumption
<1>2. /\ q.bid = IF sides.buy = None THEN PriceTick ELSE sides.buy
      /\ q.ask = IF sides.sell = None THEN ONE - PriceTick ELSE sides.sell
      /\ q.size = Least(Least(sides.size, MaxTradeCap), s.room)
      /\ q = [bid |-> q.bid, ask |-> q.ask, size |-> q.size]
  BY DEF Collapse
<1>3. q.size \in Int /\ q.size <= MaxTradeCap /\ q.size <= s.room
  BY <1>1, <1>2, ClobConstants DEF Least
<1>4. q.bid \in 0..ONE /\ q.ask \in 0..ONE /\ q.bid < q.ask
  BY <1>1, <1>2, ClobConstants
<1>5. q.size > 0 => q.size \in 0..MaxUint
  BY <1>3, ClobConstants
<1>6. q.size > 0 => q \in Quotes
  <2> SUFFICES ASSUME q.size > 0 PROVE [bid |-> q.bid, ask |-> q.ask, size |-> q.size] \in Quotes
    BY <1>2
  <2>1. QED
    BY <1>4, <1>5 DEF Quotes
<1>7. QED
  BY <1>3, <1>4, <1>6, ClobConstants

\* The market the keeper deploys is a state of the market's own specification.
LEMMA ClobInitMarket == ClobInit => TypeOK /\ SharesAccounted
<1> SUFFICES ASSUME ClobInit PROVE TypeOK /\ SharesAccounted
  OBVIOUS
<1>1. usdc \in [Accounts -> Nat] /\ escrow \in Nat
  <2>1. InitialUSDC \in [Accounts -> Nat]
    BY FundsAssumption DEF FundsAssumption, Accounts
  <2>2. InitialUSDC[Engine] - Collateral \in Nat
    BY <2>1, ClobBounds DEF ClobBounds, Accounts
  <2>3. QED
    BY <2>1, <2>2, ClobConstants DEF ClobInit
<1>2. yesBid \in 0..ONE /\ yesAsk \in 0..ONE /\ maxTrade \in 0..MaxUint
  BY FirstQuoteAssumption DEF FirstQuoteAssumption, ClobInit
<1>3. yesShares \in [Users -> Nat] /\ totalYes \in 0..MaxUint /\ yesShares = [u \in Users |-> 0]
  BY ClobConstants DEF ClobInit
<1>4. TypeOK
  BY <1>1, <1>2, <1>3 DEF ClobInit, TypeOK
<1>5. IsFiniteSet(Users)
  BY UsersAssumption DEF UsersAssumption
<1>6. Owed = 0
  BY <1>3, <1>5, SumZero DEF Owed, SumFunction
<1>7. SharesAccounted
  BY <1>6 DEF ClobInit, SharesAccounted
<1>8. QED
  BY <1>4, <1>7

\* Every step of the keeper, the chain and the users is a transaction of the market, or
\* leaves it alone.
LEMMA ClobStepOfMarket == ClobTypeOK /\ [ClobNext]_allVars => [Next]_vars
<1> SUFFICES ASSUME ClobTypeOK, [ClobNext]_allVars PROVE [Next]_vars
  OBVIOUS
<1>1. CASE UNCHANGED contract
  BY <1>1 DEF contract, vars
<1>2. CASE Mined
  <2>1. wire # None /\ IsTx(wire)
    BY <1>2 DEF Mined, ClobTypeOK
  <2>2. CASE wire.kind = "flagDispute" /\ flagDispute
    BY <2>2 DEF Next, EngineStep
  <2>3. CASE wire.kind = "postQuote" /\ postQuote(wire.quote.bid, wire.quote.ask, wire.quote.size)
    <3>1. wire.quote \in Quotes
      BY <2>1, <2>3, TxKinds
    <3>2. wire.quote.bid \in 0..ONE /\ wire.quote.ask \in 0..ONE /\ wire.quote.size \in 0..MaxUint
      BY <3>1 DEF Quotes
    <3>3. QED
      BY <2>3, <3>2 DEF Next, EngineStep
  <2>4. QED
    BY <1>1, <1>2, <2>2, <2>3 DEF Mined
<1>3. ASSUME NEW outcome \in BOOLEAN, Resolves(outcome) PROVE Next
  BY <1>3 DEF Resolves, Next, EngineStep
<1>4. ASSUME NEW u \in Users, NEW size \in 1..MaxUint, Buys(u, size) \/ Sells(u, size) PROVE Next
  <2>1. size \in 0..MaxUint
    BY ClobConstants
  <2>2. buyYes(u, size) \/ sellYes(u, size)
    BY <1>4 DEF Buys, Sells
  <2>3. QED
    BY <2>1, <2>2 DEF Next, UserStep
<1>5. CASE KeeperStep
  BY <1>1, <1>5 DEF KeeperStep, ReadFails, get_book, place, _flush_quotes, FlushBlind, flag_dispute_for,
     SendStep, Denied, Broadcast, Resend, SendFails, ReceiptLost, Reverted, Confirmed
<1>6. CASE Dropped \/ Restart
  BY <1>1, <1>6 DEF Dropped, Restart
<1>7. CASE UNCHANGED allVars
  BY <1>1, <1>7 DEF allVars
<1>8. QED
  BY <1>2, <1>3, <1>4, <1>5, <1>6, <1>7 DEF ClobNext, ChainStep

LEMMA SnapshotsTyped ==
  ASSUME TypeOK, ClobTypeOK
  PROVE  Snapshot \in Snaps /\ \A s \in Snapshots : s \in Snaps
<1>1. escrow - totalYes \in Int
  BY ClobConstants DEF TypeOK
<1>2. Snapshot \in Snaps
  BY <1>1 DEF Snapshot, Snaps, TypeOK, ClobTypeOK
<1>3. QED
  BY <1>2 DEF Snapshots, ClobTypeOK

LEMMA ClobInitTyped == ClobInit => ClobTypeOK
<1> SUFFICES ASSUME ClobInit PROVE ClobTypeOK
  OBVIOUS
<1>1. Standing \in Quotes
  BY FirstQuoteAssumption DEF FirstQuoteAssumption, ClobInit, Standing, Quotes
<1>2. QED
  BY <1>1 DEF ClobInit, ClobTypeOK

\* The quote a flush signs is a transaction the contract admits.
LEMMA FlushSigns ==
  ASSUME TypeOK, ClobTypeOK, _flush_quotes, sending' # "no"
  PROVE  \E s \in Snapshots :
           /\ snap' = s /\ pending \in Sides
           /\ sending' = "send" /\ receipt' = "none" /\ tx' = Post(Collapse(pending, s), s)
           /\ IsTx(tx') /\ Collapse(pending, s).size <= s.room
<1>1. PICK s \in Snapshots, stale \in BOOLEAN :
        /\ snap' = s
        /\ \/ /\ Collapse(pending, s).size > 0
              /\ Start(Post(Collapse(pending, s), s))
           \/ UNCHANGED sendVars
  BY DEF _flush_quotes
<1>2. sending = "no" /\ pending \in Sides
  BY DEF _flush_quotes, ClobTypeOK
<1>3. Collapse(pending, s).size > 0 /\ Start(Post(Collapse(pending, s), s))
  BY <1>1, <1>2 DEF sendVars
<1>4. s \in Snaps
  BY SnapshotsTyped
<1>5. s.room \in Int /\ s.bought \in Nat
  BY <1>4 DEF Snaps
<1> DEFINE q == Collapse(pending, s)
<1>6. q.bid < q.ask /\ q \in Quotes /\ q.size <= s.room
  <2> HIDE DEF q
  <2>1. q = Collapse(pending, s)
    BY DEF q
  <2>2. q.size > 0
    BY <1>3 DEF q
  <2>3. QED
    BY <1>2, <1>5, <2>1, <2>2, Collapsed
<1>7. IsTx(Post(q, s))
  <2> HIDE DEF q
  <2>1. Post(q, s) = [kind |-> "postQuote", quote |-> q, bought |-> s.bought]
    BY DEF Post
  <2>2. QED
    BY <1>5, <1>6, <2>1 DEF IsTx
<1>8. QED
  BY <1>1, <1>2, <1>3, <1>6, <1>7 DEF Start

LEMMA ClobNextTyped == TypeOK /\ ClobTypeOK /\ [ClobNext]_allVars => ClobTypeOK'
<1> SUFFICES ASSUME TypeOK, ClobTypeOK, [ClobNext]_allVars PROVE ClobTypeOK'
  OBVIOUS
<1> USE DEF clobVars, book, sendVars, ghosts, Done, Fails
<1>0. Snapshot \in Snaps /\ (\A s \in Snapshots : s \in Snaps) /\ IsTx(Flag)
  BY SnapshotsTyped DEF IsTx
<1>1. CASE UNCHANGED clobVars
  BY <1>1 DEF ClobTypeOK
<1>2. CASE ReadFails
  BY <1>2 DEF ReadFails, ClobTypeOK
<1>3. CASE get_book
  BY <1>0, <1>3 DEF get_book, ClobTypeOK
<1>4. ASSUME NEW sides \in Sides, place(sides) PROVE ClobTypeOK'
  BY <1>0, <1>4 DEF place, ClobTypeOK
<1>5. CASE _flush_quotes
  <2>1. CASE sending' = "no"
    <3>1. UNCHANGED sendVars /\ pending' = None
          /\ UNCHANGED <<last_posted, wire, breaker, bought, backedBy, doubt>>
      BY <1>5, <2>1 DEF _flush_quotes, Start
    <3>2. snap' \in Snaps
      BY <1>0, <1>5 DEF _flush_quotes
    <3>3. QED
      BY <3>1, <3>2 DEF ClobTypeOK
  <2>2. CASE sending' # "no"
    <3>1. sending' = "send" /\ receipt' = "none" /\ IsTx(tx')
      BY <1>5, <2>2, FlushSigns
    <3>2. snap' \in Snaps /\ pending' = None
          /\ UNCHANGED <<last_posted, wire, breaker, bought, backedBy, doubt>>
      BY <1>0, <1>5 DEF _flush_quotes
    <3>3. QED
      BY <3>1, <3>2 DEF ClobTypeOK
  <2>3. QED
    BY <2>1, <2>2
<1>6. CASE FlushBlind
  BY <1>6 DEF FlushBlind, ClobTypeOK
<1>7. CASE flag_dispute_for
  BY <1>0, <1>7 DEF flag_dispute_for, Start, ClobTypeOK
<1>8. CASE SendStep
  <2>1. CASE Denied \/ SendFails \/ Reverted
    BY <2>1 DEF Denied, SendFails, Reverted, ClobTypeOK
  <2>2. CASE Broadcast
    BY <2>2 DEF Broadcast, Unconfirmed, ClobTypeOK
  <2>3. CASE Resend
    BY <2>3 DEF Resend, ClobTypeOK
  <2>4. CASE ReceiptLost
    BY <2>4 DEF ReceiptLost, Unconfirmed, ClobTypeOK
  <2>5. CASE Confirmed
    <3>1. IsTx(tx)
      BY <2>5 DEF Confirmed, ClobTypeOK
    <3>2. last_posted' \in Quotes
      BY <2>5, <3>1, TxKinds DEF Confirmed, ClobTypeOK
    <3>3. QED
      BY <2>5, <3>2 DEF Confirmed, ClobTypeOK
  <2>6. QED
    BY <1>8, <2>1, <2>2, <2>3, <2>4, <2>5 DEF SendStep
<1>9. CASE Mined
  <2>1. IsTx(wire) /\ wire' = None /\ receipt' \in {receipt, "ok", "reverted"}
        /\ UNCHANGED <<book, sending, tx, breaker, bought, doubt>>
    BY <1>9 DEF Mined, ClobTypeOK
  <2>2. backedBy' \in Nat
    BY <1>9, <2>1, TxKinds DEF Mined, ClobTypeOK
  <2>3. QED
    BY <2>1, <2>2 DEF ClobTypeOK
<1>10. CASE Dropped
  BY <1>10 DEF Dropped, ClobTypeOK
<1>11. ASSUME NEW u \in Users, NEW size \in 1..MaxUint, Buys(u, size) PROVE ClobTypeOK'
  <2>1. bought' \in Nat
    BY <1>11, ClobConstants DEF Buys, ClobTypeOK
  <2>2. QED
    BY <1>11, <2>1 DEF Buys, ClobTypeOK
<1>12. CASE Restart
  <2>1. Standing \in Quotes /\ NoStanding \in Quotes
    BY ClobConstants DEF TypeOK, Standing, NoStanding, Quotes
  <2>2. QED
    BY <1>0, <1>12, <2>1 DEF Restart, ClobTypeOK
<1>13. QED
  BY <1>1, <1>2, <1>3, <1>4, <1>5, <1>6, <1>7, <1>8, <1>9, <1>10, <1>11, <1>12
  DEF ClobNext, KeeperStep, ChainStep, Resolves, Sells, allVars

MarketInv == TypeOK /\ SharesAccounted /\ ClobTypeOK

LEMMA MarketInvAlways == ClobSpec => []MarketInv
<1>1. ClobInit => MarketInv
  BY ClobInitMarket, ClobInitTyped DEF MarketInv
<1>2. MarketInv /\ [ClobNext]_allVars => MarketInv'
  <2> SUFFICES ASSUME MarketInv, [ClobNext]_allVars PROVE MarketInv'
    OBVIOUS
  <2>1. [Next]_vars
    BY ClobStepOfMarket DEF MarketInv
  <2>2. TypeOK' /\ SharesAccounted'
    BY <2>1, NextTypeOK, NextAccounted DEF MarketInv
  <2>3. ClobTypeOK'
    BY ClobNextTyped DEF MarketInv
  <2>4. QED
    BY <2>2, <2>3 DEF MarketInv
<1>3. QED
  BY <1>1, <1>2, PTL DEF ClobSpec

(* The market the keeper manages keeps the contract's promises, whatever   *)
(* the keeper, its node and its users do: it stays well typed, and the     *)
(* count the quotes are sized from (escrow - totalYes) stays the true one. *)
THEOREM ManagedMarketAccounted == ClobSpec => [](TypeOK /\ SharesAccounted)
<1>1. MarketInv => TypeOK /\ SharesAccounted
  BY DEF MarketInv
<1>2. QED
  BY <1>1, MarketInvAlways, PTL

(* The detailed specification implements the contract's, step by step: a   *)
(* step of the keeper, of the chain or of a user is one transaction of     *)
(* PolyLambdaMarket or changes nothing of it.  (The keeper's market begins *)
(* later than the contract's: funded and with a first quote.)              *)
THEOREM KeeperStepsAreTransactions == ClobSpec => [][Next]_vars
<1>1. MarketInv /\ [ClobNext]_allVars => [Next]_vars
  BY ClobStepOfMarket DEF MarketInv
<1>2. QED
  BY <1>1, MarketInvAlways, PTL DEF ClobSpec

(* So the market the keeper manages only unwinds once it is disputed or    *)
(* resolved, whatever the keeper still sends it.                           *)
THEOREM ManagedMarketOnlyUnwinds == ClobSpec => ClosedMarketOnlyUnwinds
<1>1. MarketInv => TypeOK
  BY DEF MarketInv
<1>2. QED
  BY <1>1, MarketInvAlways, KeeperStepsAreTransactions, StepUnwinds, PTL DEF ClosedMarketOnlyUnwinds
-----------------------------------------------------------------------------
\* A sent transaction: nothing of it but the wire is seen before it is waited for.
LEMMA WireInit == ClobInit => WireKnown
  BY DEF ClobInit, WireKnown, Landed

\* A flag mined for the keeper, or for nobody, leaves the standing quote as it is; a
\* quote becomes the standing one.
LEMMA MinedQuote ==
  ASSUME ClobTypeOK, Mined
  PROVE  /\ wire # None /\ wire.kind \in {"flagDispute", "postQuote"} /\ wire' = None
         /\ UNCHANGED <<last_posted, sending, tx, doubt>>
         /\ wire.kind = "flagDispute" => Standing' = Standing
         /\ wire.kind = "postQuote" =>
              \/ Standing' = wire.quote /\ (sending = "wait" => receipt' = "ok")
              \/ Standing' = Standing /\ (sending = "wait" => receipt' = "reverted")
<1> USE DEF book
<1>1. IsTx(wire) /\ wire # None
  BY DEF Mined, ClobTypeOK
<1>2. wire' = None /\ UNCHANGED <<last_posted, sending, tx, doubt>>
  BY DEF Mined
<1>3. wire.kind = "flagDispute" => Standing' = Standing
  <2> SUFFICES ASSUME wire.kind = "flagDispute" PROVE UNCHANGED quoteVars
    BY DEF Standing, quoteVars
  <2>1. flagDispute \/ UNCHANGED contract
    BY DEF Mined, Runs
  <2>2. QED
    BY <2>1 DEF flagDispute, contract
<1>4. ASSUME wire.kind = "postQuote", resolved
      PROVE  Standing' = Standing /\ (sending = "wait" => receipt' = "reverted")
  <2>1. UNCHANGED contract
    BY <1>4 DEF Mined, postQuote
  <2>2. Standing' = Standing
    BY <2>1 DEF Standing, contract, quoteVars
  <2>3. QED
    BY <1>4, <2>2 DEF Mined, Runs
<1>5. ASSUME wire.kind = "postQuote", ~resolved
      PROVE  Standing' = wire.quote /\ (sending = "wait" => receipt' = "ok")
  <2>1. postQuote(wire.quote.bid, wire.quote.ask, wire.quote.size)
    BY <1>5 DEF Mined, Runs
  <2>2. wire.quote \in Quotes
    BY <1>1, <1>5, TxKinds
  <2>3. Standing' = [bid |-> wire.quote.bid, ask |-> wire.quote.ask, size |-> wire.quote.size]
    BY <2>1 DEF postQuote, Standing
  <2>4. Standing' = wire.quote
    BY <2>2, <2>3 DEF Quotes
  <2>5. QED
    BY <1>5, <2>4 DEF Mined, Runs
<1>6. QED
  BY <1>1, <1>2, <1>3, <1>4, <1>5, TxKinds

LEMMA WireNext == ClobTypeOK /\ WireKnown /\ [ClobNext]_allVars => WireKnown'
<1> SUFFICES ASSUME ClobTypeOK, WireKnown, [ClobNext]_allVars PROVE WireKnown'
  OBVIOUS
<1> USE DEF clobVars, book, sendVars, ghosts, Done, Fails, Start
<1>0. ASSUME UNCHANGED contract PROVE Standing' = Standing
  BY <1>0 DEF Standing, contract, quoteVars
<1>1. CASE Standing' = Standing /\ UNCHANGED <<last_posted, sending, tx, receipt, wire, doubt>>
  <2>1. Landed' <=> Landed
    BY <1>1 DEF Landed
  <2>2. QED
    BY <1>1, <2>1 DEF WireKnown
<1>2. CASE ReadFails \/ get_book \/ FlushBlind \/ (\E sides \in Sides : place(sides))
  BY <1>0, <1>1, <1>2 DEF ReadFails, get_book, FlushBlind, place
<1>3. CASE _flush_quotes \/ flag_dispute_for
  <2>1. Standing' = Standing /\ UNCHANGED <<last_posted, wire, doubt>>
    BY <1>0, <1>3 DEF _flush_quotes, flag_dispute_for
  <2>2. sending = "no" /\ sending' \in {"no", "send"} /\ receipt' \in {receipt, "none"}
    BY <1>3 DEF _flush_quotes, flag_dispute_for
  <2>3. QED
    BY <2>1, <2>2 DEF WireKnown, Landed
<1>4. CASE Denied \/ SendFails \/ Reverted
  <2>1. Standing' = Standing /\ UNCHANGED <<last_posted, wire, doubt>> /\ sending' = "no" /\ ~Landed'
        /\ receipt' = "none"
    BY <1>0, <1>4 DEF Denied, SendFails, Reverted, Landed
  <2>2. ~Landed
    BY <1>4 DEF Denied, SendFails, Reverted, Landed
  <2>3. wire # None => sending # "wait"
    BY <1>4 DEF Denied, SendFails, Reverted, WireKnown
  <2>4. QED
    BY <2>1, <2>2, <2>3 DEF WireKnown
<1>5. CASE Broadcast
  <2>1. Standing' = Standing /\ UNCHANGED <<last_posted, tx, receipt>> /\ wire' = tx
        /\ sending = "send" /\ wire = None
        /\ \/ sending' = "wait" /\ UNCHANGED doubt
           \/ sending' = "resend" /\ doubt' = (doubt \/ tx.kind = "postQuote")
    BY <1>0, <1>5 DEF Broadcast, Unconfirmed
  <2>2. receipt = "none"
    BY <2>1 DEF WireKnown
  <2>3. QED
    BY <2>1, <2>2 DEF WireKnown, Landed
<1>6. CASE Resend
  <2>1. Standing' = Standing /\ UNCHANGED <<last_posted, tx, receipt, doubt>> /\ wire' = tx
        /\ sending = "resend" /\ wire = None /\ sending' = "wait"
    BY <1>0, <1>6 DEF Resend
  <2>2. QED
    BY <2>1 DEF WireKnown, Landed
<1>7. CASE ReceiptLost
  <2>1. Standing' = Standing /\ UNCHANGED <<last_posted, wire>>
        /\ sending = "wait" /\ sending' = "no" /\ receipt' = "none"
        /\ doubt' = (doubt \/ tx.kind = "postQuote")
    BY <1>0, <1>7 DEF ReceiptLost, Unconfirmed
  <2>2. QED
    BY <2>1 DEF WireKnown, Landed
<1>8. CASE Confirmed
  <2>1. Standing' = Standing /\ UNCHANGED wire /\ sending' = "no" /\ receipt' = "none"
        /\ sending = "wait" /\ receipt = "ok"
    BY <1>0, <1>8 DEF Confirmed
  <2>2. wire = None
    BY <2>1 DEF WireKnown
  <2>3. CASE tx.kind = "postQuote"
    <3>1. last_posted' = tx.quote
      BY <1>8, <2>3 DEF Confirmed
    <3>2. Standing = tx.quote
      BY <2>1, <2>3 DEF WireKnown, Landed
    <3>3. QED
      BY <2>1, <2>2, <3>1, <3>2 DEF WireKnown, Landed
  <2>4. CASE tx.kind # "postQuote"
    <3>1. UNCHANGED <<last_posted, doubt>>
      BY <1>8, <2>4 DEF Confirmed
    <3>2. QED
      BY <2>1, <2>2, <2>4, <3>1 DEF WireKnown, Landed
  <2>5. QED
    BY <2>3, <2>4
<1>9. CASE Mined
  <2>1. /\ wire # None /\ wire.kind \in {"flagDispute", "postQuote"} /\ wire' = None
        /\ UNCHANGED <<last_posted, sending, tx, doubt>>
        /\ wire.kind = "flagDispute" => Standing' = Standing
        /\ wire.kind = "postQuote" =>
             \/ Standing' = wire.quote /\ (sending = "wait" => receipt' = "ok")
             \/ Standing' = Standing /\ (sending = "wait" => receipt' = "reverted")
    BY <1>9, MinedQuote
  <2>2. receipt = "none" /\ ~Landed
    BY <2>1 DEF WireKnown, Landed
  <2>3. sending # "wait" => receipt' = receipt
    BY <1>9 DEF Mined
  <2>4. CASE sending = "wait"
    <3>1. wire = tx
      BY <2>1, <2>4 DEF WireKnown
    <3>2. QED
      BY <2>1, <2>2, <2>4, <3>1 DEF WireKnown, Landed
  <2>5. CASE sending # "wait"
    BY <2>1, <2>2, <2>3, <2>5 DEF WireKnown, Landed
  <2>6. QED
    BY <2>4, <2>5
<1>10. CASE Dropped
  <2>1. Standing' = Standing /\ UNCHANGED <<last_posted, sending, tx, receipt, doubt>> /\ wire' = None
    BY <1>0, <1>10 DEF Dropped
  <2>2. Landed' <=> Landed
    BY <2>1 DEF Landed
  <2>3. QED
    BY <2>1, <2>2 DEF WireKnown
<1>11. ASSUME \/ \E outcome \in BOOLEAN : Resolves(outcome)
              \/ \E u \in Users, size \in 1..MaxUint : Buys(u, size) \/ Sells(u, size)
       PROVE  WireKnown'
  <2>1. UNCHANGED quoteVars
    BY <1>11 DEF Resolves, resolve, Buys, buyYes, Sells, sellYes
  <2>2. UNCHANGED <<last_posted, sending, tx, receipt, wire, doubt>>
    BY <1>11 DEF Resolves, Buys, Sells
  <2>3. QED
    BY <1>1, <2>1, <2>2 DEF Standing, quoteVars
<1>12. CASE Restart
  <2>1. Standing' = Standing /\ wire' = wire /\ sending' = "no" /\ receipt' = "none"
        /\ \/ last_posted' = Standing /\ doubt' = (wire # None /\ wire.kind = "postQuote")
           \/ doubt' = TRUE
    BY <1>0, <1>12 DEF Restart
  <2>2. QED
    BY <2>1 DEF WireKnown, Landed
<1>13. CASE UNCHANGED allVars
  BY <1>0, <1>1, <1>13 DEF allVars
<1>14. QED
  BY <1>2, <1>3, <1>4, <1>5, <1>6, <1>7, <1>8, <1>9, <1>10, <1>11, <1>12, <1>13
  DEF ClobNext, KeeperStep, ChainStep, SendStep

LEMMA WireAlways == ClobSpec => [](MarketInv /\ WireKnown)
<1>1. MarketInv /\ WireKnown /\ [ClobNext]_allVars => WireKnown'
  BY WireNext DEF MarketInv
<1>2. QED
  BY <1>1, WireInit, MarketInvAlways, PTL DEF ClobSpec

(* last_posted is the quote users trade against, unless a postQuote got    *)
(* away unconfirmed and none was confirmed since, however transactions are *)
(* mined late, dropped, sent twice or left behind by a keeper that died.   *)
THEOREM QuoteIsKnown == ClobSpec => []StandingQuoteKnown
<1>1. WireKnown => StandingQuoteKnown
  BY DEF WireKnown, Landed, StandingQuoteKnown
<1>2. QED
  BY <1>1, WireAlways, PTL

(* A flush that signs nothing leaves users what the loop wanted, within    *)
(* min_requote_delta and of the size it wanted, or the loop wanted none.   *)
THEOREM DebounceIsHarmless == ClobSpec => DebounceKeepsWanted
<1>1. ASSUME MarketInv, WireKnown, _flush_quotes, sending' = "no", ~doubt
      PROVE  \/ Near(Collapse(pending, snap'))
             \/ snap'.resolved \/ Collapse(pending, snap').size <= 0
  <2> DEFINE q == Collapse(pending, snap')
  <2>1. snap' \in Snapshots /\ pending \in Sides /\ sending = "no"
    BY <1>1 DEF _flush_quotes, MarketInv, ClobTypeOK
  <2>2. snap' \in Snaps
    BY <1>1, <2>1, SnapshotsTyped DEF MarketInv
  <2>3. snap'.room \in Int
    BY <2>2 DEF Snaps
  <2>4. \/ snap'.resolved \/ ~(q.size > 0) \/ ~Moved(q) \/ q.bid >= q.ask
    BY <1>1, <2>1 DEF _flush_quotes, Start, Requote
  <2> HIDE DEF q
  <2>5. q.bid \in 0..ONE /\ q.ask \in 0..ONE /\ q.bid < q.ask /\ q.size \in Int
    BY <2>1, <2>3, Collapsed DEF q
  <2>6. last_posted = Standing
    BY <1>1, <2>1 DEF WireKnown, Landed
  <2>7. ~Moved(q) => Near(q)
    <3>1. last_posted.bid = yesBid /\ last_posted.ask = yesAsk /\ last_posted.size = maxTrade
      BY <2>6 DEF Standing
    <3>2. yesBid \in Int /\ yesAsk \in Int /\ q.bid \in Int /\ q.ask \in Int /\ MinDelta \in Int
      BY <1>1, <2>5, ClobConstants DEF MarketInv, TypeOK
    <3>3. QED
      BY <3>1, <3>2 DEF Moved, Near, Distance
  <2>8. QED
    BY <2>4, <2>5, <2>7 DEF q
<1>2. MarketInv /\ WireKnown =>
        (_flush_quotes /\ sending' = "no" /\ ~doubt =>
           \/ Near(Collapse(pending, snap'))
           \/ snap'.resolved \/ Collapse(pending, snap').size <= 0)
  BY <1>1
<1>3. QED
  BY <1>2, WireAlways, PTL DEF DebounceKeepsWanted
-----------------------------------------------------------------------------
\* A share is never worth more than its face.
LEMMA ValueWithinFace ==
  ASSUME NEW size \in Nat, NEW price \in 0..ONE
  PROVE  Value(size, price) \in Nat /\ Value(size, price) <= size
<1> DEFINE v == (size * price) \div ONE
<1>1. ONE \in Nat /\ ONE > 0 /\ price \in Nat /\ price <= ONE
  BY OneAssumption DEF OneAssumption
<1>2. v \in Nat
  BY <1>1, ValueNat DEF Value
<1>3. size * price \in Nat /\ size * price <= size * ONE
  BY <1>1
<1>4. ONE * v <= size * price
  BY <1>1, <1>3
<1>5. SUFFICES ASSUME v >= size + 1 PROVE FALSE
  BY <1>2 DEF Value
<1> HIDE DEF v
<1>6. ONE * (size + 1) <= ONE * v
  BY <1>1, <1>2, <1>5
<1>7. ONE * (size + 1) = size * ONE + ONE
  BY <1>1
<1>8. ONE * v \in Int /\ size * ONE \in Int /\ ONE * (size + 1) \in Int
  BY <1>1, <1>2
<1>9. QED
  BY <1>1, <1>3, <1>4, <1>6, <1>7, <1>8

\* What the escrow holds beyond the shares outstanding, those bought counted twice.
Slack == escrow - totalYes + bought

\* Before the resolution no step takes from it: a buyer brings the price, a seller is
\* paid less than the face of what he gives up (buyYes, sellYes, withdraw).
LEMMA SlackGrows ==
  ASSUME TypeOK, ClobTypeOK, [ClobNext]_allVars, ~resolved'
  PROVE  ~resolved /\ Slack \in Int /\ Slack' \in Int /\ Slack' >= Slack /\ bought' >= bought
<1> USE DEF clobVars, book, sendVars, ghosts
<1>1. escrow \in Int /\ totalYes \in Int /\ bought \in Int /\ Slack \in Int
  BY ClobConstants DEF TypeOK, ClobTypeOK, Slack
<1>2. CASE UNCHANGED <<resolved, shareVars, moneyVars, bought>>
  <2>1. Slack' = Slack /\ resolved' = resolved /\ bought' = bought
    BY <1>2 DEF Slack, shareVars, moneyVars
  <2>2. QED
    BY <1>1, <2>1
<1>3. CASE KeeperStep \/ Dropped \/ Restart \/ UNCHANGED allVars
  BY <1>2, <1>3 DEF contract, flagVars, allVars, Dropped, Restart,
     KeeperStep, ReadFails, get_book, place, _flush_quotes, FlushBlind, flag_dispute_for,
     SendStep, Denied, Broadcast, Resend, SendFails, ReceiptLost, Reverted, Confirmed
<1>4. CASE Mined
  BY <1>2, <1>4 DEF Mined, flagDispute, postQuote, contract, flagVars
<1>5. ASSUME NEW outcome \in BOOLEAN, Resolves(outcome) PROVE FALSE
  BY <1>5 DEF Resolves, resolve
<1>6. ASSUME NEW u \in Users, NEW size \in 1..MaxUint, Buys(u, size)
      PROVE  ~resolved /\ Slack' \in Int /\ Slack' >= Slack /\ bought' >= bought
  <2> DEFINE v == Value(size, yesAsk)
  <2>1. v \in Nat
    BY ClobConstants, ValueWithinFace DEF TypeOK
  <2> HIDE DEF v
  <2>2. escrow' = escrow + v /\ totalYes' = totalYes + size /\ bought' = bought + size /\ ~resolved
    BY <1>6 DEF Buys, buyYes, Pull, v
  <2>3. Slack' = (escrow + v) - (totalYes + size) + (bought + size)
    BY <2>2 DEF Slack
  <2>4. size \in Nat
    BY ClobConstants
  <2>5. QED
    BY <1>1, <2>1, <2>2, <2>3, <2>4 DEF Slack
<1>7. ASSUME NEW u \in Users, NEW size \in 1..MaxUint, Sells(u, size)
      PROVE  ~resolved /\ Slack' \in Int /\ Slack' >= Slack /\ bought' >= bought
  <2> DEFINE v == Value(size, yesBid)
  <2>1. v \in Nat /\ v <= size
    BY ClobConstants, ValueWithinFace DEF TypeOK
  <2> HIDE DEF v
  <2>2. escrow' = escrow - v /\ totalYes' = totalYes - size /\ bought' = bought /\ ~resolved
    BY <1>7 DEF Sells, sellYes, Push, v
  <2>3. Slack' = (escrow - v) - (totalYes - size) + bought
    BY <2>2 DEF Slack
  <2>4. size \in Nat
    BY ClobConstants
  <2>5. QED
    BY <1>1, <2>1, <2>2, <2>3, <2>4 DEF Slack
<1>8. QED
  BY <1>1, <1>3, <1>4, <1>5, <1>6, <1>7 DEF ClobNext, ChainStep

\* What is covered stays covered until the market is resolved.
LEMMA StaysCovered ==
  ASSUME TypeOK, ClobTypeOK, [ClobNext]_allVars, ~resolved',
         NEW size \in Int, NEW at \in Int, Covers(size, at)
  PROVE  Covers(size, at)'
<1>1. Slack \in Int /\ Slack' \in Int /\ Slack' >= Slack
  BY SlackGrows
<1>2. escrow \in Int /\ totalYes \in Int /\ bought \in Int
  BY ClobConstants DEF TypeOK, ClobTypeOK
<1>3. escrow' \in Int /\ totalYes' \in Int /\ bought' \in Int
  <2>1. TypeOK' /\ ClobTypeOK'
    BY ClobStepOfMarket, NextTypeOK, ClobNextTyped
  <2>2. QED
    BY <2>1, ClobConstants DEF TypeOK, ClobTypeOK
<1>4. escrow - totalYes + bought <= escrow' - totalYes' + bought'
  <2>1. Slack <= Slack'
    BY <1>1
  <2>2. QED
    BY <2>1 DEF Slack
<1>5. escrow' - totalYes' + (bought' - at) >= size
  <2>1. escrow - totalYes + (bought - at) >= size
    BY DEF Covers
  <2> DEFINE P(f, u, c) == f - u + (c - at) >= size
  <2>2. \A f, u, c \in Int : escrow - totalYes + bought <= f - u + c => P(f, u, c)
    BY <1>2, <2>1
  <2> HIDE DEF P
  <2>3. P(escrow', totalYes', bought')
    BY <1>3, <1>4, <2>2
  <2>4. QED
    BY <2>3 DEF P
<1>6. QED
  BY <1>5 DEF Covers

LEMMA TxStaysBacked ==
  ASSUME TypeOK, ClobTypeOK, [ClobNext]_allVars, ~resolved', NEW t, IsTx(t), TxBacked(t)
  PROVE  TxBacked(t)'
<1>1. SUFFICES ASSUME t.kind = "postQuote" PROVE Covers(t.quote.size, t.bought)'
  BY DEF TxBacked
<1>2. t.quote \in Quotes /\ t.bought \in Nat
  BY <1>1, TxKinds
<1>3. t.quote.size \in Int /\ t.bought \in Int
  BY <1>2, ClobConstants DEF Quotes
<1>4. Covers(t.quote.size, t.bought)
  BY <1>1 DEF TxBacked
<1>5. QED
  BY <1>3, <1>4, StaysCovered

\* Any snapshot that is used leaves no more room than is still there.
LEMMA SnapshotsCovered ==
  ASSUME TypeOK, ClobTypeOK, AllBacked, ~resolved, NEW s \in Snapshots
  PROVE  Covers(s.room, s.bought)
<1>1. CASE s = Snapshot
  <2>1. s.room = escrow - totalYes /\ s.bought = bought
    BY <1>1 DEF Snapshot
  <2>2. escrow - totalYes \in Int /\ bought \in Int
    BY ClobConstants DEF TypeOK, ClobTypeOK
  <2>3. QED
    BY <2>1, <2>2 DEF Covers
<1>2. CASE s # Snapshot
  BY <1>2 DEF Snapshots, AllBacked
<1>3. QED
  BY <1>1, <1>2

LEMMA SnapStays ==
  ASSUME [ClobNext]_allVars
  PROVE  snap' = snap \/ snap' = None \/ snap' \in Snapshots
<1> USE DEF book, clobVars
<1>1. CASE KeeperStep
  BY <1>1 DEF KeeperStep, ReadFails, get_book, place, _flush_quotes, FlushBlind, flag_dispute_for, Snapshots,
     SendStep, Denied, Broadcast, Resend, SendFails, ReceiptLost, Reverted, Confirmed
<1>2. CASE ChainStep
  BY <1>2 DEF ChainStep, Mined, Dropped, Resolves, Buys, Sells
<1>3. CASE Restart \/ UNCHANGED allVars
  BY <1>3 DEF Restart, allVars, Snapshots
<1>4. QED
  BY <1>1, <1>2, <1>3 DEF ClobNext

LEMMA TxStays ==
  ASSUME TypeOK, ClobTypeOK, [ClobNext]_allVars, sending' # "no"
  PROVE  \/ sending # "no" /\ tx' = tx
         \/ tx' = Flag
         \/ \E s \in Snapshots :
              IsTx(tx') /\ tx' = Post(Collapse(pending, s), s) /\ Collapse(pending, s).size <= s.room
<1> USE DEF sendVars, clobVars, Done, Start
<1>1. CASE _flush_quotes
  BY <1>1, FlushSigns
<1>2. CASE flag_dispute_for
  BY <1>2 DEF flag_dispute_for
<1>3. CASE ReadFails \/ get_book \/ FlushBlind \/ (\E sides \in Sides : place(sides)) \/ SendStep
  BY <1>3 DEF ReadFails, get_book, place, FlushBlind,
     SendStep, Denied, Broadcast, Resend, SendFails, ReceiptLost, Reverted, Confirmed
<1>4. CASE ChainStep
  BY <1>4 DEF ChainStep, Mined, Dropped, Resolves, Buys, Sells
<1>5. CASE Restart \/ UNCHANGED allVars
  BY <1>5 DEF Restart, allVars
<1>6. QED
  BY <1>1, <1>2, <1>3, <1>4, <1>5 DEF ClobNext, KeeperStep

LEMMA WireStays ==
  ASSUME [ClobNext]_allVars, wire' # None
  PROVE  (wire # None /\ wire' = wire) \/ (sending # "no" /\ wire' = tx)
<1> USE DEF clobVars
<1>1. CASE KeeperStep
  BY <1>1 DEF KeeperStep, ReadFails, get_book, place, _flush_quotes, FlushBlind, flag_dispute_for,
     SendStep, Denied, Broadcast, Resend, SendFails, ReceiptLost, Reverted, Confirmed
<1>2. CASE ChainStep
  BY <1>2 DEF ChainStep, Mined, Dropped, Resolves, Buys, Sells
<1>3. CASE Restart \/ UNCHANGED allVars
  BY <1>3 DEF Restart, allVars
<1>4. QED
  BY <1>1, <1>2, <1>3 DEF ClobNext

LEMMA StandingStays ==
  ASSUME ClobTypeOK, [ClobNext]_allVars
  PROVE  \/ UNCHANGED <<maxTrade, backedBy>>
         \/ /\ wire # None /\ wire.kind = "postQuote"
            /\ maxTrade' = wire.quote.size /\ backedBy' = wire.bought
<1> USE DEF clobVars, ghosts, contract, quoteVars
<1>1. CASE KeeperStep
  BY <1>1 DEF KeeperStep, ReadFails, get_book, place, _flush_quotes, FlushBlind, flag_dispute_for,
     SendStep, Denied, Broadcast, Resend, SendFails, ReceiptLost, Reverted, Confirmed
<1>2. CASE Mined
  BY <1>2 DEF Mined, flagDispute, postQuote
<1>3. CASE ChainStep /\ ~Mined
  BY <1>3 DEF ChainStep, Dropped, Resolves, resolve, Buys, buyYes, Sells, sellYes
<1>4. CASE Restart \/ UNCHANGED allVars
  BY <1>4 DEF Restart, allVars
<1>5. QED
  BY <1>1, <1>2, <1>3, <1>4 DEF ClobNext

LEMMA BackedInit == ClobInit => AllBacked
<1> SUFFICES ASSUME ClobInit PROVE AllBacked
  OBVIOUS
<1>1. escrow = Collateral /\ totalYes = 0 /\ bought = 0 /\ backedBy = 0 /\ maxTrade = FirstQuote.size
      /\ snap = None /\ sending = "no" /\ wire = None
  BY DEF ClobInit
<1>2. FirstQuote.size <= Collateral /\ FirstQuote.size \in Int
  BY FirstQuoteAssumption, ClobConstants DEF FirstQuoteAssumption
<1>3. Covers(maxTrade, backedBy)
  BY <1>1, <1>2, ClobConstants DEF Covers
<1>4. QED
  BY <1>1, <1>3 DEF AllBacked

LEMMA BackedNext ==
  TypeOK /\ ClobTypeOK /\ AllBacked /\ [ClobNext]_allVars => AllBacked'
<1> SUFFICES ASSUME TypeOK, ClobTypeOK, AllBacked, [ClobNext]_allVars, ~resolved'
             PROVE  /\ Covers(maxTrade, backedBy)'
                    /\ snap' # None => Covers(snap.room, snap.bought)'
                    /\ sending' # "no" => TxBacked(tx)'
                    /\ wire' # None => TxBacked(wire)'
  BY DEF AllBacked
<1>1. ~resolved
  BY SlackGrows
<1>2. ASSUME NEW t, IsTx(t), TxBacked(t)
      PROVE  TxBacked(t)'
  BY <1>2, TxStaysBacked
<1>3. ASSUME NEW size \in Int, NEW at \in Int, Covers(size, at)
      PROVE  Covers(size, at)'
  BY <1>3, StaysCovered
<1>4. Covers(maxTrade, backedBy)'
  <2>1. CASE UNCHANGED <<maxTrade, backedBy>>
    <3>1. maxTrade \in Int /\ backedBy \in Int /\ Covers(maxTrade, backedBy)
      BY <1>1, ClobConstants DEF AllBacked, TypeOK, ClobTypeOK
    <3>2. escrow' - totalYes' + (bought' - backedBy) >= maxTrade
      BY <1>3, <3>1 DEF Covers
    <3>3. QED
      BY <2>1, <3>2 DEF Covers
  <2>2. CASE /\ wire # None /\ wire.kind = "postQuote"
             /\ maxTrade' = wire.quote.size /\ backedBy' = wire.bought
    <3>1. IsTx(wire) /\ TxBacked(wire)
      BY <1>1, <2>2 DEF ClobTypeOK, AllBacked
    <3>2. Covers(wire.quote.size, wire.bought) /\ wire.quote \in Quotes /\ wire.bought \in Nat
      BY <2>2, <3>1, TxKinds DEF TxBacked
    <3>3. wire.quote.size \in Int /\ wire.bought \in Int
      BY <3>2, ClobConstants DEF Quotes
    <3>4. escrow' - totalYes' + (bought' - wire.bought) >= wire.quote.size
      BY <1>3, <3>2, <3>3 DEF Covers
    <3>5. QED
      BY <2>2, <3>4 DEF Covers
  <2>3. QED
    BY <2>1, <2>2, StandingStays
<1>5. ASSUME snap' # None PROVE Covers(snap.room, snap.bought)'
  <2>1. snap' \in Snapshots
    BY <1>5, SnapStays DEF Snapshots
  <2>2. PICK s : s = snap'
    OBVIOUS
  <2>3. Covers(s.room, s.bought) /\ s \in Snaps
    BY <1>1, <2>1, <2>2, SnapshotsCovered, SnapshotsTyped
  <2>4. s.room \in Int /\ s.bought \in Int
    BY <2>3 DEF Snaps
  <2>5. escrow' - totalYes' + (bought' - s.bought) >= s.room
    BY <1>3, <2>3, <2>4 DEF Covers
  <2>6. QED
    BY <2>2, <2>5 DEF Covers
<1>6. ASSUME sending' # "no" PROVE TxBacked(tx)'
  <2>1. PICK t : t = tx'
    OBVIOUS
  <2>2. IsTx(t) /\ TxBacked(t)
    <3>1. CASE sending # "no" /\ tx' = tx
      BY <1>1, <2>1, <3>1 DEF ClobTypeOK, AllBacked
    <3>2. CASE tx' = Flag
      BY <2>1, <3>2 DEF IsTx, TxBacked, Flag
    <3>3. ASSUME NEW s \in Snapshots, IsTx(tx'), tx' = Post(Collapse(pending, s), s),
                 Collapse(pending, s).size <= s.room
          PROVE  IsTx(t) /\ TxBacked(t)
      <4> DEFINE q == Collapse(pending, s)
      <4>1. Covers(s.room, s.bought) /\ s \in Snaps
        BY <1>1, SnapshotsCovered, SnapshotsTyped
      <4> HIDE DEF q
      <4>2. t.kind = "postQuote" /\ t.quote = q /\ t.bought = s.bought
        BY <2>1, <3>3 DEF Post, q
      <4>3. q \in Quotes
        BY <2>1, <3>3, <4>2, TxKinds
      <4>4. q.size \in Int /\ s.room \in Int /\ s.bought \in Int /\ q.size <= s.room
        BY <3>3, <4>1, <4>3, ClobConstants DEF Quotes, Snaps, q
      <4>5. escrow - totalYes + (bought - s.bought) >= s.room
        BY <4>1 DEF Covers
      <4>6. escrow - totalYes + (bought - s.bought) \in Int
        BY <4>4, ClobConstants DEF TypeOK, ClobTypeOK
      <4>7. escrow - totalYes + (bought - s.bought) >= q.size
        BY <4>4, <4>5, <4>6
      <4>8. QED
        BY <2>1, <3>3, <4>2, <4>7 DEF TxBacked, Covers
    <3>4. QED
      BY <1>6, <3>1, <3>2, <3>3, TxStays
  <2>3. t.kind = "postQuote" => escrow' - totalYes' + (bought' - t.bought) >= t.quote.size
    BY <1>2, <2>2 DEF TxBacked, Covers
  <2>4. QED
    BY <2>1, <2>3 DEF TxBacked, Covers
<1>7. ASSUME wire' # None PROVE TxBacked(wire)'
  <2>1. PICK t : t = wire'
    OBVIOUS
  <2>2. IsTx(t) /\ TxBacked(t)
    BY <1>1, <1>7, <2>1, WireStays DEF ClobTypeOK, AllBacked
  <2>3. t.kind = "postQuote" => escrow' - totalYes' + (bought' - t.bought) >= t.quote.size
    BY <1>2, <2>2 DEF TxBacked, Covers
  <2>4. QED
    BY <2>1, <2>3 DEF TxBacked, Covers
<1>8. QED
  BY <1>4, <1>5, <1>6, <1>7

(* The quote users trade against is backed by what the contract holds, up  *)
(* to the shares bought since the snapshot it was sized on: the first      *)
(* trade after a snapshot is always redeemable at one unit of USDC each,   *)
(* however old the cached snapshot was and however late it was mined.      *)
THEOREM QuotesAreBacked == ClobSpec => []QuoteBacked
<1>1. MarketInv /\ AllBacked /\ [ClobNext]_allVars => AllBacked'
  BY BackedNext DEF MarketInv
<1>2. AllBacked => QuoteBacked
  BY DEF AllBacked, Covers, QuoteBacked
<1>3. QED
  BY <1>1, <1>2, BackedInit, MarketInvAlways, PTL DEF ClobSpec
=============================================================================
