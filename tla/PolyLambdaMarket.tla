-------------------------- MODULE PolyLambdaMarket --------------------------
(***************************************************************************)
(* The contract contracts/PolyLambdaMarket.sol: one binary market whose    *)
(* only maker is the engine.  The engine posts a two-sided quote and backs *)
(* it with USDC held by the contract (the escrow); users take against the  *)
(* quote, the engine may flag a dispute and resolves the market once.      *)
(*                                                                         *)
(* An action is one transaction that succeeds; a `require' that fails is a *)
(* disabled action, since a revert changes nothing.  The category and the  *)
(* lambda / sigma / timestamp fields are display data and left out.        *)
(*                                                                         *)
(* Prices are fractions of ONE, shares and USDC are in the same unit (one  *)
(* share redeems one unit of USDC), as in the contract.                    *)
(***************************************************************************)
EXTENDS Integers, FiniteSets, Functions

CONSTANTS Users,      \* accounts that trade
          Engine,     \* the account that deployed the contract
          ONE,        \* price scale (1e6 in the contract)
          MaxUint,    \* largest value of the integer type: checked arithmetic reverts above it
          InitialUSDC \* the accounts' USDC before the first transaction

ASSUME EngineAssumption == Engine \notin Users
ASSUME UsersAssumption == IsFiniteSet(Users)
ASSUME OneAssumption == ONE \in Nat \ {0}
ASSUME MaxUintAssumption == MaxUint \in Nat
ASSUME FundsAssumption == InitialUSDC \in [Users \cup {Engine} -> Nat]

VARIABLES usdc,      \* the ERC-20 balances of the accounts (every account has approved the contract)
          escrow,    \* usdc.balanceOf(address(this))
          yesBid, yesAsk, maxTrade,
          disputed, resolved, yesWon,
          yesShares, totalYes

quoteVars == <<yesBid, yesAsk, maxTrade>>
flagVars == <<disputed, resolved, yesWon>>
shareVars == <<yesShares, totalYes>>
moneyVars == <<usdc, escrow>>
vars == <<quoteVars, flagVars, shareVars, moneyVars>>

Accounts == Users \cup {Engine}

Init ==
  /\ usdc = InitialUSDC /\ escrow = 0
  /\ yesBid = 0 /\ yesAsk = 0 /\ maxTrade = 0
  /\ disputed = FALSE /\ resolved = FALSE /\ yesWon = FALSE
  /\ yesShares = [u \in Users |-> 0] /\ totalYes = 0
-----------------------------------------------------------------------------
(* The token transfers of the contract.  They revert when the payer's      *)
(* balance is short, and the whole transaction with them.                  *)

Pull(account, amount) ==    \* usdc.transferFrom(account, address(this), amount)
  /\ usdc[account] >= amount
  /\ usdc' = [usdc EXCEPT ![account] = @ - amount]
  /\ escrow' = escrow + amount

Push(account, amount) ==    \* usdc.transfer(account, amount)
  /\ escrow >= amount
  /\ usdc' = [usdc EXCEPT ![account] = @ + amount]
  /\ escrow' = escrow - amount

\* What `size' shares are worth at `price': integer division truncates.
Value(size, price) == (size * price) \div ONE
-----------------------------------------------------------------------------
fund(amount) ==
  /\ Pull(Engine, amount)
  /\ UNCHANGED <<quoteVars, flagVars, shareVars>>

postQuote(bid, ask, size) ==
  /\ ~resolved
  /\ bid < ask /\ ask <= ONE
  /\ yesBid' = bid /\ yesAsk' = ask /\ maxTrade' = size
  /\ UNCHANGED <<flagVars, shareVars, moneyVars>>

buyYes(u, size) ==
  /\ ~disputed /\ ~resolved
  /\ 0 < size /\ size <= maxTrade
  /\ Pull(u, Value(size, yesAsk))
  /\ totalYes + size <= MaxUint
  /\ yesShares' = [yesShares EXCEPT ![u] = @ + size]
  /\ totalYes' = totalYes + size
  /\ UNCHANGED <<quoteVars, flagVars>>

\* Defective variants of an operation are named after it; no specification uses them.

sellYes_uncounted(u, size) ==       \* totalYes is not maintained
  /\ ~resolved
  /\ 0 < size /\ size <= yesShares[u]
  /\ Push(u, Value(size, yesBid))
  /\ yesShares' = [yesShares EXCEPT ![u] = @ - size]
  /\ UNCHANGED <<totalYes, quoteVars, flagVars>>

sellYes(u, size) ==
  /\ ~resolved
  /\ 0 < size /\ size <= yesShares[u]
  /\ totalYes >= size           \* checked subtraction
  /\ Push(u, Value(size, yesBid))
  /\ yesShares' = [yesShares EXCEPT ![u] = @ - size]
  /\ totalYes' = totalYes - size
  /\ UNCHANGED <<quoteVars, flagVars>>

flagDispute ==
  /\ disputed' = TRUE
  /\ UNCHANGED <<resolved, yesWon, quoteVars, shareVars, moneyVars>>

resolve_again(outcome) ==           \* a second resolution is not refused
  /\ resolved' = TRUE /\ yesWon' = outcome
  /\ UNCHANGED <<disputed, quoteVars, shareVars, moneyVars>>

resolve(outcome) ==
  /\ ~resolved
  /\ resolved' = TRUE /\ yesWon' = outcome
  /\ UNCHANGED <<disputed, quoteVars, shareVars, moneyVars>>

redeem_unzeroed(u) ==               \* the shares are not taken when they are paid
  /\ resolved
  /\ yesShares[u] > 0
  /\ Push(u, IF yesWon THEN yesShares[u] ELSE 0)
  /\ UNCHANGED <<shareVars, quoteVars, flagVars>>

\* totalYes is left as it was: nothing reads it once the market is resolved.
redeem(u) ==
  /\ resolved
  /\ yesShares[u] > 0
  /\ Push(u, IF yesWon THEN yesShares[u] ELSE 0)
  /\ yesShares' = [yesShares EXCEPT ![u] = 0]
  /\ UNCHANGED <<totalYes, quoteVars, flagVars>>

withdraw(amount) ==
  /\ resolved
  /\ Push(Engine, amount)
  /\ UNCHANGED <<quoteVars, flagVars, shareVars>>
-----------------------------------------------------------------------------
EngineStep ==
  \/ \E amount \in 0..MaxUint : fund(amount) \/ withdraw(amount)
  \/ \E bid, ask \in 0..ONE, size \in 0..MaxUint : postQuote(bid, ask, size)
  \/ flagDispute
  \/ \E outcome \in BOOLEAN : resolve(outcome)

UserStep(u) ==
  \/ \E size \in 0..MaxUint : buyYes(u, size) \/ sellYes(u, size)
  \/ redeem(u)

Next == EngineStep \/ \E u \in Users : UserStep(u)

Spec == Init /\ [][Next]_vars
-----------------------------------------------------------------------------
TypeOK ==
  /\ usdc \in [Accounts -> Nat] /\ escrow \in Nat
  /\ yesBid \in 0..ONE /\ yesAsk \in 0..ONE /\ maxTrade \in 0..MaxUint
  /\ disputed \in BOOLEAN /\ resolved \in BOOLEAN /\ yesWon \in BOOLEAN
  /\ yesShares \in [Users -> Nat] /\ totalYes \in 0..MaxUint

\* What the contract owes at a YES win: one unit of USDC per share held.
Owed == SumFunction(yesShares)

(* The engine sizes its quotes from totalYes (snapshot(), testnet_clob.py  *)
(* 183), so the counter must be the sum of the positions for as long as    *)
(* quotes can be posted.  Redemptions do not maintain it: from resolution  *)
(* on it only bounds what is still held.                                   *)
SharesAccounted ==
  /\ ~resolved => totalYes = Owed
  /\ resolved => Owed <= totalYes

(* A closed market only unwinds: a dispute and a resolution are never      *)
(* taken back, the outcome never flips once redemptions may have begun     *)
(* (the comment of resolve), and no position grows after either.           *)
ClosedMarketOnlyUnwinds ==
  [][/\ disputed => disputed'
     /\ resolved => resolved' /\ yesWon' = yesWon /\ UNCHANGED quoteVars
     /\ disputed \/ resolved => \A u \in Users : yesShares'[u] <= yesShares[u]]_vars

(* After resolution a user's wallet changes by exactly what the shares it  *)
(* gives up are worth: nobody is paid twice for a share, nobody is paid on *)
(* a NO outcome, and a step that pays one user takes no other's shares.    *)
RedeemedExactlyOnce ==
  [][resolved =>
       \A u \in Users :
         usdc'[u] - usdc[u] = IF yesWon THEN yesShares[u] - yesShares'[u] ELSE 0]_vars
=============================================================================
