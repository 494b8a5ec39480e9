------------------------------ MODULE FillScan ------------------------------
(***************************************************************************)
(* How trades on the chain become inventory: the fill poll of              *)
(* execution/testnet_clob.py (_poll_fills), which scans each market's      *)
(* Traded events up to a confirmed height behind a cursor, and the loop of *)
(* execution/loop.py, which applies what the poll returned.                *)
(*                                                                         *)
(* The chain reorganises near its tip, and the RPC endpoint is many nodes, *)
(* some behind others.  An exception anywhere ends the tick: the keeper    *)
(* counts an error and starts the next one.                                *)
(*                                                                         *)
(* Inventory and the governor's exposure are sums over fills; what matters *)
(* here is which fills, so both are kept as the bag of trades they sum.    *)
(***************************************************************************)
EXTENDS Integers, Sequences, FiniteSets

CONSTANTS
  Trades,           \* users' trades, as transactions that may be mined
  Fleet,            \* the markets, in the order the poll visits them
  MarketOf,         \* [Trades -> markets]
  Deployed,         \* deployed_block of each market
  Confirmations,
  Lookback,         \* fill_lookback_blocks
  MaxReorg,         \* how far behind the highest block a reorganisation reaches
  MaxLag,           \* how far behind the chain a node of the endpoint may be
  MaxHead,          \* bounds the chain
  Sessions          \* bounds the keeper's starts

Markets == {Fleet[i] : i \in 1..Len(Fleet)}

ASSUME TradeAssumption == MarketOf \in [Trades -> Markets]
ASSUME DeployedAssumption == Deployed \in [Markets -> Nat]
ASSUME DepthAssumption ==
  /\ {Confirmations, Lookback, MaxReorg, MaxLag} \subseteq Nat
  /\ MaxReorg + MaxLag <= Confirmations
ASSUME FillBounds == MaxHead \in Nat /\ Sessions \in Nat

VARIABLES
  chain,            \* the canonical blocks: chain[h] holds the trades mined at height h
  tip,              \* the highest height there ever was
  phase,            \* of the tick: "idle", "poll", "apply"
  safe_head,        \* head - confirmations
  todo,             \* the markets this poll has still to visit
  events,           \* Traded events read and not looked at yet
  fills,            \* what the poll has collected, and the loop not applied yet
  last_scanned,     \* the cursor of each market, 0 until its first poll
  exposure,         \* times record_fill counted each trade
  inventory,        \* times the loop counted each trade
  since,            \* history: where the session's scan of each market started
  lost,             \* history: trades an exception dropped in this session
  sessions

chainVars == <<chain, tip>>
poll == <<phase, safe_head, todo, events, fills>>
books == <<last_scanned, exposure, inventory>>
fillVars == <<chainVars, poll, books, since, lost, sessions>>

NoTrades == [t \in Trades |-> 0]

FillInit ==
  /\ chain = <<>> /\ tip = 0 /\ sessions = 1
  /\ phase = "idle" /\ safe_head = 0 /\ todo = <<>> /\ events = {} /\ fills = {}
  /\ last_scanned = [m \in Markets |-> 0]
  /\ exposure = NoTrades /\ inventory = NoTrades
  /\ since = [m \in Markets |-> 0] /\ lost = {}
-----------------------------------------------------------------------------
(* The chain.  Every quote, and so every trade, comes after the block that *)
(* deployed its market.                                                    *)
MinedTrades == UNION {chain[h] : h \in 1..Len(chain)}

Mine(new) ==
  /\ Len(chain) < MaxHead
  /\ \A t \in new : t \notin MinedTrades /\ Deployed[MarketOf[t]] <= Len(chain)
  /\ chain' = Append(chain, new)
  /\ tip' = IF Len(chain) < tip THEN tip ELSE Len(chain) + 1
  /\ UNCHANGED <<poll, books, since, lost, sessions>>

\* A block leaves the canonical chain; its trades may be mined again.
Reorg ==
  /\ Len(chain) > 0 /\ Len(chain) > tip - MaxReorg
  /\ chain' = SubSeq(chain, 1, Len(chain) - 1)
  /\ UNCHANGED <<tip, poll, books, since, lost, sessions>>

\* The heights at which a node answering now may be.
Views == {h \in 0..Len(chain) : h >= Len(chain) - MaxLag}

\* Traded events of market m in blocks from..to, as a node at height view has them.
traded_logs(m, from, to, view) ==
  {t \in Trades : MarketOf[t] = m /\ \E h \in from..to : h \in 1..view /\ t \in chain[h]}
-----------------------------------------------------------------------------
(* _poll_fills.  (Defective variants of an operation are named after it;   *)
(* no specification uses them.)                                            *)
\* A head that cannot be read ends the poll, and changes nothing here.
head_block ==
  /\ phase = "idle"
  /\ \E view \in Views : safe_head' = view - Confirmations
  /\ phase' = "poll" /\ todo' = Fleet
  /\ UNCHANGED <<chainVars, events, fills, books, since, lost, sessions>>

Larger(a, b) == IF a < b THEN b ELSE a

ScanStart_skips(m) ==                   \* the lookback also cuts what an outage left behind
  IF last_scanned[m] = 0 THEN Larger(Deployed[m], safe_head - Lookback)
                         ELSE Larger(last_scanned[m], safe_head - Lookback)

ScanStart(m) == IF last_scanned[m] = 0 THEN Larger(Deployed[m], safe_head - Lookback)
                                   ELSE last_scanned[m]

Visiting(m) == phase = "poll" /\ events = {} /\ todo # <<>> /\ m = Head(todo)

Visited(m, cursor) ==
  /\ last_scanned' = [last_scanned EXCEPT ![m] = cursor]
  /\ since' = IF last_scanned[m] = 0 THEN [since EXCEPT ![m] = ScanStart(m)] ELSE since
  /\ todo' = Tail(todo)
  /\ UNCHANGED <<chainVars, phase, safe_head, fills, exposure, inventory, lost, sessions>>

NothingNew(m) ==
  /\ Visiting(m) /\ safe_head <= ScanStart(m)
  /\ Visited(m, ScanStart(m)) /\ UNCHANGED events

ScanFails_skips(m) ==               \* the cursor moves over blocks that were not read
  /\ Visiting(m) /\ safe_head > ScanStart(m)
  /\ Visited(m, safe_head) /\ UNCHANGED events

ScanFails(m) ==
  /\ Visiting(m) /\ safe_head > ScanStart(m)
  /\ Visited(m, ScanStart(m)) /\ UNCHANGED events

Scan(m) ==
  /\ Visiting(m) /\ safe_head > ScanStart(m)
  /\ \E view \in Views : events' = traded_logs(m, ScanStart(m) + 1, safe_head, view)
  /\ Visited(m, safe_head)

\* One event becomes a fill, and record_fill tells the governor.
Record(t) ==
  /\ phase = "poll" /\ t \in events
  /\ events' = events \ {t} /\ fills' = fills \cup {t}
  /\ exposure' = [exposure EXCEPT ![t] = @ + 1]
  /\ UNCHANGED <<chainVars, phase, safe_head, todo, last_scanned, inventory, since, lost, sessions>>

PollDone ==
  /\ phase = "poll" /\ todo = <<>> /\ events = {}
  /\ phase' = IF fills = {} THEN "idle" ELSE "apply"
  /\ UNCHANGED <<chainVars, safe_head, todo, events, fills, books, since, lost, sessions>>

(* run_loop: a fill changes inventory and cash, and is then logged.        *)
Apply(t) ==
  /\ phase = "apply" /\ t \in fills
  /\ inventory' = [inventory EXCEPT ![t] = @ + 1]
  /\ fills' = fills \ {t}
  /\ phase' = IF fills = {t} THEN "idle" ELSE "apply"
  /\ UNCHANGED <<chainVars, safe_head, todo, events, last_scanned, exposure, since, lost, sessions>>

(* A write of the risk ledger or of the session log raises: the tick ends, *)
(* and what it had still to do is dropped.                                 *)
TickRaises ==
  /\ phase # "idle" /\ (todo # <<>> \/ events \cup fills # {})
  /\ phase' = "idle" /\ todo' = <<>> /\ events' = {} /\ fills' = {}
  /\ lost' = lost \cup events \cup fills
  /\ UNCHANGED <<chainVars, safe_head, books, since, sessions>>

(* A new process, or a stop in the middle of anything: cursors, exposure   *)
(* and inventory live in memory.                                           *)
KeeperRestart ==
  /\ sessions < Sessions /\ sessions' = sessions + 1
  /\ phase' = "idle" /\ safe_head' = 0 /\ todo' = <<>> /\ events' = {} /\ fills' = {}
  /\ last_scanned' = [m \in Markets |-> 0]
  /\ exposure' = NoTrades /\ inventory' = NoTrades
  /\ since' = [m \in Markets |-> 0] /\ lost' = {}
  /\ UNCHANGED chainVars
-----------------------------------------------------------------------------
PollStep ==
  \/ head_block
  \/ \E m \in Markets : NothingNew(m) \/ Scan(m)
  \/ \E t \in Trades : Record(t) \/ Apply(t)
  \/ PollDone

FillNext ==
  \/ \E new \in SUBSET Trades : Mine(new)
  \/ Reorg
  \/ PollStep
  \/ \E m \in Markets : ScanFails(m)
  \/ TickRaises
  \/ KeeperRestart

FillSpec == FillInit /\ [][FillNext]_fillVars
-----------------------------------------------------------------------------
\* Trade t is in a block of the canonical chain that this session has scanned.
Scanned(t) ==
  \E h \in 1..Len(chain) :
    t \in chain[h] /\ since[MarketOf[t]] < h /\ h <= last_scanned[MarketOf[t]]

InPoll(t) == t \in events \cup fills

(* No trade moves the inventory twice, and none that a reorganisation took *)
(* back or a lagging node showed too early does: what is in the books, or  *)
(* on the way there, is in a scanned canonical block (the confirmations of *)
(* _poll_fills).  The governor has counted it first, and once.             *)
FillsAreFinal ==
  \A t \in Trades :
    /\ (inventory[t] > 0 \/ InPoll(t)) => inventory[t] <= 1 /\ Scanned(t)
    /\ exposure[t] <= 1 /\ (inventory[t] > 0 \/ t \in fills => exposure[t] = 1)

(* No trade of a scanned block is forgotten: it is in the inventory, on    *)
(* the way there, or was dropped by an exception - the one loss the cursor *)
(* allows, since it moves before the events are processed.                 *)
ScannedOnce ==
  \A t \in Trades : Scanned(t) =>
    Cardinality({x \in {"in", "way", "lost"} :
                   \/ x = "in" /\ inventory[t] > 0
                   \/ x = "way" /\ InPoll(t)
                   \/ x = "lost" /\ t \in lost}) = 1

\* The books match the canonical chain: no trade is booked that is not on it for good, or
\* twice, and none that was scanned is forgotten.
FillsMatchChain == FillsAreFinal /\ ScannedOnce

\* Trade t is buried deep enough for a poll of a node that is up to date.
Buried(t) == \E h \in 1..(Len(chain) - Confirmations) : t \in chain[h]

Settled(t) ==
  \/ inventory[t] > 0 \/ t \in lost
  \/ \E h \in 1..Len(chain) : t \in chain[h] /\ h <= since[MarketOf[t]]

(* A buried trade reaches the inventory, unless an exception drops it or   *)
(* it is older than the session's lookback: provided exceptions, which can *)
(* keep the poll from the later markets of the fleet, stop in the end.     *)
TradesDelivered ==
  \A t \in Trades : <>[]Buried(t) /\ <>[][~TickRaises]_fillVars => <>[]Settled(t)
=============================================================================
