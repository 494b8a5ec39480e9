-------------------------- MODULE WebProcessProofs --------------------------
(***************************************************************************)
(* What the web process does in the background, for any number of clients, *)
(* threads, governors, requests and scans: one keeper, one late tick and   *)
(* one governor (KeeperLifecycle), the fill poll's blocks (FillScan), one   *)
(* scan at a time of the tail (LiveTail) and of the detector               *)
(* (ProposalFeed); and what its routes show: disputes that happened        *)
(* (DisputeFeed), artifacts that were whole (WebCaches).                   *)
(***************************************************************************)
EXTENDS KeeperLifecycle, FillScan, LiveTail, ProposalFeed, DisputeFeed, WebCaches, FiniteSetTheorems, SequenceTheorems, TLAPS

CallerPlaces == {"idle", "done", "start", "clear", "create", "launch", "stop", "read", "join", "risk", "riskNew"}
RunPlaces == InRun \cup {"new", "lock", "dead"}

TypeInv ==
  /\ at \in [Callers -> CallerPlaces] /\ pc \in [Threads -> RunPlaces]
  /\ thread \in 0..made /\ made \in 0..MaxThreads
  /\ late \in Nat /\ governors \in Nat /\ stop \in BOOLEAN /\ raced \in BOOLEAN

\* What runs holds the lock, so two threads never are inside run().
Holds == \A t \in Threads : pc[t] \in InRun => lock = t

\* Before a stop no tick is late, and after the late one none is about to begin.
Ticking ==
  /\ ~stop => late = 0
  /\ late <= 1
  /\ late = 1 => \A t \in Threads : pc[t] # "tick"

\* A thread that was started has been made, and is in the clob only with a governor, which
\* stays; the clob of a thread that makes a governor is not there yet.
Governed ==
  /\ \A c \in Callers : at[c] \in {"risk", "riskNew"} => c \in Clients
  /\ \A t \in Threads : pc[t] # "new" => t <= made
  /\ \A t \in Threads : pc[t] = "clob" => risk # None
  /\ \A t \in Threads : pc[t] = "riskNew" => clob = None
  /\ clob # None => risk # None

\* A request that is about to replace a governor some thread has passed was seen.
Seen ==
  /\ \E c \in Clients : at[c] = "riskNew"
  /\ clob # None \/ \E t \in Threads : pc[t] \in {"riskNew", "clob"}
  => raced

LifecycleInv == TypeInv /\ Holds /\ Ticking /\ Governed /\ Seen /\ GateIsGovernor
-----------------------------------------------------------------------------
LEMMA LifecycleInvInit == LifecycleInit => LifecycleInv
<1> SUFFICES ASSUME LifecycleInit PROVE LifecycleInv
  OBVIOUS
<1> USE LifecycleAssumption DEF LifecycleAssumption, LifecycleInit, Threads, None
<1>1. TypeInv
  <2>1. at \in [Callers -> CallerPlaces]
    BY DEF CallerPlaces
  <2>2. pc \in [Threads -> RunPlaces]
    BY DEF RunPlaces
  <2>3. thread \in 0..made /\ made \in 0..MaxThreads
    OBVIOUS
  <2>4. late \in Nat /\ governors \in Nat /\ stop \in BOOLEAN /\ raced \in BOOLEAN
    OBVIOUS
  <2>5. QED
    BY <2>1, <2>2, <2>3, <2>4 DEF TypeInv
<1>2. Holds /\ Ticking
  BY DEF Holds, InRun, Ticking
<1>3. Governed /\ Seen /\ GateIsGovernor
  BY DEF Governed, Seen, GateIsGovernor, Callers
<1>4. QED
  BY <1>1, <1>2, <1>3 DEF LifecycleInv

\* The callers: they make and launch threads, set and clear _stop, and make a governor.
LEMMA CallerStep ==
  ASSUME LifecycleInv, NEW c \in Callers, CallStart(c) \/ start_background(c) \/ CallStop(c)
         \/ stop_keeper(c) \/ CallRisk(c) \/ _risk(c)
  PROVE  LifecycleInv'
<1> USE LifecycleAssumption DEF LifecycleAssumption, LifecycleInv, TypeInv, CallerPlaces, RunPlaces, Threads, None, Move, Home, govVars, stopVars
<1>1. CASE CallStart(c)
  BY <1>1 DEF CallStart, get_keeper, Holds, Ticking, Governed, Seen, GateIsGovernor, InRun, Booting, callerVars
<1>2. CASE CallStop(c)
  BY <1>2 DEF CallStop, get_keeper, Holds, Ticking, Governed, Seen, GateIsGovernor, InRun, Booting, callerVars
<1>3. CASE CallRisk(c)
  BY <1>3 DEF CallRisk, get_keeper, Holds, Ticking, Governed, Seen, GateIsGovernor, InRun, Booting, callerVars
<1>4. CASE StartCheck(c)
  BY <1>4 DEF StartCheck, get_keeper, Holds, Ticking, Governed, Seen, GateIsGovernor, InRun, Booting, callerVars
<1>5. CASE StartClear(c)
  <2> USE <1>5 DEF StartClear, callerVars
  <2>1. TypeInv'
    OBVIOUS
  <2>2. Holds'
    BY DEF Holds, InRun
  <2>3. Ticking'
    BY DEF Ticking
  <2>4. Governed'
    BY DEF Governed
  <2>5. Seen' /\ GateIsGovernor'
    BY DEF Seen, Governed, GateIsGovernor
  <2>6. QED
    BY <2>1, <2>2, <2>3, <2>4, <2>5 DEF LifecycleInv
<1>6. CASE StartCreate(c)
  BY <1>6 DEF StartCreate, get_keeper, Holds, Ticking, Governed, Seen, GateIsGovernor, InRun, Booting, callerVars
<1>7. CASE StartLaunch(c)
  <2> USE <1>7 DEF StartLaunch, callerVars
  <2>1. TypeInv'
    OBVIOUS
  <2>2. Holds'
    BY DEF Holds, InRun
  <2>3. Ticking'
    BY DEF Ticking
  <2>4. Governed'
    BY DEF Governed
  <2>5. Seen' /\ GateIsGovernor'
    BY DEF Seen, Governed, GateIsGovernor
  <2>6. QED
    BY <2>1, <2>2, <2>3, <2>4, <2>5 DEF LifecycleInv
<1>8. CASE StopSet(c)
  BY <1>8 DEF StopSet, get_keeper, Holds, Ticking, Governed, Seen, GateIsGovernor, InRun, Booting, callerVars
<1>9. CASE StopRead(c)
  BY <1>9 DEF StopRead, get_keeper, Holds, Ticking, Governed, Seen, GateIsGovernor, InRun, Booting, callerVars
<1>10. CASE StopJoined(c)
  BY <1>10 DEF StopJoined, get_keeper, Holds, Ticking, Governed, Seen, GateIsGovernor, InRun, Booting, callerVars
<1>11. CASE RiskCheck(c)
  <2> USE <1>11 DEF RiskCheck, callerVars
  <2>1. TypeInv'
    OBVIOUS
  <2>2. Holds'
    BY DEF Holds, InRun
  <2>3. Ticking'
    BY DEF Ticking
  <2>4. Governed'
    BY DEF Governed
  <2>5. Seen' /\ GateIsGovernor'
    <3>1. CASE risk = None
      <4>1. clob = None
        BY <3>1 DEF Governed
      <4>2. ASSUME NEW t \in Threads, pc[t] \in {"riskNew", "clob"}
            PROVE  raced'
        <5>1. pc[t] # "new"
          BY <4>2
        <5>2. t \in 1..made
          BY <5>1 DEF Governed
        <5>3. Booting
          BY <4>2, <5>2 DEF Booting
        <5>4. QED
          BY <3>1, <5>3, Zenon
      <4>3. QED
        BY <4>1, <4>2 DEF Seen, GateIsGovernor
    <3>2. CASE risk # None
      BY <3>2 DEF Seen, Governed, GateIsGovernor
    <3>3. QED
      BY <3>1, <3>2
  <2>6. QED
    BY <2>1, <2>2, <2>3, <2>4, <2>5 DEF LifecycleInv
<1>12. CASE RiskNew(c)
  BY <1>12 DEF RiskNew, get_keeper, Holds, Ticking, Governed, Seen, GateIsGovernor, InRun, Booting, callerVars
<1>13. QED
  BY <1>1, <1>2, <1>3, <1>4, <1>5, <1>6, <1>7, <1>8, <1>9, <1>10, <1>11, <1>12 DEF start_background, stop_keeper, _risk

\* The keeper's threads.
LEMMA RunStep ==
  ASSUME LifecycleInv, NEW t \in Threads, run(t)
  PROVE  LifecycleInv'
<1> USE LifecycleAssumption DEF LifecycleAssumption, LifecycleInv, TypeInv, CallerPlaces, RunPlaces, Threads, None, Goto, govVars, runUnchanged, callerVars
<1>1. CASE Acquire(t)
  BY <1>1 DEF Acquire, Leave, Holds, Ticking, Governed, Seen, GateIsGovernor, InRun
<1>2. CASE EnsureRisk(t)
  BY <1>2 DEF EnsureRisk, Leave, Holds, Ticking, Governed, Seen, GateIsGovernor, InRun
<1>3. CASE EnsureRiskNew(t)
  BY <1>3 DEF EnsureRiskNew, Leave, Holds, Ticking, Governed, Seen, GateIsGovernor, InRun
<1>4. CASE EnsureClob(t)
  BY <1>4 DEF EnsureClob, Leave, Holds, Ticking, Governed, Seen, GateIsGovernor, InRun
<1>5. CASE EnsureMarkets(t)
  BY <1>5 DEF EnsureMarkets, Leave, Holds, Ticking, Governed, Seen, GateIsGovernor, InRun
<1>6. CASE BootFails(t)
  BY <1>6 DEF BootFails, Leave, Holds, Ticking, Governed, Seen, GateIsGovernor, InRun
<1>7. CASE CheckStop(t)
  BY <1>7 DEF CheckStop, Leave, Holds, Ticking, Governed, Seen, GateIsGovernor, InRun
<1>8. CASE Tick(t)
  BY <1>8 DEF Tick, Leave, Holds, Ticking, Governed, Seen, GateIsGovernor, InRun
<1>9. CASE MarkEquity(t)
  BY <1>9 DEF MarkEquity, Leave, Holds, Ticking, Governed, Seen, GateIsGovernor, InRun
<1>10. CASE MarkDies(t)
  BY <1>10 DEF MarkDies, Leave, Holds, Ticking, Governed, Seen, GateIsGovernor, InRun
<1>11. CASE Wait(t)
  BY <1>11 DEF Wait, Leave, Holds, Ticking, Governed, Seen, GateIsGovernor, InRun
<1>12. CASE BurstOver(t)
  BY <1>12 DEF BurstOver, Leave, Holds, Ticking, Governed, Seen, GateIsGovernor, InRun
<1>13. QED
  BY <1>1, <1>2, <1>3, <1>4, <1>5, <1>6, <1>7, <1>8, <1>9, <1>10, <1>11, <1>12 DEF run

\* The shutdown of the server changes where the lifespan is, and no more.
LEMMA ShutdownStep == ASSUME LifecycleInv, Shutdown PROVE LifecycleInv'
<1> USE LifecycleAssumption DEF LifecycleAssumption, LifecycleInv, Shutdown, govVars, stopVars
<1>1. TypeInv'
  BY DEF TypeInv, CallerPlaces
<1>2. Holds' /\ Ticking'
  BY DEF Holds, Ticking
<1>3. Governed' /\ Seen' /\ GateIsGovernor'
  BY DEF Governed, Seen, GateIsGovernor, TypeInv, Callers
<1>4. QED
  BY <1>1, <1>2, <1>3

LEMMA LifecycleInvNext == LifecycleInv /\ [LifecycleNext]_lifecycleVars => LifecycleInv'
<1> SUFFICES ASSUME LifecycleInv, [LifecycleNext]_lifecycleVars PROVE LifecycleInv'
  OBVIOUS
<1>1. CASE UNCHANGED lifecycleVars
  BY <1>1 DEF lifecycleVars, callerVars, stopVars, govVars, LifecycleInv, TypeInv, Holds, Ticking, Governed, Seen, GateIsGovernor
<1>2. CASE LifecycleNext
  BY <1>2, CallerStep, ShutdownStep, RunStep DEF LifecycleNext
<1>3. QED
  BY <1>1, <1>2

LEMMA LifecycleInvAlways == LifecycleSpec => []LifecycleInv
  BY LifecycleInvInit, LifecycleInvNext, PTL DEF LifecycleSpec
-----------------------------------------------------------------------------
\* At most one thread is inside run(): it is the one that holds the lock.
LEMMA HolderAlone == LifecycleInv => OneKeeperRuns
<1> SUFFICES ASSUME LifecycleInv PROVE OneKeeperRuns
  OBVIOUS
<1> DEFINE Inside == {t \in Threads : pc[t] \in InRun}
<1>1. Inside \in SUBSET {lock}
  BY DEF LifecycleInv, Holds
<1>2. IsFiniteSet({lock}) /\ Cardinality({lock}) = 1
  BY FS_Singleton
<1>3. Cardinality(Inside) <= 1
  BY <1>1, <1>2, FS_Subset
<1>4. QED
  BY <1>3 DEF OneKeeperRuns

\* For any number of callers and threads, start_background without a lock makes threads
\* that wait on run()'s, and one keeper ticks.
THEOREM OneKeeperAlways == LifecycleSpec => []OneKeeperRuns
  BY LifecycleInvAlways, HolderAlone, PTL

\* For any number of callers and threads, one tick at most begins between the moment
\* _stop is set and the next start.
THEOREM OneLateTick == LifecycleSpec => []LastTickAfterStop
<1>1. LifecycleInv => LastTickAfterStop
  BY DEF LifecycleInv, Ticking, LastTickAfterStop
<1>2. QED
  BY LifecycleInvAlways, <1>1, PTL

\* For any number of callers, threads and governors, the clob's governor is the one that is
\* fed and shown, unless a risk request overlapped _ensure.
THEOREM GateAlwaysGovernor == LifecycleSpec => []GateIsGovernor
<1>1. LifecycleInv => GateIsGovernor
  BY DEF LifecycleInv
<1>2. QED
  BY LifecycleInvAlways, <1>1, PTL
-----------------------------------------------------------------------------
\* A request or a scan that is behind the flag: it was set for it and not yet cleared.
Asking == {r \in Requests : req[r] \in {"add", "start"}}
Active == {s \in Scans : scan_at[s] \in {"scanning", "landed"}}

TailTypeOK ==
  /\ req \in [Requests -> {"idle", "add", "start"}] /\ mine \in [Requests -> Nat]
  /\ scan_at \in [Scans -> {"new", "scanning", "landed", "unflagged", "done"}]
  /\ tail_refreshing \in BOOLEAN /\ scans_made \in Nat

\* The flag is there for one of them.
FlagOwned ==
  /\ \A r1, r2 \in Asking : r1 = r2
  /\ \A s1, s2 \in Active : s1 = s2
  /\ Asking = {} \/ Active = {}
  /\ ~tail_refreshing => Asking = {} /\ Active = {}

TailInv == TailTypeOK /\ FlagOwned
-----------------------------------------------------------------------------
LEMMA TailInvInit == TailInit => TailInv
<1> SUFFICES ASSUME TailInit PROVE TailInv
  OBVIOUS
<1>1. TailTypeOK
  BY DEF TailInit, TailTypeOK, NoScan
<1>2. Asking = {} /\ Active = {}
  BY DEF TailInit, Asking, Active
<1>3. QED
  BY <1>1, <1>2 DEF TailInv, FlagOwned

\* The request that sets the flag is alone behind it.
LEMMA RequestStep ==
  ASSUME TailInv, NEW r \in Requests, _refresh_tail_async(r) \/ Added(r) \/ Started(r) \/ StartFails(r)
  PROVE  TailInv'
<1> USE DEF TailInv
<1>1. CASE _refresh_tail_async(r)
  BY <1>1 DEF _refresh_tail_async, tailStopVars, TailTypeOK, FlagOwned, Asking, Active
<1>2. CASE Added(r)
  <2>1. scans_made' \in Nat /\ req' \in [Requests -> {"idle", "add", "start"}]
    BY <1>2 DEF Added, TailTypeOK
  <2>2. Asking' = Asking /\ Active' = Active
    BY <1>2 DEF Added, Asking, Active, TailTypeOK
  <2>3. QED
    BY <1>2, <2>1, <2>2 DEF Added, TailTypeOK, FlagOwned
<1>3. CASE Started(r)
  <2>1. r \in Asking /\ Active = {} /\ Asking = {r} /\ tail_refreshing
    BY <1>3 DEF Started, Asking, FlagOwned
  <2>2. Asking' = {}
    BY <1>3, <2>1 DEF Started, Asking, TailTypeOK
  <2>3. \A s \in Active' : s = mine[r]
    BY <1>3, <2>1 DEF Started, Active, TailTypeOK
  <2>4. TailTypeOK'
    BY <1>3 DEF Started, TailTypeOK
  <2>5. QED
    BY <1>3, <2>1, <2>2, <2>3, <2>4 DEF Started, FlagOwned
<1>4. CASE StartFails(r)
  <2>1. r \in Asking /\ Active = {} /\ Asking = {r}
    BY <1>4 DEF StartFails, Asking, FlagOwned
  <2>2. Asking' = {} /\ Active' = {}
    BY <1>4, <2>1 DEF StartFails, Asking, Active, TailTypeOK
  <2>3. TailTypeOK'
    BY <1>4 DEF StartFails, tailStopVars, TailTypeOK
  <2>4. QED
    BY <2>2, <2>3 DEF FlagOwned
<1>5. QED
  BY <1>1, <1>2, <1>3, <1>4

\* Only the scan behind the flag clears it, and it is over by then.
LEMMA ScanStep ==
  ASSUME TailInv, NEW s \in Scans,
         Landed(s) \/ Unflagged(s) \/ Discarded(s) \/ Joined(s) \/ JoinRaises(s)
  PROVE  TailInv'
<1> USE DEF TailInv, tailStopVars
<1>1. CASE Landed(s)
  <2>1. Asking' = Asking /\ Active' = Active
    BY <1>1 DEF Landed, Asking, Active, TailTypeOK
  <2>2. QED
    BY <1>1, <2>1 DEF Landed, TailTypeOK, FlagOwned
<1>2. CASE Unflagged(s)
  <2>1. s \in Active /\ Active = {s} /\ Asking = {}
    BY <1>2 DEF Unflagged, Active, FlagOwned
  <2>2. Asking' = {} /\ Active' = {}
    BY <1>2, <2>1 DEF Unflagged, Asking, Active, TailTypeOK
  <2>3. TailTypeOK'
    BY <1>2 DEF Unflagged, TailTypeOK
  <2>4. QED
    BY <2>2, <2>3 DEF FlagOwned
<1>3. CASE Discarded(s)
  <2>1. Asking' = Asking /\ Active' = Active
    BY <1>3 DEF Discarded, Asking, Active, TailTypeOK
  <2>2. QED
    BY <1>3, <2>1 DEF Discarded, TailTypeOK, FlagOwned
<1>4. CASE Joined(s) \/ JoinRaises(s)
  BY <1>4 DEF Joined, JoinRaises, TailTypeOK, FlagOwned, Asking, Active
<1>5. QED
  BY <1>1, <1>2, <1>3, <1>4

\* Stops and resumes leave the flag, the requests and the scans alone.
LEMMA StopStep ==
  ASSUME TailInv, TailExpires \/ TailStopSet \/ StopLists \/ StopClears \/ resume_tail \/ UNCHANGED tailVars
  PROVE  TailInv'
<1>1. UNCHANGED <<req, mine, tail_refreshing, scans_made, scan_at>>
  BY DEF TailExpires, TailStopSet, StopLists, StopClears, resume_tail, tailVars
<1>2. QED
  BY <1>1 DEF TailInv, TailTypeOK, FlagOwned, Asking, Active

LEMMA TailInvAlways == TailSpec => []TailInv
<1>1. TailInv /\ [TailNext]_tailVars => TailInv'
  BY RequestStep, ScanStep, StopStep DEF TailNext
<1>2. QED
  BY TailInvInit, <1>1, PTL DEF TailSpec

\* For any number of requests, scans, stops and resumes there is one scan of the chain at a
\* time, counting the one whose thread is about to start.
THEOREM OneScanAlways == TailSpec => []OneScan
<1>1. TailInv => OneScan
  <2> SUFFICES ASSUME TailInv PROVE OneScan
    OBVIOUS
  <2> DEFINE All == Running \cup {mine[r] : r \in {r \in Requests : req[r] = "start"}}
  <2>1. \A x, y \in All : x = y
    BY DEF TailInv, FlagOwned, Asking, Active, Running
  <2>2. \E x : All \in SUBSET {x}
    BY <2>1
  <2>3. PICK x : All \in SUBSET {x}
    BY <2>2
  <2>4. IsFiniteSet({x}) /\ Cardinality({x}) = 1
    BY FS_Singleton
  <2>5. Cardinality(All) <= 1
    BY <2>3, <2>4, FS_Subset
  <2>6. QED
    BY <2>5 DEF OneScan
<1>2. QED
  BY TailInvAlways, <1>1, PTL
-----------------------------------------------------------------------------
(* The fill poll, for any fleet, trades and lookback, and for any number   *)
(* of confirmations that covers the deepest reorganisation and the node    *)
(* that lags most.                                                         *)

(* What the fill poll's two promises rest on.  No height that was scanned  *)
(* is above what a reorganisation can reach, and none was hidden by a node *)
(* that lags.                                                              *)
ChainOK ==
  /\ chain \in Seq(SUBSET Trades) /\ tip \in Nat
  /\ Len(chain) <= tip /\ tip - MaxReorg <= Len(chain)
  /\ \A t \in Trades : \A h, k \in 1..Len(chain) : t \in chain[h] /\ t \in chain[k] => h = k

CursorsOK ==
  /\ last_scanned \in [Markets -> Nat] /\ since \in [Markets -> Nat]
  /\ safe_head \in Int /\ (phase = "poll" => safe_head <= tip - Confirmations)
  /\ \A m \in Markets :
       /\ last_scanned[m] # 0 => since[m] <= last_scanned[m]
       /\ since[m] < last_scanned[m] => last_scanned[m] <= tip - Confirmations

BooksTyped ==
  /\ inventory \in [Trades -> Nat] /\ exposure \in [Trades -> Nat]
  /\ events \subseteq Trades /\ fills \subseteq Trades /\ lost \subseteq Trades

\* A trade nobody scanned is nowhere; one that was scanned is read, then counted by the
\* governor, then booked, or it was lost on the way.
Placed(t) ==
  /\ inventory[t] <= 1 /\ exposure[t] <= 1
  /\ ~Scanned(t) => inventory[t] = 0 /\ exposure[t] = 0 /\ t \notin events \cup fills \cup lost
  /\ Scanned(t) => inventory[t] = 1 \/ t \in events \cup fills \cup lost
  /\ t \in events => exposure[t] = 0 /\ inventory[t] = 0 /\ t \notin fills \cup lost
  /\ t \in fills => exposure[t] = 1 /\ inventory[t] = 0 /\ t \notin lost
  /\ t \in lost => inventory[t] = 0
  /\ inventory[t] = 1 => exposure[t] = 1

FillInv == ChainOK /\ CursorsOK /\ BooksTyped /\ \A t \in Trades : Placed(t)
-----------------------------------------------------------------------------
LEMMA FillConstants ==
  /\ Confirmations \in Nat /\ Lookback \in Nat /\ MaxReorg \in Nat /\ MaxLag \in Nat
  /\ MaxReorg + MaxLag <= Confirmations
  BY DepthAssumption DEF DepthAssumption

LEMMA TradesOnMarkets == \A t \in Trades : MarketOf[t] \in Markets
  BY TradeAssumption DEF TradeAssumption

LEMMA FillInvInit == FillInit => FillInv
<1> SUFFICES ASSUME FillInit PROVE FillInv
  OBVIOUS
<1> USE DEF FillInit
<1>1. ChainOK
  BY FillConstants DEF ChainOK
<1>2. CursorsOK
  BY FillConstants DEF CursorsOK
<1>3. BooksTyped
  BY DEF BooksTyped, NoTrades
<1>4. \A t \in Trades : ~Scanned(t) /\ Placed(t)
  BY DEF Scanned, Placed, NoTrades
<1>5. QED
  BY <1>1, <1>2, <1>3, <1>4 DEF FillInv

\* The scanned heights of a market are out of reach of the chain's tip.
LEMMA ScannedDeep ==
  ASSUME ChainOK, CursorsOK, NEW m \in Markets, NEW h \in Nat, since[m] < h, h <= last_scanned[m]
  PROVE  h <= tip - Confirmations /\ h <= Len(chain) - MaxLag
<1>1. since[m] \in Nat /\ last_scanned[m] \in Nat /\ tip \in Nat /\ Len(chain) \in Nat
  BY DEF CursorsOK, ChainOK
<1>2. since[m] < last_scanned[m]
  BY <1>1
<1>3. last_scanned[m] <= tip - Confirmations /\ tip - MaxReorg <= Len(chain)
  BY <1>2 DEF CursorsOK, ChainOK
<1>4. QED
  BY <1>1, <1>3, FillConstants

\* A trade stays placed when the books are left alone and the same blocks are scanned.
LEMMA PlacedKept ==
  ASSUME NEW t \in Trades, Placed(t), Scanned(t)' <=> Scanned(t),
         UNCHANGED <<inventory, exposure, events, fills, lost>>
  PROVE  Placed(t)'
  BY DEF Placed

LEMMA ScannedKept ==
  ASSUME UNCHANGED <<chain, since, last_scanned>>, NEW t \in Trades
  PROVE  Scanned(t)' <=> Scanned(t)
  BY DEF Scanned

\* The first elements of a sequence.
LEMMA FirstOnes ==
  ASSUME NEW S, NEW s \in Seq(S), NEW n \in Nat, n < Len(s), NEW f, f = SubSeq(s, 1, n)
  PROVE  f \in Seq(S) /\ Len(f) = n /\ \A h \in 1..n : f[h] = s[h]
<1>1. f \in Seq(S)
  OBVIOUS
<1>2. Len(f) = n
  OBVIOUS
<1>3. \A h \in 1..n : f[h] = s[h]
  OBVIOUS
<1>4. QED
  BY <1>1, <1>2, <1>3

\* A new block, and a block that is taken back, is above every scanned height.
LEMMA MineKeeps ==
  ASSUME FillInv, NEW new \in SUBSET Trades, Mine(new)
  PROVE  FillInv'
<1> USE DEF FillInv
<1>1. /\ chain' = Append(chain, new) /\ tip' = (IF Len(chain) < tip THEN tip ELSE Len(chain) + 1)
      /\ \A t \in new : t \notin MinedTrades
      /\ UNCHANGED <<phase, safe_head, events, fills, last_scanned, exposure, inventory, since, lost>>
  BY DEF Mine, poll, books
<1>2. chain \in Seq(SUBSET Trades) /\ tip \in Nat /\ Len(chain) \in Nat /\ Len(chain) <= tip
      /\ tip - MaxReorg <= Len(chain)
  BY DEF ChainOK
<1>3. /\ chain' \in Seq(SUBSET Trades) /\ Len(chain') = Len(chain) + 1
      /\ chain'[Len(chain) + 1] = new
      /\ \A h \in 1..Len(chain) : chain'[h] = chain[h]
  BY <1>1, <1>2
<1>4. tip' \in Nat /\ tip <= tip' /\ Len(chain') <= tip' /\ tip' - MaxReorg <= Len(chain')
  <2>1. CASE Len(chain) < tip
    BY <1>1, <1>2, <1>3, <2>1, FillConstants
  <2>2. CASE ~(Len(chain) < tip)
    <3>1. tip = Len(chain) /\ tip' = Len(chain) + 1
      BY <1>1, <1>2, <2>2
    <3>2. QED
      BY <1>2, <1>3, <3>1, FillConstants
  <2>3. QED
    BY <2>1, <2>2
<1>5. \A t \in new : \A h \in 1..Len(chain) : t \notin chain[h]
  BY <1>1 DEF MinedTrades
<1>6. ChainOK'
  <2>1. ASSUME NEW t \in Trades, NEW h \in 1..Len(chain'), NEW k \in 1..Len(chain'),
               t \in chain'[h], t \in chain'[k]
        PROVE  h = k
    <3>1. (h \in 1..Len(chain) \/ h = Len(chain) + 1) /\ (k \in 1..Len(chain) \/ k = Len(chain) + 1)
      BY <1>2, <1>3
    <3>2. CASE h \in 1..Len(chain) /\ k \in 1..Len(chain)
      BY <1>3, <2>1, <3>2 DEF ChainOK
    <3>3. CASE h = Len(chain) + 1 /\ k \in 1..Len(chain)
      BY <1>3, <1>5, <2>1, <3>3
    <3>4. CASE h \in 1..Len(chain) /\ k = Len(chain) + 1
      BY <1>3, <1>5, <2>1, <3>4
    <3>5. QED
      BY <3>1, <3>2, <3>3, <3>4
  <2>2. QED
    BY <1>3, <1>4, <2>1 DEF ChainOK
<1>7. CursorsOK'
  <2>1. phase' = "poll" => safe_head' <= tip' - Confirmations
    BY <1>1, <1>2, <1>4, FillConstants DEF CursorsOK
  <2>2. ASSUME NEW m \in Markets, since[m] < last_scanned[m]
        PROVE  last_scanned[m] <= tip' - Confirmations
    <3>1. last_scanned[m] <= tip - Confirmations /\ last_scanned[m] \in Nat
      BY <2>2 DEF CursorsOK
    <3>2. QED
      BY <1>2, <1>4, <3>1, FillConstants
  <2>3. QED
    BY <1>1, <2>1, <2>2 DEF CursorsOK
<1>8. ASSUME NEW t \in Trades PROVE Scanned(t)' <=> Scanned(t)
  <2> DEFINE m == MarketOf[t]
  <2>1. m \in Markets
    BY TradesOnMarkets
  <2>2. ASSUME NEW h \in 1..Len(chain'), since[m] < h, h <= last_scanned[m]
        PROVE  h \in 1..Len(chain)
    <3>1. h <= Len(chain) - MaxLag
      BY <1>2, <1>3, <2>1, <2>2, ScannedDeep
    <3>2. QED
      BY <1>2, <1>3, <3>1, FillConstants
  <2>3. 1..Len(chain) \subseteq 1..Len(chain')
    BY <1>2, <1>3
  <2>4. QED
    BY <1>1, <1>3, <2>2, <2>3 DEF Scanned
<1>9. BooksTyped'
  BY <1>1 DEF BooksTyped
<1>10. QED
  BY <1>1, <1>6, <1>7, <1>8, <1>9, PlacedKept

LEMMA ReorgKeeps ==
  ASSUME FillInv, Reorg
  PROVE  FillInv'
<1> USE DEF FillInv
<1>1. /\ chain' = SubSeq(chain, 1, Len(chain) - 1) /\ Len(chain) > 0 /\ Len(chain) > tip - MaxReorg
      /\ UNCHANGED <<tip, phase, safe_head, events, fills, last_scanned, exposure, inventory, since, lost>>
  BY DEF Reorg, poll, books
<1>2. chain \in Seq(SUBSET Trades) /\ tip \in Nat /\ Len(chain) \in Nat /\ Len(chain) <= tip
  BY DEF ChainOK
<1>3. /\ chain' \in Seq(SUBSET Trades) /\ Len(chain') = Len(chain) - 1
      /\ \A h \in 1..(Len(chain) - 1) : chain'[h] = chain[h]
  <2>1. PICK n \in Nat : n = Len(chain) - 1
    BY <1>1, <1>2
  <2>2. n < Len(chain) /\ chain' = SubSeq(chain, 1, n)
    BY <1>1, <1>2, <2>1
  <2>3. ASSUME NEW f, f = SubSeq(chain, 1, n)
        PROVE  f \in Seq(SUBSET Trades) /\ Len(f) = n /\ \A h \in 1..n : f[h] = chain[h]
    BY <1>2, <2>2, <2>3, FirstOnes
  <2>4. chain' \in Seq(SUBSET Trades) /\ Len(chain') = n /\ \A h \in 1..n : chain'[h] = chain[h]
    BY <2>2, <2>3
  <2>5. QED
    BY <2>1, <2>4
<1>4. 1..Len(chain') \subseteq 1..Len(chain)
  BY <1>2, <1>3
<1>5. ChainOK'
  <2>1. Len(chain') <= tip' /\ tip' - MaxReorg <= Len(chain')
    BY <1>1, <1>2, <1>3, FillConstants
  <2>2. \A t \in Trades : \A h, k \in 1..Len(chain') : t \in chain'[h] /\ t \in chain'[k] => h = k
    BY <1>3, <1>4 DEF ChainOK
  <2>3. QED
    BY <1>1, <1>2, <1>3, <2>1, <2>2 DEF ChainOK
<1>6. CursorsOK'
  BY <1>1 DEF CursorsOK
<1>7. ASSUME NEW t \in Trades PROVE Scanned(t)' <=> Scanned(t)
  <2> DEFINE m == MarketOf[t]
  <2>1. m \in Markets
    BY TradesOnMarkets
  <2>2. ASSUME NEW h \in 1..Len(chain), since[m] < h, h <= last_scanned[m]
        PROVE  h \in 1..Len(chain')
    <3>1. h <= tip - Confirmations
      BY <1>2, <2>1, <2>2, ScannedDeep
    <3>2. QED
      BY <1>1, <1>2, <1>3, <3>1, FillConstants
  <2>3. QED
    BY <1>1, <1>3, <1>4, <2>2 DEF Scanned
<1>8. BooksTyped'
  BY <1>1 DEF BooksTyped
<1>9. QED
  BY <1>1, <1>5, <1>6, <1>7, <1>8, PlacedKept

-----------------------------------------------------------------------------
\* A step of the tick that leaves the chain, the cursors and the blocks scanned alone keeps
\* the invariant, if every trade stays placed.
LEMMA BooksStep ==
  ASSUME FillInv, UNCHANGED <<chain, tip, last_scanned, since>>, BooksTyped',
         safe_head' \in Int, phase' = "poll" => safe_head' <= tip - Confirmations,
         \A t \in Trades : Placed(t)'
  PROVE  FillInv'
<1>1. ChainOK'
  BY DEF FillInv, ChainOK
<1>2. CursorsOK'
  BY DEF FillInv, CursorsOK
<1>3. QED
  BY <1>1, <1>2 DEF FillInv

LEMMA HeadKeeps == ASSUME FillInv, head_block PROVE FillInv'
<1>1. UNCHANGED <<chain, tip, last_scanned, since, events, fills, inventory, exposure, lost>>
  BY DEF head_block, chainVars, books
<1>2. PICK view \in Views : safe_head' = view - Confirmations
  BY DEF head_block
<1>3. safe_head' \in Int /\ safe_head' <= tip - Confirmations
  BY <1>2, FillConstants DEF Views, FillInv, ChainOK
<1>4. BooksTyped'
  BY <1>1 DEF FillInv, BooksTyped
<1>5. \A t \in Trades : Placed(t)'
  BY <1>1, ScannedKept, PlacedKept DEF FillInv
<1>6. QED
  BY <1>1, <1>3, <1>4, <1>5, BooksStep

\* What an event becomes, what becomes of a fill, and what an exception drops.
LEMMA TickKeeps ==
  ASSUME FillInv, PollDone \/ TickRaises \/ \E t \in Trades : Record(t) \/ Apply(t)
  PROVE  FillInv'
<1> USE DEF FillInv
<1>1. UNCHANGED <<chain, tip, last_scanned, since, safe_head>>
  BY DEF PollDone, TickRaises, Record, Apply, chainVars, books
<1>2. safe_head' \in Int /\ (phase' = "poll" => safe_head' <= tip - Confirmations)
  BY <1>1 DEF PollDone, TickRaises, Record, Apply, CursorsOK
<1>3. BooksTyped'
  BY DEF BooksTyped, PollDone, TickRaises, Record, Apply, books
<1>4. ASSUME NEW u \in Trades PROVE Placed(u)'
  <2>1. Placed(u) /\ (Scanned(u)' <=> Scanned(u))
    BY <1>1, ScannedKept
  <2>2. /\ inventory \in [Trades -> Nat] /\ exposure \in [Trades -> Nat]
        /\ inventory[u] \in Nat /\ exposure[u] \in Nat
    BY DEF BooksTyped
  <2>3. CASE PollDone \/ TickRaises
    BY <2>1, <2>3 DEF Placed, PollDone, TickRaises, books
  <2>4. ASSUME NEW t \in Trades, Record(t) PROVE Placed(u)'
    <3>1. CASE u = t
      BY <2>1, <2>2, <2>4, <3>1 DEF Placed, Record
    <3>2. CASE u # t
      BY <2>1, <2>2, <2>4, <3>2 DEF Placed, Record
    <3>3. QED
      BY <3>1, <3>2
  <2>5. ASSUME NEW t \in Trades, Apply(t) PROVE Placed(u)'
    <3>1. CASE u = t
      BY <2>1, <2>2, <2>5, <3>1 DEF Placed, Apply
    <3>2. CASE u # t
      BY <2>1, <2>2, <2>5, <3>2 DEF Placed, Apply
    <3>3. QED
      BY <3>1, <3>2
  <2>6. QED
    BY <2>3, <2>4, <2>5
<1>5. QED
  BY <1>1, <1>2, <1>3, <1>4, BooksStep

\* Nothing is scanned after a start.
LEMMA RestartKeeps == ASSUME FillInv, KeeperRestart PROVE FillInv'
<1> USE DEF FillInv, KeeperRestart
<1>1. ChainOK'
  BY DEF ChainOK, chainVars
<1>2. CursorsOK'
  BY DEF CursorsOK
<1>3. BooksTyped'
  BY DEF BooksTyped, NoTrades
<1>4. ASSUME NEW t \in Trades PROVE Placed(t)'
  <2>1. ~Scanned(t)'
    <3>1. last_scanned'[MarketOf[t]] = 0 /\ since'[MarketOf[t]] = 0
      BY TradesOnMarkets
    <3>2. QED
      BY <3>1 DEF Scanned
  <2>2. QED
    BY <2>1 DEF Placed, NoTrades
<1>5. QED
  BY <1>1, <1>2, <1>3, <1>4
-----------------------------------------------------------------------------
\* The cursor starts at the market's block or at the lookback, and is the lower end of the range.
LEMMA StartTyped ==
  ASSUME CursorsOK, NEW m \in Markets
  PROVE  /\ ScanStart(m) \in Nat
         /\ last_scanned[m] # 0 => ScanStart(m) = last_scanned[m] /\ since[m] <= ScanStart(m)
<1>1. Deployed[m] \in Nat /\ last_scanned[m] \in Nat /\ since[m] \in Nat /\ safe_head \in Int
  BY DeployedAssumption DEF DeployedAssumption, CursorsOK
<1>2. PICK d \in Int : d = safe_head - Lookback
  BY <1>1, FillConstants
<1>3. Larger(Deployed[m], d) \in Nat
  BY <1>1 DEF Larger
<1>4. QED
  BY <1>1, <1>2, <1>3 DEF ScanStart, CursorsOK

\* What a visit does to the cursors of a market: the scanned range of the session starts
\* where its first visit did.
LEMMA CursorMoves ==
  ASSUME FillInv, NEW m \in Markets, NEW cursor \in Nat, Visited(m, cursor),
         cursor >= ScanStart(m), phase = "poll", cursor = ScanStart(m) \/ cursor = safe_head
  PROVE  /\ CursorsOK' /\ since'[m] <= ScanStart(m)
         /\ last_scanned'[m] = cursor
         /\ last_scanned[m] # 0 => since'[m] = since[m]
         /\ last_scanned[m] = 0 => since'[m] = ScanStart(m)
         /\ \A k \in Markets \ {m} : since'[k] = since[k] /\ last_scanned'[k] = last_scanned[k]
<1> USE DEF FillInv
<1>1. ScanStart(m) \in Nat /\ (last_scanned[m] # 0 => ScanStart(m) = last_scanned[m] /\ since[m] <= ScanStart(m))
  BY StartTyped
<1>2. PICK start \in Nat : start = ScanStart(m)
  BY <1>1
<1>3. /\ last_scanned' = [last_scanned EXCEPT ![m] = cursor]
      /\ since' = (IF last_scanned[m] = 0 THEN [since EXCEPT ![m] = start] ELSE since)
      /\ UNCHANGED <<phase, safe_head, tip>>
  BY <1>2 DEF Visited, chainVars
<1>4. last_scanned \in [Markets -> Nat] /\ since \in [Markets -> Nat] /\ tip \in Nat /\ safe_head \in Int
  BY DEF CursorsOK, ChainOK
<1>5. last_scanned' \in [Markets -> Nat] /\ since' \in [Markets -> Nat]
  BY <1>3, <1>4
<1>6. last_scanned'[m] = cursor /\ (last_scanned[m] # 0 => since'[m] = since[m])
      /\ (last_scanned[m] = 0 => since'[m] = start)
      /\ \A k \in Markets \ {m} : since'[k] = since[k] /\ last_scanned'[k] = last_scanned[k]
  BY <1>3, <1>4
<1>7. since'[m] <= start
  BY <1>1, <1>2, <1>4, <1>6
<1>8. safe_head' <= tip' - Confirmations /\ safe_head <= tip - Confirmations
  BY <1>3 DEF CursorsOK
<1>9. ASSUME NEW k \in Markets
      PROVE  /\ last_scanned'[k] # 0 => since'[k] <= last_scanned'[k]
             /\ since'[k] < last_scanned'[k] => last_scanned'[k] <= tip' - Confirmations
  <2>1. CASE k # m
    BY <1>3, <1>6, <2>1 DEF CursorsOK
  <2>2. CASE k = m /\ cursor = safe_head
    BY <1>2, <1>3, <1>5, <1>6, <1>7, <1>8, <2>2
  <2>3. CASE k = m /\ cursor = ScanStart(m)
    <3>1. last_scanned'[m] = start /\ since'[m] <= start
      BY <1>2, <1>6, <1>7, <2>3
    <3>2. CASE last_scanned[m] = 0
      BY <1>5, <1>6, <2>3, <3>1, <3>2
    <3>3. CASE last_scanned[m] # 0
      <4>1. last_scanned[m] = start /\ since'[m] = since[m]
        BY <1>1, <1>2, <1>6, <3>3
      <4>2. QED
        BY <1>3, <2>3, <3>1, <4>1 DEF CursorsOK
    <3>4. QED
      BY <3>2, <3>3
  <2>4. QED
    BY <2>1, <2>2, <2>3
<1>10. CursorsOK'
  BY <1>3, <1>4, <1>5, <1>8, <1>9 DEF CursorsOK
<1>11. QED
  BY <1>2, <1>6, <1>7, <1>10

\* A visit that reads nothing scans no block.
LEMMA IdleVisitKeeps ==
  ASSUME FillInv, NEW m \in Markets, NothingNew(m) \/ ScanFails(m)
  PROVE  FillInv'
<1> USE DEF FillInv
<1>1. phase = "poll" /\ Visited(m, ScanStart(m)) /\ events' = events
  BY DEF NothingNew, ScanFails, Visiting
<1>2. UNCHANGED <<chain, tip, phase, safe_head, events, fills, exposure, inventory, lost>>
  BY <1>1 DEF Visited, chainVars
<1>3. ScanStart(m) \in Nat /\ (last_scanned[m] # 0 => ScanStart(m) = last_scanned[m])
  BY StartTyped
<1>4. PICK start \in Nat : start = ScanStart(m)
  BY <1>3
<1>5. /\ CursorsOK' /\ last_scanned'[m] = start
      /\ last_scanned[m] # 0 => since'[m] = since[m]
      /\ last_scanned[m] = 0 => since'[m] = start
      /\ \A k \in Markets \ {m} : since'[k] = since[k] /\ last_scanned'[k] = last_scanned[k]
  <2>1. Visited(m, start) /\ start >= ScanStart(m)
    BY <1>1, <1>4
  <2>2. QED
    BY <1>1, <1>4, <2>1, CursorMoves
<1>6. ASSUME NEW t \in Trades PROVE Scanned(t)' <=> Scanned(t)
  <2> DEFINE k == MarketOf[t]
  <2>1. k \in Markets
    BY TradesOnMarkets
  <2>2. CASE k # m \/ last_scanned[m] # 0
    <3>1. since'[k] = since[k] /\ last_scanned'[k] = last_scanned[k]
      BY <1>3, <1>4, <1>5, <2>1, <2>2
    <3>2. QED
      BY <1>2, <3>1 DEF Scanned
  <2>3. CASE k = m /\ last_scanned[m] = 0
    BY <1>2, <1>4, <1>5, <2>3 DEF Scanned
  <2>4. QED
    BY <2>2, <2>3
<1>7. ChainOK' /\ BooksTyped'
  BY <1>2 DEF ChainOK, BooksTyped
<1>8. \A t \in Trades : Placed(t)'
  BY <1>2, <1>6, PlacedKept
<1>9. QED
  BY <1>5, <1>7, <1>8

\* No node of the endpoint is so far behind that a scanned block is not in its answer.
LEMMA NothingHidden ==
  ASSUME FillInv, phase = "poll", NEW view \in Views
  PROVE  safe_head <= view /\ view \in Nat /\ view <= Len(chain)
<1>1. view \in Nat /\ view <= Len(chain) /\ view >= Len(chain) - MaxLag /\ Len(chain) \in Nat
  BY DEF Views, FillInv, ChainOK
<1>2. safe_head <= tip - Confirmations /\ safe_head \in Int /\ tip \in Nat /\ tip - MaxReorg <= Len(chain)
  BY DEF FillInv, ChainOK, CursorsOK
<1>3. QED
  BY <1>1, <1>2, FillConstants

\* A visit that reads the logs scans the blocks above the cursor, and has what they hold.
LEMMA ScanKeeps ==
  ASSUME FillInv, NEW m \in Markets, Scan(m)
  PROVE  FillInv'
<1> USE DEF FillInv
<1>1. /\ phase = "poll" /\ events = {} /\ Visited(m, safe_head) /\ safe_head > ScanStart(m)
      /\ UNCHANGED <<chain, tip, phase, safe_head, fills, exposure, inventory, lost>>
  BY DEF Scan, Visiting, Visited, chainVars
<1>2. PICK view \in Views : events' = traded_logs(m, ScanStart(m) + 1, safe_head, view)
  BY DEF Scan
<1>3. safe_head <= view /\ view \in Nat /\ view <= Len(chain)
  BY <1>1, <1>2, NothingHidden
<1>4. /\ ScanStart(m) \in Nat /\ (last_scanned[m] # 0 => ScanStart(m) = last_scanned[m] /\ since[m] <= ScanStart(m))
      /\ safe_head \in Int
  BY StartTyped DEF CursorsOK
<1>5. PICK start \in Nat : start = ScanStart(m)
  BY <1>4
<1>6. PICK top \in Nat : top = safe_head
  BY <1>1, <1>4
<1>7. start < top /\ top <= view
  BY <1>1, <1>3, <1>5, <1>6
<1>8. /\ CursorsOK' /\ last_scanned'[m] = top /\ since'[m] <= start
      /\ last_scanned[m] # 0 => since'[m] = since[m]
      /\ last_scanned[m] = 0 => since'[m] = start
      /\ \A k \in Markets \ {m} : since'[k] = since[k] /\ last_scanned'[k] = last_scanned[k]
  <2>1. Visited(m, top) /\ top >= ScanStart(m)
    BY <1>1, <1>5, <1>6, <1>7
  <2>2. QED
    BY <1>1, <1>5, <1>6, <2>1, CursorMoves
<1>9. events' = {t \in Trades : MarketOf[t] = m /\ \E h \in 1..Len(chain) : start < h /\ h <= top /\ t \in chain[h]}
  <2>1. events' = {t \in Trades : MarketOf[t] = m
                     /\ \E h \in (start + 1)..top : h \in 1..view /\ t \in chain[h]}
    BY <1>2, <1>5, <1>6 DEF traded_logs
  <2>2. Len(chain) \in Nat
    BY DEF ChainOK
  <2>3. ASSUME NEW t
        PROVE  (\E h \in (start + 1)..top : h \in 1..view /\ t \in chain[h])
               <=> \E h \in 1..Len(chain) : start < h /\ h <= top /\ t \in chain[h]
    BY <1>3, <1>7, <2>2
  <2>4. QED
    BY <2>1, <2>3
<1>10. ASSUME NEW t \in Trades, MarketOf[t] # m PROVE Placed(t)'
  <2>1. MarketOf[t] \in Markets \ {m}
    BY <1>10, TradesOnMarkets
  <2>2. since'[MarketOf[t]] = since[MarketOf[t]] /\ last_scanned'[MarketOf[t]] = last_scanned[MarketOf[t]]
    BY <1>8, <2>1
  <2>3. Scanned(t)' <=> Scanned(t)
    BY <1>1, <2>2 DEF Scanned
  <2>4. t \notin events' /\ t \notin events
    BY <1>1, <1>9, <1>10
  <2>5. QED
    BY <1>1, <2>3, <2>4 DEF Placed
<1>11. ASSUME NEW t \in Trades, MarketOf[t] = m PROVE Placed(t)'
  <2>0. \A h \in 1..Len(chain) : h \in Nat
    BY DEF ChainOK
  <2>1. last_scanned[m] \in Nat /\ since[m] \in Nat /\ since'[m] \in Nat
    BY <1>8 DEF CursorsOK
  <2>2. CASE t \in events'
    <3>1. PICK h \in 1..Len(chain) : start < h /\ h <= top /\ t \in chain[h]
      BY <1>9, <2>2
    <3>2. Scanned(t)'
      BY <1>1, <1>8, <1>11, <2>0, <2>1, <3>1 DEF Scanned
    <3>3. ~Scanned(t)
      <4>1. SUFFICES ASSUME NEW k \in 1..Len(chain), t \in chain[k], k <= last_scanned[m] PROVE FALSE
        BY <1>11 DEF Scanned
      <4>2. k = h
        BY <3>1, <4>1 DEF ChainOK
      <4>3. last_scanned[m] = 0 \/ last_scanned[m] = start
        BY <1>4, <1>5
      <4>4. QED
        BY <2>0, <3>1, <4>1, <4>2, <4>3
    <3>4. QED
      BY <1>1, <2>2, <3>2, <3>3 DEF Placed
  <2>3. CASE t \notin events'
    <3>1. Scanned(t)' <=> Scanned(t)
      <4>1. ASSUME NEW h \in 1..Len(chain), t \in chain[h]
            PROVE  (since'[m] < h /\ h <= top) <=> (since[m] < h /\ h <= last_scanned[m])
        <5>1. h <= start \/ top < h
          BY <1>9, <1>11, <2>0, <2>3, <4>1
        <5>2. CASE last_scanned[m] = 0
          BY <1>7, <1>8, <2>0, <2>1, <5>1, <5>2
        <5>3. CASE last_scanned[m] # 0
          <6>1. last_scanned[m] = start /\ since'[m] = since[m]
            BY <1>4, <1>5, <1>8, <5>3
          <6>2. QED
            BY <1>7, <2>0, <2>1, <5>1, <6>1
        <5>4. QED
          BY <5>2, <5>3
      <4>2. QED
        BY <1>1, <1>8, <1>11, <4>1 DEF Scanned
    <3>2. QED
      BY <1>1, <2>3, <3>1 DEF Placed
  <2>4. QED
    BY <2>2, <2>3
<1>12. ChainOK' /\ BooksTyped'
  BY <1>1, <1>9 DEF ChainOK, BooksTyped
<1>13. QED
  BY <1>8, <1>10, <1>11, <1>12
-----------------------------------------------------------------------------
LEMMA FillInvNext == FillInv /\ [FillNext]_fillVars => FillInv'
<1> SUFFICES ASSUME FillInv, [FillNext]_fillVars PROVE FillInv'
  OBVIOUS
<1>1. CASE UNCHANGED fillVars
  <2>1. UNCHANGED <<chain, tip, phase, safe_head, events, fills, last_scanned, exposure, inventory, since, lost>>
    BY <1>1 DEF fillVars, chainVars, poll, books
  <2>2. BooksTyped' /\ \A t \in Trades : Placed(t)'
    BY <2>1, ScannedKept, PlacedKept DEF FillInv, BooksTyped
  <2>3. safe_head' \in Int /\ (phase' = "poll" => safe_head' <= tip - Confirmations)
    BY <2>1 DEF FillInv, CursorsOK
  <2>4. QED
    BY <2>1, <2>2, <2>3, BooksStep
<1>2. CASE FillNext
  BY <1>2, MineKeeps, ReorgKeeps, HeadKeeps, TickKeeps, RestartKeeps, IdleVisitKeeps, ScanKeeps
  DEF FillNext, PollStep
<1>3. QED
  BY <1>1, <1>2

LEMMA FillInvAlways == FillSpec => []FillInv
  BY FillInvInit, FillInvNext, PTL DEF FillSpec

\* A trade that is placed is in exactly one of the three places the count is about.
LEMMA OnePlace == FillInv => FillsMatchChain
<1> SUFFICES ASSUME FillInv PROVE FillsMatchChain
  OBVIOUS
<1>1. \A t \in Trades : inventory[t] \in Nat /\ exposure[t] \in Nat /\ Placed(t)
  BY DEF FillInv, BooksTyped
<1>2. FillsAreFinal
  BY <1>1 DEF FillsAreFinal, Placed, InPoll
<1>3. ScannedOnce
  <2> SUFFICES ASSUME NEW t \in Trades, Scanned(t)
               PROVE  Cardinality({x \in {"in", "way", "lost"} :
                                     \/ x = "in" /\ inventory[t] > 0
                                     \/ x = "way" /\ InPoll(t)
                                     \/ x = "lost" /\ t \in lost}) = 1
    BY DEF ScannedOnce
  <2> DEFINE Here == {x \in {"in", "way", "lost"} :
                        \/ x = "in" /\ inventory[t] > 0
                        \/ x = "way" /\ InPoll(t)
                        \/ x = "lost" /\ t \in lost}
  <2>1. Here = {"in"} \/ Here = {"way"} \/ Here = {"lost"}
    BY <1>1 DEF Placed, InPoll
  <2>2. QED
    BY <2>1, FS_Singleton
<1>4. QED
  BY <1>2, <1>3 DEF FillsMatchChain

\* For any fleet, any trades and any depth of reorganisation and lag that the confirmations
\* cover, what _poll_fills has collected and the loop has booked is on the chain for good,
\* once each, and nothing of a scanned block is missing but what an exception dropped.
THEOREM FillsAlwaysMatchChain == FillSpec => []FillsMatchChain
  BY FillInvAlways, OnePlace, PTL
-----------------------------------------------------------------------------
(* The detector of disputes: its flag is set exactly while a scan is asked  *)
(* for or under way, or a thread was refused.                              *)
DetectorInv ==
  /\ caller \in {"idle", "spawn"} /\ scan \in {"none", "scanning", "read", "ended"}
  /\ caller = "spawn" => scan = "none"
  /\ exhausted => caller = "idle" /\ scan = "none"
  /\ refreshing <=> caller = "spawn" \/ scan # "none" \/ exhausted
  /\ final \in Seq(Disputes) /\ seen \subseteq Confirmed /\ cids \subseteq Confirmed

\* No tick starts a scan beside another, the flag is never left behind but by a thread that
\* was refused, and a market is reported only for a dispute beyond the confirmations.
DetectorSound ==
  /\ caller = "spawn" => scan = "none"
  /\ refreshing /\ caller = "idle" /\ scan = "none" => exhausted
  /\ cids \subseteq Confirmed

\* A dispute that is final stays so.
LEMMA StaysConfirmed ==
  ASSUME final \in Seq(Disputes), NEW c \in Disputes, BuriedDispute(c)
  PROVE  final' \in Seq(Disputes) /\ Confirmed \subseteq Confirmed'
<1>1. final' = Append(final, c) /\ final' \in Seq(Disputes) /\ Len(final') = Len(final) + 1 /\ Len(final) \in Nat
  BY AppendProperties, LenProperties DEF BuriedDispute
<1>2. \A i \in 1..Len(final) : i \in 1..Len(final') /\ final'[i] = final[i]
  BY <1>1, AppendProperties
<1>3. QED
  BY <1>1, <1>2 DEF Confirmed

LEMMA DetectorStep == DetectorInv /\ [DetectorNext]_detectorVars => DetectorInv'
<1> SUFFICES ASSUME DetectorInv, [DetectorNext]_detectorVars PROVE DetectorInv'
  OBVIOUS
<1> USE DEF DetectorInv, scanVars, detectedVars, Confirmed
<1>0. CASE \E c \in Disputes : BuriedDispute(c)
  <2>1. PICK c \in Disputes : BuriedDispute(c)
    BY <1>0
  <2>2. final' \in Seq(Disputes) /\ Confirmed \subseteq Confirmed'
    BY <2>1, StaysConfirmed
  <2>3. QED
    BY <2>1, <2>2 DEF BuriedDispute
<1>1. CASE Displaced \/ LookbackPasses \/ Expires \/ (\E c \in Disputes : Dispute(c))
  BY <1>1 DEF Displaced, LookbackPasses, Expires, Dispute
<1>2. CASE _maybe_refresh_async
  BY <1>2 DEF _maybe_refresh_async
<1>3. CASE Spawned \/ SpawnFails
  BY <1>3 DEF Spawned, SpawnFails
<1>4. CASE ScanAnswers \/ Refreshed \/ RefreshFails
  BY <1>4 DEF ScanAnswers, Recent, Refreshed, RefreshFails
<1>5. CASE RefreshEnds
  BY <1>5 DEF RefreshEnds
<1>6. CASE UNCHANGED detectorVars
  BY <1>6 DEF detectorVars
<1>7. QED
  BY <1>0, <1>1, <1>2, <1>3, <1>4, <1>5, <1>6 DEF DetectorNext

\* The detector's single flight, for any disputes and any failures of scans and threads.
THEOREM DetectorAlwaysSound == DetectorSpec => []DetectorSound
<1>1. DetectorInit => DetectorInv
  BY DEF DetectorInit, DetectorInv, Confirmed
<1>2. DetectorInv => DetectorSound
  BY DEF DetectorInv, DetectorSound
<1>3. QED
  BY <1>1, <1>2, DetectorStep, PTL DEF DetectorSpec
-----------------------------------------------------------------------------
(* The explorer: what is kept anywhere on the way to it is a row of a       *)
(* dispute that happened, as the layer, the tail or the index has it.       *)
RowsOf(i) ==
  { FeedRow(i, Feed[i].cid, Feed[i].at), FeedRow(i, NoCid, Feed[i].at),
    FeedRow(i, Feed[i].cid, Feed[i].asked), FeedRow(i, "phantom", Feed[i].asked) }

GoodRows == UNION {RowsOf(i) : i \in Happened}

Requested == [at : {"away", "fetch", "merge"}, base : SUBSET GoodRows, rows : SUBSET GoodRows]

WorldInv ==
  /\ today \in Nat /\ indexed \in Nat /\ released \in Nat
  /\ 1..indexed \subseteq Happened /\ 1..released \subseteq Happened

KeptInv == tail \subseteq GoodRows /\ envio.rows \subseteq GoodRows /\ merged \subseteq GoodRows /\ reader \in [Readers -> Requested]

FeedInv == WorldInv /\ KeptInv

\* What happened stays so.
LEMMA GoodStays ==
  ASSUME FeedInv, Happened \subseteq Happened'
  PROVE  GoodRows \subseteq GoodRows' /\ Requested \subseteq Requested'
<1>1. GoodRows \subseteq GoodRows'
  BY DEF GoodRows, RowsOf, FeedRow, NoCid
<1>2. QED
  BY <1>1 DEF Requested

LEMMA SourcesGood == ASSUME FeedInv PROVE LayerRows \subseteq GoodRows /\ EnvioRows \subseteq GoodRows
<1>1. LayerRows \subseteq GoodRows
  BY DEF LayerRows, GoodRows, RowsOf, FeedInv, WorldInv
<1>2. EnvioRows \subseteq GoodRows
  BY DEF EnvioRows, GoodRows, RowsOf, FeedInv, WorldInv
<1>3. QED
  BY <1>1, <1>2

LEMMA FeedWorld ==
  ASSUME FeedInv, DayPasses \/ EnvioIndexes \/ LayerExtended
  PROVE  FeedInv'
<1>1. UNCHANGED <<tailCacheVars, envioCacheVars, mergedVars, reader>>
  BY DEF DayPasses, EnvioIndexes, LayerExtended
<1>2. today' \in {today, today + 1} /\ today \in Nat /\ today' \in Nat
  BY DEF DayPasses, EnvioIndexes, LayerExtended, FeedInv, WorldInv
<1>3. Happened \subseteq Happened'
  BY <1>2, FeedAssumption DEF FeedAssumption, Happened
<1>4. WorldInv'
  <2>1. CASE DayPasses
    BY <2>1, <1>2, <1>3 DEF DayPasses, FeedInv, WorldInv
  <2>2. CASE EnvioIndexes
    <3>1. Happened' = Happened
      BY <2>2 DEF EnvioIndexes, Happened
    <3>2. QED
      BY <2>2, <3>1 DEF EnvioIndexes, FeedInv, WorldInv
  <2>3. CASE LayerExtended
    <3>1. Happened' = Happened
      BY <2>3 DEF LayerExtended, Happened
    <3>2. QED
      BY <2>3, <3>1 DEF LayerExtended, FeedInv, WorldInv
  <2>4. QED
    BY <2>1, <2>2, <2>3
<1>5. GoodRows \subseteq GoodRows' /\ Requested \subseteq Requested'
  BY <1>3, GoodStays
<1>6. KeptInv'
  BY <1>1, <1>5 DEF FeedInv, KeptInv, tailCacheVars, envioCacheVars, mergedVars
<1>7. QED
  BY <1>4, <1>6 DEF FeedInv

\* Within a day only what is kept has to be good.
LEMMA FeedKeeps ==
  ASSUME FeedInv, UNCHANGED <<today, indexed, released>>
  PROVE  WorldInv' /\ GoodRows' = GoodRows /\ Requested' = Requested
<1>1. Happened' = Happened
  BY DEF Happened
<1>2. GoodRows' = GoodRows
  BY <1>1 DEF GoodRows, RowsOf
<1>3. QED
  BY <1>1, <1>2 DEF FeedInv, WorldInv, Requested

LEMMA FeedCaches ==
  ASSUME FeedInv,
         StatusExpires \/ RowsExpire \/ TailScanFails \/ TailAges \/ indexer_status \/ MergedExpires
  PROVE  FeedInv'
<1> USE DEF StatusExpires, RowsExpire, TailScanFails, TailAges, indexer_status, MergedExpires
<1>1. UNCHANGED <<today, indexed, released>>
  OBVIOUS
<1>2. UNCHANGED <<tail, merged, reader>> /\ envio' \in {envio, Uncached}
  BY DEF tailCacheVars, mergedVars, envioCacheVars
<1>3. KeptInv'
  BY <1>1, <1>2, FeedKeeps DEF FeedInv, KeptInv, Uncached
<1>4. QED
  BY <1>1, <1>3, FeedKeeps DEF FeedInv

LEMMA FeedLands ==
  ASSUME FeedInv, NEW labelled, ScanLands(labelled)
  PROVE  FeedInv'
<1>1. UNCHANGED <<today, indexed, released>>
  BY DEF ScanLands
<1>2. tail' \subseteq GoodRows
  <2>1. Latest \subseteq Happened
    BY DEF Latest
  <2>2. QED
    BY <2>1 DEF ScanLands, GoodRows, RowsOf
<1>3. KeptInv'
  BY <1>1, <1>2, FeedKeeps DEF ScanLands, FeedInv, KeptInv, envioCacheVars, mergedVars
<1>4. QED
  BY <1>1, <1>3, FeedKeeps DEF FeedInv

LEMMA FeedServes ==
  ASSUME FeedInv, NEW r \in Readers,
         Opened(r) \/ FromEnvio(r) \/ FromTail(r) \/ Merged(r) \/ MergeRaises(r)
  PROVE  FeedInv'
<1>1. UNCHANGED <<today, indexed, released, tail>>
  BY DEF Opened, FromEnvio, FromTail, Merged, MergeRaises, tailCacheVars
<1>2. reader \in [Readers -> Requested] /\ reader[r].base \subseteq GoodRows /\ reader[r].rows \subseteq GoodRows
  BY DEF FeedInv, KeptInv, Requested
<1>3. LayerRows \subseteq GoodRows /\ EnvioRows \subseteq GoodRows
  BY SourcesGood
<1>4. \A e \in RowsNow : e.rows \subseteq GoodRows
  BY <1>3 DEF RowsNow, FeedInv, KeptInv
<1>5. CASE Opened(r)
  <2>1. [at |-> "fetch", base |-> LayerRows, rows |-> {}] \in Requested
    BY <1>3 DEF Requested
  <2>2. reader' \in [Readers -> Requested]
    BY <1>2, <1>5, <2>1 DEF Opened
  <2>3. KeptInv'
    BY <1>1, <1>5, <2>2, FeedKeeps DEF Opened, FeedInv, KeptInv, envioCacheVars, mergedVars
  <2>4. QED
    BY <1>1, <2>3, FeedKeeps DEF FeedInv
<1>6. ASSUME NEW list, list \subseteq GoodRows, Fetched(r, list)
      PROVE  reader' \in [Readers -> Requested]
  BY <1>2, <1>6 DEF Fetched, Requested
<1>7. CASE FromEnvio(r)
  <2>1. envio'.rows \subseteq GoodRows
    BY <1>4, <1>7 DEF FromEnvio
  <2>2. reader' \in [Readers -> Requested]
    BY <1>6, <1>7, <2>1 DEF FromEnvio
  <2>3. KeptInv'
    BY <1>1, <1>7, <2>1, <2>2, FeedKeeps DEF FromEnvio, FeedInv, KeptInv, mergedVars
  <2>4. QED
    BY <1>1, <2>3, FeedKeeps DEF FeedInv
<1>8. CASE FromTail(r)
  <2>1. envio'.rows \subseteq GoodRows
    BY <1>4, <1>8 DEF FromTail, FeedInv, KeptInv
  <2>2. reader' \in [Readers -> Requested]
    BY <1>6, <1>8 DEF FromTail, FeedInv, KeptInv
  <2>3. KeptInv'
    BY <1>1, <1>8, <2>1, <2>2, FeedKeeps DEF FromTail, FeedInv, KeptInv, mergedVars
  <2>4. QED
    BY <1>1, <2>3, FeedKeeps DEF FeedInv
<1>9. CASE Merged(r) \/ MergeRaises(r)
  <2>1. merged' \subseteq GoodRows
    BY <1>2, <1>9 DEF Merged, MergeRaises, _merged_disputes_df
  <2>2. Away \in Requested
    BY DEF Away, Requested
  <2>3. reader' \in [Readers -> Requested]
    BY <1>2, <1>9, <2>2 DEF Merged, MergeRaises
  <2>4. KeptInv'
    BY <1>1, <1>9, <2>1, <2>3, FeedKeeps DEF Merged, MergeRaises, FeedInv, KeptInv, envioCacheVars
  <2>5. QED
    BY <1>1, <2>4, FeedKeeps DEF FeedInv
<1>10. QED
  BY <1>5, <1>7, <1>8, <1>9

LEMMA FeedStep == FeedInv /\ [FeedNext]_feedVars => FeedInv'
<1> SUFFICES ASSUME FeedInv, [FeedNext]_feedVars PROVE FeedInv'
  OBVIOUS
<1>1. CASE UNCHANGED feedVars
  <2>1. UNCHANGED <<today, indexed, released, tail, envio, merged, reader>>
    BY <1>1 DEF feedVars, tailCacheVars, envioCacheVars, mergedVars
  <2>2. KeptInv'
    BY <2>1, FeedKeeps DEF FeedInv, KeptInv
  <2>3. QED
    BY <2>1, <2>2, FeedKeeps DEF FeedInv
<1>2. QED
  BY <1>1, FeedWorld, FeedCaches, FeedLands, FeedServes DEF FeedNext

LEMMA FeedBegins == FeedInit => FeedInv
<1> SUFFICES ASSUME FeedInit PROVE FeedInv
  OBVIOUS
<1>1. WorldInv
  BY DEF FeedInit, WorldInv
<1>2. Away \in Requested
  BY DEF Away, Requested
<1>3. KeptInv
  BY <1>2 DEF FeedInit, KeptInv, Uncached
<1>4. QED
  BY <1>1, <1>3 DEF FeedInv

\* Nothing is shown that has not happened, and a dispute twice only under another name, for
\* every feed, index, cache and number of readers.
THEOREM ExplorerHonest == FeedSpec => []ShownOnce
<1>1. FeedInv => ShownOnce
  <2> SUFFICES ASSUME FeedInv PROVE ShownOnce
    OBVIOUS
  <2>1. ASSUME NEW x \in merged
        PROVE  /\ x.dispute \in Happened
               /\ x = FeedRow(x.dispute, Feed[x.dispute].cid, Feed[x.dispute].at) \/ Renamed(x)
    <3>1. PICK i \in Happened : x \in RowsOf(i)
      BY DEF FeedInv, KeptInv, GoodRows
    <3>2. x.dispute = i
      BY <3>1 DEF RowsOf, FeedRow
    <3>3. x = FeedRow(i, Feed[i].cid, Feed[i].at) \/ x.conditionId \in {NoCid, "phantom"} \/ x.disputeTs = Feed[i].asked
      BY <3>1 DEF RowsOf, FeedRow
    <3>4. QED
      BY <3>2, <3>3 DEF Renamed
  <2>2. Shown(merged) \subseteq Happened
    BY <2>1 DEF Shown
  <2>3. QED
    BY <2>1, <2>2 DEF ShownOnce
<1>2. QED
  BY <1>1, FeedBegins, FeedStep, PTL DEF FeedSpec
-----------------------------------------------------------------------------
(* The artifacts: what a loader read is its fallback, or a version of the   *)
(* data that there is, never the torn file of a writer that died or of two  *)
(* that wrote at once.                                                     *)
ReadOK(s) == s \in Seq(Nat) /\ \A i \in 1..Len(s) : s[i] <= release

WebPlaces == {"idle", "names", "named", "loaded", "inject", "scanned", "writing", "written", "reload"}
WebRequests == [at : WebPlaces, loader : Loaders \cup {"none"}, got : Seq(Nat)]

\* How much a request has read at the places where something is done with it.
Needs(place) == IF place = "named" THEN 2 ELSE IF place \in {"names", "loaded", "inject", "scanned", "writing"} THEN 1 ELSE 0

RequestOK(q) == q \in WebRequests /\ ReadOK(q.got) /\ Len(q.got) >= Needs(q.at) /\ (q.at \in {"names", "named", "loaded"} => q.loader \in Loaders)

FilesInv ==
  /\ artifact \in Loaders /\ release \in Nat \ {0}
  /\ file \in {Torn, Missing} \/ (file \in Nat /\ file <= release)

ServedInv ==
  /\ cached \in [Loaders -> Seq(Nat)] /\ \A l \in Loaders : ReadOK(cached[l])
  /\ injected \in Nat /\ injected <= release
  /\ web \in [Requesters -> WebRequests] /\ \A r \in Requesters : RequestOK(web[r])

CachesInv == FilesInv /\ ServedInv

NothingTornKept ==
  /\ \A l \in Loaders : \A i \in 1..Len(cached[l]) : cached[l][i] \in 0..release
  /\ injected \in 0..release

LEMMA ReadOne == ASSUME CachesInv, NEW n \in Nat, n <= release PROVE ReadOK(<<n>>) /\ Len(<<n>>) = 1
  BY DEF ReadOK

LEMMA ReadNone == ReadOK(<< >>) /\ Len(<< >>) = 0
  BY DEF ReadOK

LEMMA ReadBoth ==
  ASSUME NEW s, NEW t, ReadOK(s), ReadOK(t)
  PROVE  ReadOK(s \o t) /\ Len(s \o t) = Len(s) + Len(t)
<1>1. s \o t \in Seq(Nat) /\ Len(s \o t) = Len(s) + Len(t) /\ Len(s) \in Nat /\ Len(t) \in Nat
  BY ConcatProperties, LenProperties DEF ReadOK
<1>2. ASSUME NEW i \in 1..Len(s \o t) PROVE (s \o t)[i] <= release
  <2>1. CASE i <= Len(s)
    <3>1. (s \o t)[i] = s[i] /\ i \in 1..Len(s)
      BY <1>1, <2>1, ConcatProperties DEF ReadOK
    <3>2. QED
      BY <3>1 DEF ReadOK
  <2>2. CASE i > Len(s)
    <3>1. (s \o t)[i] = t[i - Len(s)] /\ i - Len(s) \in 1..Len(t)
      BY <1>1, <2>2, ConcatProperties DEF ReadOK
    <3>2. QED
      BY <3>1 DEF ReadOK
  <2>3. QED
    BY <1>1, <2>1, <2>2
<1>3. QED
  BY <1>1, <1>2 DEF ReadOK

LEMMA ReadSome == ASSUME NEW s \in Seq(Nat), s # NotCached PROVE Len(s) >= 1
  BY EmptySeq, LenProperties DEF NotCached

LEMMA LoadOK == ASSUME CachesInv PROVE _load_json \in Nat /\ _load_json <= release
  BY DEF CachesInv, FilesInv, _load_json, Fallback

\* At most one cache is kept or cleared in a step, and one request moves.
LEMMA ServedMoves ==
  ASSUME CachesInv, UNCHANGED release,
         cached' = cached \/ \E l \in Loaders : \E s : ReadOK(s) /\ cached' = [cached EXCEPT ![l] = s],
         web' = web \/ \E r \in Requesters : \E q : RequestOK(q) /\ web' = [web EXCEPT ![r] = q],
         injected' \in Nat, injected' <= release
  PROVE  ServedInv'
<1>1. cached' \in [Loaders -> Seq(Nat)] /\ \A k \in Loaders : ReadOK(cached'[k])
  BY DEF CachesInv, ServedInv, ReadOK
<1>2. web' \in [Requesters -> WebRequests] /\ \A k \in Requesters : RequestOK(web'[k])
  <2>1. CASE web' = web
    BY <2>1 DEF CachesInv, ServedInv
  <2>2. ASSUME NEW r \in Requesters, NEW q, RequestOK(q), web' = [web EXCEPT ![r] = q]
        PROVE  web' \in [Requesters -> WebRequests] /\ \A k \in Requesters : RequestOK(web'[k])
    <3>1. q \in WebRequests
      BY <2>2 DEF RequestOK
    <3>2. web \in [Requesters -> WebRequests] /\ \A k \in Requesters : RequestOK(web[k])
      BY DEF CachesInv, ServedInv
    <3>3. QED
      BY <2>2, <3>1, <3>2
  <2>3. QED
    BY <2>1, <2>2
<1>3. QED
  BY <1>1, <1>2 DEF ServedInv, RequestOK, ReadOK

\* What the batch and the rebuilds do to the file, and to the layer, leaves it a version
\* there is, or torn; what was read is not from a later one.
LEMMA FilesMove ==
  ASSUME CachesInv, UNCHANGED <<artifact, servedVars>>, release' \in {release, release + 1},
         file' = Torn \/ (file' \in Nat /\ file' <= release) \/ file' = file
  PROVE  CachesInv'
<1>1. release' \in Nat \ {0} /\ release <= release' /\ release \in Nat
  BY DEF CachesInv, FilesInv
<1>2. file' \in {Torn, Missing} \/ (file' \in Nat /\ file' <= release)
  BY DEF CachesInv, FilesInv
<1>3. FilesInv'
  BY <1>1, <1>2 DEF CachesInv, FilesInv
<1>4. \A s : ReadOK(s) => s \in Seq(Nat) /\ \A i \in 1..Len(s) : s[i] <= release'
  BY <1>1 DEF ReadOK
<1>5. ServedInv'
  <2>1. UNCHANGED <<cached, injected, web>>
    BY DEF servedVars
  <2>2. injected' <= release'
    BY <1>1, <2>1 DEF CachesInv, ServedInv
  <2>3. \A l \in Loaders : cached[l] \in Seq(Nat) /\ \A i \in 1..Len(cached[l]) : cached[l][i] <= release'
    BY <1>4 DEF CachesInv, ServedInv
  <2>4. \A r \in Requesters : web[r].got \in Seq(Nat) /\ \A i \in 1..Len(web[r].got) : web[r].got[i] <= release'
    BY <1>4 DEF CachesInv, ServedInv, RequestOK
  <2>5. QED
    BY <2>1, <2>2, <2>3, <2>4 DEF CachesInv, ServedInv, RequestOK, ReadOK
<1>6. QED
  BY <1>3, <1>5 DEF CachesInv

LEMMA BatchKeeps ==
  ASSUME CachesInv, (\E force \in BOOLEAN : BatchBegins(force)) \/ StepPassed \/ StepOpens \/ _write \/ BatchDies
  PROVE  CachesInv'
<1>1. UNCHANGED <<artifact, servedVars>>
  BY DEF BatchBegins, StepPassed, StepOpens, _write, BatchDies
<1>2. release' \in {release, release + 1}
  BY DEF BatchBegins, StepPassed, StepOpens, _write, BatchDies
<1>3. release \in Nat
  BY DEF CachesInv, FilesInv
<1>4. file' = Torn \/ (file' \in Nat /\ file' <= release) \/ file' = file
  BY <1>3 DEF BatchBegins, StepPassed, StepOpens, Opens, _write, Closes, BatchDies
<1>5. QED
  BY <1>1, <1>2, <1>4, FilesMove

\* A start reads what the disk has by then, and forgets the rest.
LEMMA StartsKeep ==
  ASSUME CachesInv, Restarted \/ Redeployed
  PROVE  CachesInv'
<1>1. Starts /\ artifact' = artifact
  BY DEF Restarted, Redeployed, Starts
<1>2. release' \in Nat \ {0}
  BY DEF CachesInv, FilesInv, Restarted, Redeployed
<1>3. file' \in {Torn, Missing} \/ (file' \in Nat /\ file' <= release')
  BY <1>2 DEF CachesInv, FilesInv, Restarted, Redeployed
<1>4. FilesInv'
  BY <1>1, <1>2, <1>3 DEF CachesInv, FilesInv
<1>5. _load_json' \in Nat /\ _load_json' <= release'
  BY <1>2, <1>3 DEF _load_json, Fallback
<1>6. injected' \in Nat /\ injected' <= release'
  BY <1>1, <1>2, <1>5 DEF Starts, Denominators, Fallback
<1>7. ReadOK(<< >>)' /\ ReadOK(<<_load_json>>)'
  BY <1>2, <1>5 DEF ReadOK
<1>8. \A l \in Loaders : cached'[l] \in {<<_load_json'>>, << >>}
  BY <1>1 DEF Starts, Fresh_caches, NotCached
<1>9. cached' \in [Loaders -> Seq(Nat)] /\ \A l \in Loaders : ReadOK(cached[l])'
  <2>1. <<_load_json'>> \in Seq(Nat) /\ << >> \in Seq(Nat)
    BY <1>5
  <2>2. cached' = [l \in Loaders |-> cached'[l]]
    BY <1>1 DEF Starts, Fresh_caches
  <2>3. cached' \in [Loaders -> Seq(Nat)]
    BY <1>8, <2>1, <2>2
  <2>4. QED
    BY <1>7, <1>8, <2>3 DEF ReadOK
<1>10. web' \in [Requesters -> WebRequests] /\ \A r \in Requesters : RequestOK(web[r])'
  <2>1. Idle \in WebRequests /\ RequestOK(Idle)'
    BY <1>7 DEF Idle, RequestOK, ReadOK, WebRequests, WebPlaces, Needs
  <2>2. web' = [r \in Requesters |-> Idle]
    BY <1>1 DEF Starts
  <2>3. QED
    BY <2>1, <2>2 DEF RequestOK, ReadOK
<1>11. ServedInv'
  BY <1>6, <1>9, <1>10 DEF ServedInv
<1>12. QED
  BY <1>4, <1>11 DEF CachesInv

LEMMA OthersKeep == ASSUME CachesInv, OthersInject PROVE CachesInv'
<1>1. injected' \in Nat /\ injected' <= release /\ UNCHANGED <<artifact, release, file, cached, web>>
  BY LoadOK DEF OthersInject, Denominators, Fallback, diskVars, CachesInv, FilesInv
<1>2. ServedInv'
  BY <1>1, ServedMoves
<1>3. FilesInv'
  BY <1>1 DEF CachesInv, FilesInv
<1>4. QED
  BY <1>2, <1>3 DEF CachesInv

\* A request that only reads and keeps.
LEMMA ServesKeeps ==
  ASSUME CachesInv, NEW r \in Requesters, UNCHANGED diskVars,
         cached' = cached \/ \E l \in Loaders : \E s : ReadOK(s) /\ cached' = [cached EXCEPT ![l] = s],
         NEW q, RequestOK(q), web' = [web EXCEPT ![r] = q],
         injected' \in Nat, injected' <= release
  PROVE  CachesInv'
<1>1. UNCHANGED <<artifact, release, file>>
  BY DEF diskVars
<1>2. FilesInv'
  BY <1>1 DEF CachesInv, FilesInv
<1>3. ServedInv'
  BY <1>1, ServedMoves
<1>4. QED
  BY <1>2, <1>3 DEF CachesInv

LEMMA InjectedFits == CachesInv => injected \in Nat /\ injected <= release
  BY DEF CachesInv, ServedInv

LEMMA RequestRead ==
  ASSUME CachesInv, NEW r \in Requesters
  PROVE  /\ RequestOK(web[r]) /\ web[r] \in WebRequests /\ web[r].at \in WebPlaces
         /\ web[r].got \in Seq(Nat) /\ ReadOK(web[r].got)
         /\ Len(web[r].got) \in Nat /\ Len(web[r].got) >= Needs(web[r].at)
  BY LenProperties DEF CachesInv, ServedInv, RequestOK, WebRequests

LEMMA MissedKeeps ==
  ASSUME CachesInv, NEW r \in Requesters, NEW l \in Loaders, Missed(r, l), UNCHANGED <<diskVars, cached, injected>>
  PROVE  CachesInv'
<1>1. release \in Nat /\ _load_json \in Nat /\ _load_json <= release
  BY LoadOK DEF CachesInv, FilesInv
<1> DEFINE q == IF l = "disputes_df" THEN [at |-> "names", loader |-> l, got |-> <<release>>]
                                     ELSE [at |-> "loaded", loader |-> l, got |-> <<_load_json>>]
<1>2. RequestOK(q)
  <2>1. ReadOK(<<release>>) /\ Len(<<release>>) = 1 /\ ReadOK(<<_load_json>>) /\ Len(<<_load_json>>) = 1
    BY <1>1, ReadOne
  <2>2. <<release>> \in Seq(Nat) /\ <<_load_json>> \in Seq(Nat)
    BY <1>1
  <2>3. QED
    BY <2>1, <2>2 DEF RequestOK, WebRequests, WebPlaces, Needs
<1>3. web' = [web EXCEPT ![r] = q]
  BY DEF Missed
<1> HIDE DEF q
<1>4. QED
  BY <1>2, <1>3, InjectedFits, ServesKeeps

LEMMA CalledKeeps == ASSUME CachesInv, NEW r \in Requesters, NEW l \in Loaders, Called(r, l) PROVE CachesInv'
  BY MissedKeeps DEF Called

LEMMA NamedKeeps == ASSUME CachesInv, NEW r \in Requesters, Named(r) PROVE CachesInv'
<1> DEFINE hit == cached["dispute_names"] # NotCached
           names == IF hit THEN cached["dispute_names"] ELSE <<_load_json>>
           q == [web[r] EXCEPT !.at = IF hit THEN "loaded" ELSE "named", !.got = @ \o names]
<1>1. web[r].at = "names" /\ web' = [web EXCEPT ![r] = q]
  BY DEF Named
<1>2. ReadOK(names) /\ (hit \/ Len(names) = 1) /\ Len(names) \in Nat
  <2>1. CASE hit
    BY <2>1, LenProperties DEF CachesInv, ServedInv, ReadOK, Loaders
  <2>2. CASE ~hit
    BY <2>2, LoadOK, ReadOne
  <2>3. QED
    BY <2>1, <2>2
<1>3. ReadOK(web[r].got) /\ Len(web[r].got) >= 1 /\ Len(web[r].got) \in Nat
  BY <1>1, RequestRead, LenProperties DEF Needs
<1> HIDE DEF names
<1>4. ReadOK(web[r].got \o names) /\ Len(web[r].got \o names) = Len(web[r].got) + Len(names)
  BY <1>2, <1>3, ReadBoth
<1>5. RequestOK(q)
  <2>1. /\ q.at = IF hit THEN "loaded" ELSE "named"
        /\ q.got = web[r].got \o names /\ q.loader = web[r].loader /\ web[r].loader \in Loaders
    BY <1>1, RequestRead DEF WebRequests, RequestOK
  <2>2. q \in WebRequests
    <3>1. web[r].got \o names \in Seq(Nat) /\ web[r] \in WebRequests
      BY <1>4, RequestRead DEF ReadOK
    <3>2. QED
      BY <3>1 DEF WebRequests, WebPlaces
  <2> HIDE DEF q
  <2>3. Len(q.got) >= Needs(q.at)
    <3>1. Len(q.got) = Len(web[r].got) + Len(names)
      BY <1>4, <2>1
    <3>2. CASE hit
      <4>1. Needs(q.at) = 1
        BY <2>1, <3>2 DEF Needs
      <4> HIDE DEF hit
      <4>2. QED
        BY <1>2, <1>3, <3>1, <4>1
    <3>3. CASE ~hit
      <4>1. Needs(q.at) = 2
        BY <2>1, <3>3 DEF Needs
      <4>2. Len(names) = 1
        BY <1>2, <3>3
      <4> HIDE DEF hit
      <4>3. QED
        BY <1>3, <3>1, <4>1, <4>2
    <3>4. QED
      BY <3>2, <3>3
  <2>4. QED
    BY <1>4, <2>1, <2>2, <2>3 DEF RequestOK
<1> HIDE DEF q
<1>6. UNCHANGED <<diskVars, cached, injected>>
  BY DEF Named
<1>7. QED
  BY <1>1, <1>5, <1>6, InjectedFits, ServesKeeps

\* One step of a cache: the value kept, or what is there.
LEMMA KeptEither ==
  ASSUME CachesInv, NEW l \in Loaders, NEW s, ReadOK(s), Kept(l, s)
  PROVE  \E v : ReadOK(v) /\ cached' = [cached EXCEPT ![l] = v]
<1>1. ReadOK(cached[l])
  BY DEF CachesInv, ServedInv
<1>2. CASE cached[l] = NotCached
  BY <1>2 DEF Kept
<1>3. CASE cached[l] # NotCached
  BY <1>1, <1>3 DEF Kept
<1>4. QED
  BY <1>2, <1>3

LEMMA NamesKeptKeeps == ASSUME CachesInv, NEW r \in Requesters, NamesKept(r) PROVE CachesInv'
<1> DEFINE q == [web[r] EXCEPT !.at = "loaded"]
           name == web[r].got[2]
<1>1. web[r].at = "named" /\ web' = [web EXCEPT ![r] = q] /\ Kept("dispute_names", <<name>>)
      /\ UNCHANGED <<diskVars, injected>>
  BY DEF NamesKept
<1>2. RequestOK(q)
  <2>1. q.at = "loaded" /\ q.got = web[r].got /\ q.loader = web[r].loader /\ web[r].loader \in Loaders
    BY <1>1, RequestRead DEF WebRequests, RequestOK
  <2>2. q \in WebRequests
    BY RequestRead DEF WebRequests, WebPlaces
  <2>3. Len(web[r].got) >= 1 /\ ReadOK(web[r].got)
    BY <1>1, RequestRead DEF Needs
  <2>4. QED
    BY <2>1, <2>2, <2>3 DEF RequestOK, Needs
<1>3. 2 \in 1..Len(web[r].got) /\ web[r].got \in Seq(Nat)
  BY <1>1, RequestRead, LenProperties DEF Needs
<1>4. name \in Nat /\ name <= release
  BY <1>3, RequestRead DEF ReadOK
<1> HIDE DEF q, name
<1>5. ReadOK(<<name>>)
  BY <1>4, ReadOne
<1>6. \E v : ReadOK(v) /\ cached' = [cached EXCEPT !["dispute_names"] = v]
  BY <1>1, <1>5, KeptEither DEF Loaders
<1>7. QED
  BY <1>1, <1>2, <1>6, InjectedFits, ServesKeeps DEF Loaders

LEMMA IdleOK == RequestOK(Idle)
  BY ReadNone DEF Idle, RequestOK, WebRequests, WebPlaces, Needs

LEMMA LoadKeptKeeps == ASSUME CachesInv, NEW r \in Requesters, LoadKept(r) PROVE CachesInv'
<1> DEFINE l == web[r].loader
           q == IF l = "base_rate_counts" THEN [web[r] EXCEPT !.at = "inject"] ELSE Idle
<1>1. web[r].at = "loaded" /\ web' = [web EXCEPT ![r] = q] /\ Kept(l, web[r].got) /\ UNCHANGED <<diskVars, injected>>
  BY DEF LoadKept
<1>2. l \in Loaders /\ ReadOK(web[r].got)
  BY <1>1, RequestRead DEF RequestOK
<1>3. RequestOK(q)
  <2>1. RequestOK([web[r] EXCEPT !.at = "inject"])
    BY <1>1, RequestRead DEF RequestOK, WebRequests, WebPlaces, Needs
  <2>2. QED
    BY <2>1, IdleOK
<1> HIDE DEF q, l
<1>4. \E v : ReadOK(v) /\ cached' = [cached EXCEPT ![l] = v]
  BY <1>1, <1>2, KeptEither
<1>5. QED
  BY <1>1, <1>2, <1>3, <1>4, InjectedFits, ServesKeeps

LEMMA InstallKeeps == ASSUME CachesInv, NEW r \in Requesters, install_offline_di(r) PROVE CachesInv'
<1> DEFINE q == [at |-> "inject", loader |-> artifact, got |-> cached[artifact]]
<1>1. /\ artifact \in Loaders /\ cached[artifact] # NotCached /\ web' = [web EXCEPT ![r] = q]
      /\ UNCHANGED <<diskVars, cached, injected>>
  BY DEF install_offline_di, Loaders
<1>2. ReadOK(cached[artifact]) /\ cached[artifact] \in Seq(Nat)
  BY <1>1 DEF CachesInv, ServedInv
<1>3. Len(cached[artifact]) >= 1
  BY <1>1, <1>2, ReadSome
<1>4. RequestOK(q)
  BY <1>1, <1>2, <1>3 DEF RequestOK, WebRequests, WebPlaces, Needs
<1> HIDE DEF q
<1>5. QED
  BY <1>1, <1>4, InjectedFits, ServesKeeps

LEMMA FirstRead ==
  ASSUME CachesInv, NEW r \in Requesters, web[r].at \in {"inject", "scanned", "writing"}
  PROVE  web[r].got[1] \in Nat /\ web[r].got[1] <= release
<1>1. 1 \in 1..Len(web[r].got) /\ web[r].got \in Seq(Nat)
  BY RequestRead, LenProperties DEF Needs
<1>2. QED
  BY <1>1, RequestRead DEF ReadOK

LEMMA InjectedKeeps == ASSUME CachesInv, NEW r \in Requesters, Injected(r) PROVE CachesInv'
<1>1. web[r].at = "inject" /\ injected' = web[r].got[1] /\ web' = [web EXCEPT ![r] = Idle] /\ UNCHANGED <<diskVars, cached>>
  BY DEF Injected
<1>2. injected' \in Nat /\ injected' <= release
  BY <1>1, FirstRead
<1>3. QED
  BY <1>1, <1>2, IdleOK, ServesKeeps

LEMMA RefreshKeeps == ASSUME CachesInv, RefreshBegins \/ Cleared PROVE CachesInv'
<1>1. UNCHANGED <<artifact, release, file, injected, web>>
  BY DEF RefreshBegins, Cleared, diskVars
<1>2. cached' = cached \/ \E l \in Loaders : \E s : ReadOK(s) /\ cached' = [cached EXCEPT ![l] = s]
  <2>1. CASE RefreshBegins
    BY <2>1 DEF RefreshBegins
  <2>2. CASE Cleared
    <3> DEFINE l == _ARTIFACT_LOADERS[clearing]
    <3>1. cached' = [cached EXCEPT ![l] = NotCached] /\ ReadOK(NotCached)
      BY <2>2, ReadNone DEF Cleared, NotCached
    <3>2. cached \in [Loaders -> Seq(Nat)]
      BY DEF CachesInv, ServedInv
    <3> HIDE DEF l
    <3>3. CASE l \in Loaders
      BY <3>1, <3>3
    <3>4. CASE l \notin Loaders
      <4>1. cached' = cached
        BY <3>1, <3>2, <3>4
      <4>2. QED
        BY <4>1
    <3>5. QED
      BY <3>3, <3>4
  <2>3. QED
    BY <2>1, <2>2
<1>3. ServedInv'
  BY <1>1, <1>2, InjectedFits, ServedMoves
<1>4. FilesInv'
  BY <1>1 DEF CachesInv, FilesInv
<1>5. QED
  BY <1>3, <1>4 DEF CachesInv

LEMMA RebuildKeeps ==
  ASSUME CachesInv, NEW r \in Requesters,
         RebuildScans(r) \/ RebuildOpens(r) \/ RebuildCloses(r) \/ RebuildClears(r) \/ RebuildLoads(r)
  PROVE  CachesInv'
<1>0. release \in Nat
  BY DEF CachesInv, FilesInv
<1>1. CASE RebuildScans(r)
  <2> DEFINE q == [at |-> "scanned", loader |-> artifact, got |-> <<injected>>]
  <2>1. RequestOK(q)
    BY <1>0, InjectedFits, ReadOne DEF RequestOK, WebRequests, WebPlaces, Needs, CachesInv, FilesInv, ReadOK
  <2>2. web' = [web EXCEPT ![r] = q] /\ UNCHANGED <<diskVars, cached, injected>>
    BY <1>1 DEF RebuildScans
  <2> HIDE DEF q
  <2>3. QED
    BY <2>1, <2>2, InjectedFits, ServesKeeps
<1>2. CASE RebuildOpens(r) \/ RebuildCloses(r)
  <2> DEFINE q == [web[r] EXCEPT !.at = IF RebuildOpens(r) THEN "writing" ELSE "written"]
  <2>1. UNCHANGED <<artifact, release, cached, injected>> /\ web' = [web EXCEPT ![r] = q]
    BY <1>2 DEF RebuildOpens, RebuildCloses
  <2>2. RequestOK(q)
    <3>1. RebuildOpens(r) => web[r].at = "scanned"
      BY DEF RebuildOpens
    <3>2. QED
      BY <3>1, RequestRead DEF RequestOK, WebRequests, WebPlaces, Needs
  <2> HIDE DEF q
  <2>3. file' \in {Torn, Missing} \/ (file' \in Nat /\ file' <= release)
    <3>1. CASE RebuildOpens(r)
      BY <3>1 DEF RebuildOpens, Opens
    <3>2. CASE RebuildCloses(r)
      BY <3>2, FirstRead DEF RebuildCloses, Closes
    <3>3. QED
      BY <1>2, <3>1, <3>2
  <2>4. FilesInv'
    BY <2>1, <2>3 DEF CachesInv, FilesInv
  <2>5. ServedInv'
    BY <2>1, <2>2, InjectedFits, ServedMoves
  <2>6. QED
    BY <2>4, <2>5 DEF CachesInv
<1>3. CASE RebuildClears(r)
  <2> DEFINE q == [web[r] EXCEPT !.at = "reload"]
  <2>1. RequestOK(q)
    BY RequestRead DEF RequestOK, WebRequests, WebPlaces, Needs
  <2>2. /\ web' = [web EXCEPT ![r] = q] /\ cached' = [cached EXCEPT !["hf_overview"] = NotCached]
        /\ UNCHANGED <<diskVars, injected>>
    BY <1>3 DEF RebuildClears
  <2>3. "hf_overview" \in Loaders /\ ReadOK(NotCached)
    BY ReadNone DEF Loaders, NotCached
  <2> HIDE DEF q
  <2>4. QED
    BY <2>1, <2>2, <2>3, InjectedFits, ServesKeeps
<1>4. CASE RebuildLoads(r)
  <2>1. CASE cached["hf_overview"] = NotCached
    BY <1>4, <2>1, MissedKeeps DEF RebuildLoads, Loaders
  <2>2. CASE cached["hf_overview"] # NotCached
    <3>1. web' = [web EXCEPT ![r] = Idle] /\ UNCHANGED <<diskVars, cached, injected>>
      BY <1>4, <2>2 DEF RebuildLoads
    <3>2. QED
      BY <3>1, IdleOK, InjectedFits, ServesKeeps
  <2>3. QED
    BY <2>1, <2>2
<1>5. QED
  BY <1>1, <1>2, <1>3, <1>4

LEMMA CachesStep == CachesInv /\ [CachesNext]_cacheVars => CachesInv'
<1> SUFFICES ASSUME CachesInv, [CachesNext]_cacheVars PROVE CachesInv'
  OBVIOUS
<1>1. CASE UNCHANGED cacheVars
  BY <1>1 DEF cacheVars, diskVars, servedVars, CachesInv, FilesInv, ServedInv, RequestOK, ReadOK
<1>2. ASSUME NEW r \in Requesters, (\E l \in Loaders : Called(r, l)) \/ install_offline_di(r) \/ RebuildScans(r) \/ Serving(r)
      PROVE  CachesInv'
  BY <1>2, CalledKeeps, InstallKeeps, RebuildKeeps, NamedKeeps, NamesKeptKeeps, LoadKeptKeeps, InjectedKeeps DEF Serving
<1>3. CASE CachesNext
  BY <1>2, <1>3, StartsKeep, BatchKeeps, OthersKeep, RefreshKeeps DEF CachesNext
<1>4. QED
  BY <1>1, <1>3

LEMMA CachesBegin == CachesInit => CachesInv
<1> SUFFICES ASSUME CachesInit PROVE CachesInv
  OBVIOUS
<1>1. FilesInv
  BY DEF CachesInit, FilesInv, Behind, Loaders
<1>2. \A l \in Loaders : cached[l] \in {<<_load_json>>, NotCached}
  BY DEF CachesInit, Fresh_caches
<1>3. ReadOK(<<_load_json>>) /\ ReadOK(NotCached)
  BY ReadNone DEF CachesInit, ReadOK, _load_json, Fallback, NotCached
<1>4. \A l \in Loaders : ReadOK(cached[l])
  BY <1>2, <1>3
<1>5. cached \in [Loaders -> Seq(Nat)]
  <2>1. \A l \in Loaders : cached[l] \in Seq(Nat)
    BY <1>4 DEF ReadOK
  <2>2. cached = [l \in Loaders |-> cached[l]]
    BY DEF CachesInit, Fresh_caches
  <2>3. QED
    BY <2>1, <2>2
<1>6. web \in [Requesters -> WebRequests] /\ \A r \in Requesters : RequestOK(web[r])
  <2>1. Idle \in WebRequests /\ RequestOK(Idle)
    BY IdleOK DEF RequestOK
  <2>2. QED
    BY <2>1 DEF CachesInit
<1>7. injected \in Nat /\ injected <= release
  BY DEF CachesInit, Denominators, _load_json, Fallback
<1>8. QED
  BY <1>1, <1>4, <1>5, <1>6, <1>7 DEF CachesInv, ServedInv

\* No cache and no denominator of the estimator is ever torn, or of a version of the data
\* there is not yet, whatever batches die, rebuilds overlap, refreshes race and deploys
\* replace the disk.
THEOREM NothingTornIsKept == CachesSpec => []NothingTornKept
<1>1. CachesInv => NothingTornKept
  <2> SUFFICES ASSUME CachesInv PROVE NothingTornKept
    OBVIOUS
  <2>1. release \in Nat /\ injected \in 0..release
    BY DEF CachesInv, FilesInv, ServedInv
  <2>2. ASSUME NEW l \in Loaders, NEW i \in 1..Len(cached[l]) PROVE cached[l][i] \in 0..release
    <3>1. cached[l] \in Seq(Nat) /\ cached[l][i] <= release
      BY DEF CachesInv, ServedInv, ReadOK
    <3>2. cached[l][i] \in Nat
      BY <3>1
    <3>3. QED
      BY <2>1, <3>1, <3>2
  <2>3. QED
    BY <2>1, <2>2 DEF NothingTornKept
<1>2. QED
  BY <1>1, CachesBegin, CachesStep, PTL DEF CachesSpec
=============================================================================
