--------------------------- MODULE KeeperLifecycle ---------------------------
(***************************************************************************)
(* The life of the keeper inside the web process: execution/                *)
(* testnet_keeper.py's start_background, stop, run and _ensure, the routes  *)
(* of webapp/backend/routes.py that call them from a pool of threads, the   *)
(* autostart at the end of main.py's warm thread, and main.py's shutdown.   *)
(*                                                                         *)
(* start_background and stop take no lock; run() holds _lock throughout.    *)
(* A shared field is read or written in one step, and whatever happens      *)
(* between two of them is another step.  What a tick does is RiskGovernor,  *)
(* QuotingLoop and TestnetClob; here it is a step that may fail.            *)
(***************************************************************************)
EXTENDS Integers, FiniteSets

CONSTANTS
  Clients,          \* threads of the web server's pool
  Warm,             \* the warm thread of main.py
  Lifespan,         \* main.py's lifespan after its yield
  MaxThreads,       \* bound: keeper threads ever created
  MaxGovernors      \* bound: governors ever constructed

ASSUME LifecycleAssumption ==
  /\ MaxThreads \in Nat \ {0} /\ MaxGovernors \in Nat \ {0}
  /\ Warm \notin Clients /\ Lifespan \notin Clients /\ Warm # Lifespan

Threads == 1..MaxThreads
Callers == Clients \cup {Warm, Lifespan}
None == 0

VARIABLES
  at,               \* where a caller is in the method it runs
  held,             \* the thread a caller of stop has read
  keeper,           \* the module's _keeper exists
  thread,           \* self._thread
  made,             \* threads constructed so far: 1..made
  pc,               \* of a keeper thread: "new", a place in run(), "dead"
  lock,             \* holder of self._lock
  stop,             \* self._stop
  risk,             \* self.risk
  clob,             \* the governor self.clob signs under; None: no clob
  governors,        \* governors constructed so far: 1..governors
  up,               \* the server takes requests
  late,             \* ticks begun since stop was set
  warmed,           \* the warm thread was over when the shutdown set stop
  raced             \* a risk request was inside _risk while _ensure ran

callerVars == <<at, held>>
stopVars == <<stop, late, warmed>>
govVars == <<risk, clob, governors, raced>>
lifecycleVars == <<callerVars, keeper, thread, made, pc, lock, stopVars, govVars, up>>

Alive(t) == t # None /\ pc[t] \notin {"new", "dead"}
InRun == {"risk", "riskNew", "clob", "markets", "check", "tick", "mark", "wait"}
Booting == \E t \in 1..made : pc[t] \in {"risk", "riskNew", "clob"}

LifecycleInit ==
  /\ at = [c \in Callers |-> "idle"] /\ held = [c \in Callers |-> None]
  /\ keeper = FALSE /\ thread = None /\ made = 0
  /\ pc = [t \in Threads |-> "new"]
  /\ lock = None /\ stop = FALSE
  /\ risk = None /\ clob = None /\ governors = 0
  /\ up = TRUE /\ late = 0 /\ warmed = FALSE /\ raced = FALSE

Move(c, from, to) == at[c] = from /\ at' = [at EXCEPT ![c] = to]
Home(c) == IF c = Warm THEN "done" ELSE "idle"
-----------------------------------------------------------------------------
(* start_background: is the thread alive, clear _stop, make and assign the *)
(* thread, start whatever self._thread then is.                            *)
get_keeper(c, to) ==
  /\ up \/ c = Warm
  /\ Move(c, "idle", to)
  /\ keeper' = TRUE
  /\ UNCHANGED <<held, thread, made, pc, lock, stopVars, govVars, up>>

\* The start and run routes, and the autostart.
CallStart(c) == c # Lifespan /\ get_keeper(c, "start")

StartCheck(c) ==
  /\ Move(c, "start", IF Alive(thread) THEN Home(c) ELSE "clear")
  /\ UNCHANGED <<held, keeper, thread, made, pc, lock, stopVars, govVars, up>>

StartClear(c) ==
  /\ Move(c, "clear", "create")
  /\ stop' = FALSE /\ late' = 0
  /\ UNCHANGED <<held, keeper, thread, made, pc, lock, warmed, govVars, up>>

StartCreate(c) ==
  /\ Move(c, "create", "launch")
  /\ made < MaxThreads
  /\ made' = made + 1 /\ thread' = made'
  /\ UNCHANGED <<held, keeper, pc, lock, stopVars, govVars, up>>

\* A thread can be started once: the second start raises.
StartLaunch(c) ==
  /\ Move(c, "launch", Home(c))
  /\ pc' = IF pc[thread] = "new" THEN [pc EXCEPT ![thread] = "lock"] ELSE pc
  /\ UNCHANGED <<held, keeper, thread, made, lock, stopVars, govVars, up>>

start_background(c) == StartCheck(c) \/ StartClear(c) \/ StartCreate(c) \/ StartLaunch(c)
-----------------------------------------------------------------------------
(* stop: set _stop, read the thread, join it for a while.                  *)
CallStop(c) == c \in Clients /\ get_keeper(c, "stop")

StopSet(c) ==
  /\ Move(c, "stop", "read")
  /\ stop' = TRUE /\ late' = IF stop THEN late ELSE 0
  /\ warmed' = (c = Lifespan /\ at[Warm] = "done")
  /\ UNCHANGED <<held, keeper, thread, made, pc, lock, govVars, up>>

StopRead(c) ==
  /\ Move(c, "read", IF Alive(thread) THEN "join" ELSE Home(c))
  /\ held' = [held EXCEPT ![c] = IF Alive(thread) THEN thread ELSE None]
  /\ UNCHANGED <<keeper, thread, made, pc, lock, stopVars, govVars, up>>

StopJoined_cleared(c) ==            \* clears _stop for the next start
  /\ Move(c, "join", Home(c))
  /\ held' = [held EXCEPT ![c] = None]
  /\ stop' = FALSE
  /\ UNCHANGED <<keeper, thread, made, pc, lock, late, warmed, govVars, up>>

\* The join ends with the thread or after its timeout.
StopJoined(c) ==
  /\ Move(c, "join", Home(c))
  /\ held' = [held EXCEPT ![c] = None]
  /\ UNCHANGED <<keeper, thread, made, pc, lock, stopVars, govVars, up>>

stop_keeper(c) == StopSet(c) \/ StopRead(c) \/ StopJoined(c)

\* lifespan after its yield: the server has let its requests finish.
Shutdown ==
  /\ up /\ \A c \in Clients : at[c] = "idle"
  /\ up' = FALSE
  /\ at' = IF keeper THEN [at EXCEPT ![Lifespan] = "stop"] ELSE at
  /\ UNCHANGED <<held, keeper, thread, made, pc, lock, stopVars, govVars>>
-----------------------------------------------------------------------------
(* _risk of the routes: constructs the governor if there is none.          *)
CallRisk(c) == c \in Clients /\ get_keeper(c, "risk")

RiskCheck(c) ==
  /\ Move(c, "risk", IF risk = None THEN "riskNew" ELSE "idle")
  /\ raced' = (raced \/ (risk = None /\ Booting))
  /\ UNCHANGED <<held, keeper, thread, made, pc, lock, stopVars, risk, clob, governors, up>>

RiskNew(c) ==
  /\ Move(c, "riskNew", "idle")
  /\ governors < MaxGovernors
  /\ governors' = governors + 1 /\ risk' = governors'
  /\ UNCHANGED <<held, keeper, thread, made, pc, lock, stopVars, clob, raced, up>>

_risk(c) == RiskCheck(c) \/ RiskNew(c)
-----------------------------------------------------------------------------
(* run, under _lock.                                                       *)
Goto(t, from, to) == pc[t] = from /\ pc' = [pc EXCEPT ![t] = to]
runUnchanged == <<callerVars, keeper, thread, made, stop, warmed, up>>

Acquire_unlocked(t) ==              \* does not take _lock
  /\ Goto(t, "lock", "risk")
  /\ UNCHANGED <<runUnchanged, lock, late, govVars>>

Acquire(t) ==
  /\ lock = None
  /\ Goto(t, "lock", "risk")
  /\ lock' = t
  /\ UNCHANGED <<runUnchanged, late, govVars>>

\* _ensure: the governor, then the clob under whatever self.risk then is.
EnsureRisk(t) ==
  /\ Goto(t, "risk", IF risk = None THEN "riskNew" ELSE "clob")
  /\ raced' = (raced \/ \E c \in Clients : at[c] = "riskNew")
  /\ UNCHANGED <<runUnchanged, lock, late, risk, clob, governors>>

EnsureRiskNew(t) ==
  /\ Goto(t, "riskNew", "clob")
  /\ governors < MaxGovernors
  /\ governors' = governors + 1 /\ risk' = governors'
  /\ UNCHANGED <<runUnchanged, lock, late, clob, raced>>

EnsureClob_fresh(t) ==              \* gives the clob a governor of its own
  /\ Goto(t, "clob", "markets")
  /\ governors < MaxGovernors
  /\ governors' = governors + 1
  /\ clob' = IF clob = None THEN governors' ELSE clob
  /\ UNCHANGED <<runUnchanged, lock, late, risk, raced>>

EnsureClob(t) ==
  /\ Goto(t, "clob", "markets")
  /\ clob' = IF clob = None THEN risk ELSE clob
  /\ UNCHANGED <<runUnchanged, lock, late, risk, governors, raced>>

EnsureMarkets(t) == Goto(t, "markets", "check") /\ UNCHANGED <<runUnchanged, lock, late, govVars>>

\* The end of run, and of the thread: the burst is over, or an exception of
\* _ensure or of mark_equity, neither of which is inside the tick's try.
Leave(t) ==
  /\ pc' = [pc EXCEPT ![t] = "dead"]
  /\ lock' = IF lock = t THEN None ELSE lock
  /\ UNCHANGED <<runUnchanged, late, govVars>>

BootFails(t) == pc[t] \in {"riskNew", "clob", "markets"} /\ Leave(t)
MarkDies(t) == pc[t] = "mark" /\ Leave(t)
BurstOver(t) == pc[t] \in {"check", "wait"} /\ Leave(t)

CheckStop_missed(t) ==              \* looks at _stop only between two ticks
  /\ Goto(t, "check", "tick")
  /\ UNCHANGED <<runUnchanged, lock, late, govVars>>

CheckStop(t) ==
  \/ pc[t] = "check" /\ stop /\ Leave(t)
  \/ /\ ~stop
     /\ Goto(t, "check", "tick")
     /\ UNCHANGED <<runUnchanged, lock, late, govVars>>

\* run_loop(n_ticks=1): its exceptions are caught.
Tick(t) ==
  /\ Goto(t, "tick", "mark")
  /\ late' = IF stop THEN late + 1 ELSE late
  /\ UNCHANGED <<runUnchanged, lock, govVars>>

MarkEquity(t) == Goto(t, "mark", "wait") /\ UNCHANGED <<runUnchanged, lock, late, govVars>>

\* stop.wait(interval): returns at once when _stop is set.
Wait(t) == Goto(t, "wait", "check") /\ UNCHANGED <<runUnchanged, lock, late, govVars>>

run(t) ==
  \/ Acquire(t) \/ EnsureRisk(t) \/ EnsureRiskNew(t) \/ EnsureClob(t) \/ EnsureMarkets(t)
  \/ BootFails(t) \/ CheckStop(t) \/ Tick(t) \/ MarkEquity(t) \/ MarkDies(t)
  \/ Wait(t) \/ BurstOver(t)

LifecycleNext ==
  \/ \E c \in Callers :
       \/ CallStart(c) \/ start_background(c)
       \/ CallStop(c) \/ stop_keeper(c)
       \/ CallRisk(c) \/ _risk(c)
  \/ Shutdown
  \/ \E t \in Threads : run(t)

LifecycleSpec == LifecycleInit /\ [][LifecycleNext]_lifecycleVars
-----------------------------------------------------------------------------

\* However many threads two unlocked start_backgrounds leave behind, one keeper at
\* most ticks, and the wallet has one signer.
OneKeeperRuns == Cardinality({t \in Threads : pc[t] \in InRun}) <= 1

\* A stop is late by the tick under way and no more, whichever threads are alive
\* when _stop is set: all of them together run one tick at most before it is cleared.
LastTickAfterStop == late <= 1

\* The governor that gates the clob is the one that is fed the equity marks and that
\* the routes show, unless a risk request was inside _risk while _ensure ran.
GateIsGovernor == clob \notin {None, risk} => raced

\* A shutdown that finds the warm thread finished leaves no keeper behind for good:
\* no request that was still running can start one again.
ShutdownEndsKeeper == warmed ~> [](\A t \in Threads : ~Alive(t))
=============================================================================
