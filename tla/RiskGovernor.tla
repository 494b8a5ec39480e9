---------------------------- MODULE RiskGovernor ----------------------------
(***************************************************************************)
(* The RiskGovernor of execution/risk.py between the keeper and the        *)
(* engine's wallet: the gate allow_tx and the recorders, the ledger file   *)
(* of the UTC day with its replay, the kill-switch file, and the callers   *)
(* as execution/testnet_clob.py _send and execution/testnet_keeper.py run  *)
(* order them.                                                             *)
(*                                                                         *)
(* One thread, the keeper, signs.  The web server's threads call status()  *)
(* on the same object; nothing is locked, so their day rolls interleave    *)
(* with the keeper's calls.  _roll_day is split where another thread can   *)
(* see it half done, and the recorders between the counter and the write.  *)
(*                                                                         *)
(* Of the ledger a day's replay only reads four numbers, so the lines of a *)
(* day's file are the record [txs, gas, open, last] they add up to.  A     *)
(* crash can leave the last line without its end: cut, so that the replay  *)
(* skips it, or short of its newline only, so that it is still read.  The  *)
(* next record is appended to what is there, and neither is readable then. *)
(* Lines whose flush returned survive; a file the machine loses is not     *)
(* modelled.                                                               *)
(***************************************************************************)
EXTENDS Integers, FiniteSets

CONSTANTS Keeper,           \* the signing thread
          WebThreads,       \* threads of the web server
          MaxTx,            \* max_tx_per_day
          MaxGas,           \* max_gas_pol_per_day
          MaxErrors,        \* max_consecutive_errors
          MaxLoss,          \* max_daily_loss_usd
          GasPerTx,         \* gas one transaction uses
          Equities,         \* values mark_equity can be called with
          NoEquity,         \* None: no equity marked yet
          Days,             \* UTC days 1..Days; bounds the clock
          Failures,         \* the error counter stops here; above MaxErrors it tells nothing new
          Crashes           \* bounds the process restarts

ASSUME ThreadsAssumption == Keeper \notin WebThreads /\ IsFiniteSet(WebThreads)
ASSUME LimitsAssumption ==
  /\ MaxTx \in Nat \ {0} /\ MaxGas \in Nat /\ MaxErrors \in Nat \ {0} /\ MaxLoss \in Nat
ASSUME InputsAssumption == GasPerTx \in Nat /\ Equities \subseteq Int /\ NoEquity \notin Int
ASSUME BoundsAssumption == Days \in Nat \ {0} /\ Failures \in Nat /\ Failures >= MaxErrors /\ Crashes \in Nat

Threads == {Keeper} \cup WebThreads
Closed == 0                 \* the ledger's file handle, between close() and open()

VARIABLES
  today,                    \* the UTC day the injected clock shows
  ledger,                   \* on disk: the ended lines of each day's file,
  torn, tail,               \* whether a torn line follows, and what a replay then reads,
  killFile,                 \* and the kill switch
  day, fh,                  \* _day, and the day of the open ledger file
  txCount, gasPol, equityOpen, equityLast,   \* _tx_count, _gas_pol, _equity_open, _equity_last
  lowPol,                   \* _engine_pol is known and below min_pol_balance
  overGross,                \* gross_exposure() > portfolio_gross_cap
  consecutiveErrors,
  op, at, newDay,           \* per thread: the governor call it is in, where, and _roll_day's `day'
  alive,                    \* the keeper's run() has not been ended by an exception
  signed,                   \* history: transactions broadcast on each day
  sinceKill,                \* history: transactions broadcast since the kill file appeared
  swallowed,                \* history: days whose torn line this process wrote onto
  crashes

files == <<ledger, torn, tail, swallowed>>
disk == <<files, killFile>>
counters == <<txCount, gasPol, equityOpen, equityLast>>
gates == <<lowPol, overGross>>
control == <<op, at, newDay>>
history == <<signed, sinceKill>>
vars == <<today, disk, day, fh, counters, gates, consecutiveErrors, control, alive, history, crashes>>

EmptyDay == [txs |-> 0, gas |-> 0, open |-> NoEquity, last |-> NoEquity]

Init ==
  /\ today = 1 /\ day = 1 /\ fh = 1
  /\ ledger = [d \in 1..Days |-> EmptyDay] /\ tail = ledger
  /\ torn = [d \in 1..Days |-> FALSE] /\ swallowed = {} /\ killFile = FALSE
  /\ txCount = 0 /\ gasPol = 0 /\ equityOpen = NoEquity /\ equityLast = NoEquity
  /\ lowPol = FALSE /\ overGross = FALSE /\ consecutiveErrors = 0
  /\ op = [t \in Threads |-> "none"] /\ at = [t \in Threads |-> "check"]
  /\ newDay = [t \in Threads |-> 1]
  /\ alive = TRUE
  /\ signed = [d \in 1..Days |-> 0] /\ sinceKill = 0 /\ crashes = 0
-----------------------------------------------------------------------------
(* Thread t moves to point p of the call it is in, or on to a new call.    *)
Goto(t, p) == at' = [at EXCEPT ![t] = p] /\ UNCHANGED <<op, newDay>>
Call(t, o) == op' = [op EXCEPT ![t] = o] /\ at' = [at EXCEPT ![t] = "check"] /\ UNCHANGED newDay
In(t, o, p) == op[t] = o /\ at[t] = p

Midnight ==
  /\ today < Days
  /\ today' = today + 1
  /\ UNCHANGED <<disk, day, fh, counters, gates, consecutiveErrors, control, alive, history, crashes>>

(* _roll_day, the first statement of allow_tx, record_tx, mark_equity and  *)
(* status.  (status calls allow_tx, whose second roll finds the day set.)  *)
Rolling(t) == op[t] \in {"allow_tx", "record_tx", "mark_equity", "status"}

RollCheck(t) ==
  /\ Rolling(t) /\ at[t] = "check"
  /\ IF today = day
     THEN Goto(t, "body")
     ELSE /\ at' = [at EXCEPT ![t] = "close"]
          /\ newDay' = [newDay EXCEPT ![t] = today]
          /\ UNCHANGED op
  /\ UNCHANGED <<today, disk, day, fh, counters, gates, consecutiveErrors, alive, history, crashes>>

RollClose(t) ==
  /\ at[t] = "close"
  /\ fh' = Closed
  /\ Goto(t, "reset")
  /\ UNCHANGED <<today, disk, day, counters, gates, consecutiveErrors, alive, history, crashes>>

\* Defective variants of an operation are named after it; no specification uses them.
RollReset_keeps(t) ==               \* the counters of the day before stay
  /\ at[t] = "reset"
  /\ day' = newDay[t]
  /\ Goto(t, "replay")
  /\ UNCHANGED <<today, disk, fh, counters, gates, consecutiveErrors, alive, history, crashes>>

RollReset(t) ==
  /\ at[t] = "reset"
  /\ day' = newDay[t]
  /\ txCount' = 0 /\ gasPol' = 0 /\ equityOpen' = NoEquity /\ equityLast' = NoEquity
  /\ Goto(t, "replay")
  /\ UNCHANGED <<today, disk, fh, gates, consecutiveErrors, alive, history, crashes>>

\* What replaying the ledger file of a day adds to the counters.
Replay(rec) ==
  /\ txCount' = txCount + rec.txs
  /\ gasPol' = gasPol + rec.gas
  /\ equityOpen' = IF equityOpen = NoEquity THEN rec.open ELSE equityOpen
  /\ equityLast' = IF rec.last = NoEquity THEN equityLast ELSE rec.last

\* What the replay of a day's file reads.
Readable(d) == IF torn[d] THEN tail[d] ELSE ledger[d]

RollReplay(t) ==
  /\ at[t] = "replay"
  /\ Replay(Readable(newDay[t]))
  /\ Goto(t, "open")
  /\ UNCHANGED <<today, disk, day, fh, gates, consecutiveErrors, alive, history, crashes>>

RollOpen(t) ==
  /\ at[t] = "open"
  /\ fh' = newDay[t]
  /\ Goto(t, "body")
  /\ UNCHANGED <<today, disk, day, counters, gates, consecutiveErrors, alive, history, crashes>>

Roll(t) == RollCheck(t) \/ RollClose(t) \/ RollReset(t) \/ RollReplay(t) \/ RollOpen(t)
-----------------------------------------------------------------------------
(* The gate.                                                               *)

daily_loss ==
  IF equityOpen = NoEquity \/ equityLast = NoEquity \/ equityOpen < equityLast
  THEN 0 ELSE equityOpen - equityLast

Allowed_uncounted ==                \* the transaction budget is not checked
  ~killFile /\ ~lowPol /\ consecutiveErrors < MaxErrors /\ daily_loss <= MaxLoss /\ ~overGross

Allowed_noBreaker ==                \* the error breaker is not checked
  ~killFile /\ ~lowPol /\ txCount < MaxTx /\ gasPol < MaxGas /\ daily_loss <= MaxLoss /\ ~overGross

Allowed_killIgnored ==              \* the kill file is not checked
  ~lowPol /\ consecutiveErrors < MaxErrors /\ txCount < MaxTx /\ gasPol < MaxGas

Allowed ==
  /\ ~killFile
  /\ ~lowPol
  /\ consecutiveErrors < MaxErrors
  /\ txCount < MaxTx
  /\ gasPol < MaxGas
  /\ daily_loss <= MaxLoss
  /\ ~overGross

allow_tx ==
  /\ In(Keeper, "allow_tx", "body")
  /\ Call(Keeper, IF Allowed THEN "send" ELSE "none")
  /\ UNCHANGED <<today, disk, day, fh, counters, gates, consecutiveErrors, alive, history, crashes>>

status(t) ==
  /\ In(t, "status", "body")
  /\ Call(t, "none")
  /\ UNCHANGED <<today, disk, day, fh, counters, gates, consecutiveErrors, alive, history, crashes>>
-----------------------------------------------------------------------------
(* The keeper between gate and ledger: signer.send of testnet_chain.       *)

\* One admitted send puts up to two transactions on the wire: when the answer to
\* send_raw_transaction is lost, the node refuses the copy that is sent next
\* ("already known", "nonce too low"), and send() signs once more on the nonce it
\* reads then.
PerSend == 2

Broadcast(n) ==
  /\ signed' = [signed EXCEPT ![today] = @ + n]
  /\ sinceKill' = IF killFile THEN sinceKill + n ELSE sinceKill

\* A receipt with status 1: the breaker closes and the transaction is recorded.
SendSucceeds ==
  /\ op[Keeper] = "send"
  /\ \E n \in 1..PerSend : Broadcast(n)
  /\ consecutiveErrors' = 0
  /\ Call(Keeper, "record_tx")
  /\ UNCHANGED <<today, disk, day, fh, counters, gates, alive, crashes>>

\* An error before a transaction left, or after: a revert, a receipt timeout, a
\* second attempt refused as well.  Only the error is recorded.
SendFails ==
  /\ op[Keeper] = "send"
  /\ \E n \in 0..PerSend : Broadcast(n)
  /\ Call(Keeper, "record_error")
  /\ UNCHANGED <<today, disk, day, fh, counters, gates, consecutiveErrors, alive, crashes>>

record_tx ==
  /\ In(Keeper, "record_tx", "body")
  /\ txCount' = txCount + 1 /\ gasPol' = gasPol + GasPerTx
  /\ Call(Keeper, "write_tx")
  /\ UNCHANGED <<today, disk, day, fh, equityOpen, equityLast, gates, consecutiveErrors, alive,
                 history, crashes>>

(* _write, the last statement of every recorder.  It appends to the file   *)
(* as it is: onto a torn line, and that line and the record are one that   *)
(* no replay can read.                                                     *)
Append(rec) ==
  /\ ledger' = IF torn[fh] THEN ledger ELSE [ledger EXCEPT ![fh] = rec]
  /\ swallowed' = IF torn[fh] THEN swallowed \cup {fh} ELSE swallowed
  /\ torn' = [torn EXCEPT ![fh] = FALSE]
  /\ tail' = [tail EXCEPT ![fh] = EmptyDay]

(* On a handle another thread has closed it raises ValueError.  Inside a   *)
(* tick the handler of run() then calls record_error; the handler's own    *)
(* write and the one of mark_equity are outside the try, and an exception  *)
(* there ends run().                                                       *)
Write(rec, next) ==
  \/ /\ fh # Closed
     /\ Append(rec)
     /\ Call(Keeper, "none") /\ UNCHANGED alive
  \/ /\ fh = Closed
     /\ Call(Keeper, next) /\ alive' = (next # "none")
     /\ UNCHANGED files

\* The ended lines of the open file, and what a line of each kind makes of them; lines
\* of errors, fills and kills tell the replay nothing.
Record == IF fh = Closed THEN EmptyDay ELSE ledger[fh]
WithTx(rec) == [rec EXCEPT !.txs = @ + 1, !.gas = @ + GasPerTx]
WithEquity(rec, equity) == [rec EXCEPT !.open = IF @ = NoEquity THEN equity ELSE @, !.last = equity]

write_tx ==
  /\ op[Keeper] = "write_tx"
  /\ Write(WithTx(Record), "handler")
  /\ UNCHANGED <<today, killFile, day, fh, counters, gates, consecutiveErrors, history, crashes>>

record_error(from, next) ==
  /\ op[Keeper] = from /\ alive
  /\ consecutiveErrors' = IF consecutiveErrors < Failures THEN consecutiveErrors + 1 ELSE Failures
  /\ Write(Record, next)
  /\ UNCHANGED <<today, killFile, day, fh, counters, gates, history, crashes>>

record_fill ==
  /\ op[Keeper] = "none" /\ alive
  /\ overGross' \in BOOLEAN
  /\ Write(Record, "handler")
  /\ UNCHANGED <<today, killFile, day, fh, counters, lowPol, consecutiveErrors, history, crashes>>

mark_engine_pol ==
  /\ op[Keeper] = "none" /\ alive
  /\ lowPol' \in BOOLEAN
  /\ UNCHANGED <<today, disk, day, fh, counters, overGross, consecutiveErrors, control, alive,
                 history, crashes>>

mark_equity(equity) ==
  /\ In(Keeper, "mark_equity", "body")
  /\ equityOpen' = IF equityOpen = NoEquity THEN equity ELSE equityOpen
  /\ equityLast' = equity
  /\ Write(WithEquity(Record, equity), "none")
  /\ UNCHANGED <<today, killFile, day, fh, txCount, gasPol, gates, consecutiveErrors, history, crashes>>
-----------------------------------------------------------------------------
(* Calls begin: the keeper's while its run() lives, the web threads' any   *)
(* time.                                                                   *)
KeeperCalls(o) ==
  /\ o \in {"allow_tx", "mark_equity"}
  /\ op[Keeper] = "none" /\ alive
  /\ Call(Keeper, o)
  /\ UNCHANGED <<today, disk, day, fh, counters, gates, consecutiveErrors, alive, history, crashes>>

WebCallsStatus(t) ==
  /\ op[t] = "none"
  /\ Call(t, "status")
  /\ UNCHANGED <<today, disk, day, fh, counters, gates, consecutiveErrors, alive, history, crashes>>

\* The routes also log the switch, if the file is open; a hand on the file does not.
Logged == UNCHANGED files \/ (fh # Closed /\ Append(Record))

kill ==
  /\ killFile' = TRUE
  /\ Logged
  /\ sinceKill' = IF killFile THEN sinceKill ELSE 0
  /\ UNCHANGED <<today, day, fh, counters, gates, consecutiveErrors, control, alive, signed, crashes>>

unkill ==
  /\ killFile
  /\ killFile' = FALSE
  /\ Logged
  /\ UNCHANGED <<today, day, fh, counters, gates, consecutiveErrors, control, alive, history, crashes>>

\* An operator or the watchdog starts run() again in the same process.
Relaunch ==
  /\ ~alive
  /\ alive' = TRUE
  /\ UNCHANGED <<today, disk, day, fh, counters, gates, consecutiveErrors, control, history, crashes>>

\* The state the constructor gets from the ledger of the day.
LoadDay_fresh(rec) ==               \* the ledger is not replayed
  txCount' = 0 /\ gasPol' = 0 /\ equityOpen' = NoEquity /\ equityLast' = NoEquity

LoadDay(rec) ==
  /\ txCount' = rec.txs /\ gasPol' = rec.gas
  /\ equityOpen' = rec.open /\ equityLast' = rec.last

\* What a replay reads of a line that misses only its newline.
Bare(rec) ==
  {r \in {WithTx(rec)} : op[Keeper] = "write_tx"}
    \cup {r \in {WithEquity(rec, equity) : equity \in Equities} : In(Keeper, "mark_equity", "body")}

\* The process dies, in the middle of a line or not; onto a torn line nothing readable comes.
Tear ==
  \/ UNCHANGED <<torn, tail>>
  \/ /\ fh # Closed
     /\ torn' = [torn EXCEPT ![fh] = TRUE]
     /\ \E rec \in {Record} \cup (IF torn[fh] THEN {} ELSE Bare(Record)) : tail' = [tail EXCEPT ![fh] = rec]

\* The next process's constructor rolls before anyone sees the governor.  What was in
\* flight is lost, with the record it would have written if its line is not there.
Restart ==
  /\ crashes < Crashes /\ crashes' = crashes + 1
  /\ UNCHANGED <<today, ledger, killFile, history>>
  /\ day' = today /\ fh' = today
  /\ Tear /\ swallowed' = {}
  /\ LoadDay(Readable(today)')
  /\ lowPol' = FALSE /\ overGross' = FALSE /\ consecutiveErrors' = 0
  /\ op' = [t \in Threads |-> "none"] /\ at' = [t \in Threads |-> "check"] /\ UNCHANGED newDay
  /\ alive' = TRUE
-----------------------------------------------------------------------------
KeeperStep ==
  \/ Roll(Keeper)
  \/ \E o \in {"allow_tx", "mark_equity"} : KeeperCalls(o)
  \/ allow_tx
  \/ SendSucceeds
  \/ SendFails
  \/ record_tx \/ write_tx
  \/ record_error("none", "handler")          \* a read failed
  \/ record_error("record_error", "handler")  \* a send failed
  \/ record_error("handler", "none")          \* the tick raised
  \/ record_fill \/ mark_engine_pol
  \/ \E equity \in Equities : mark_equity(equity)

WebStep(t) == WebCallsStatus(t) \/ Roll(t) \/ status(t)

Next ==
  \/ KeeperStep
  \/ \E t \in WebThreads : WebStep(t)
  \/ kill \/ unkill \/ Relaunch \/ Restart \/ Midnight

Spec == Init /\ [][Next]_vars

(* The keeper keeps ticking and a send ends (the receipt loop times out);  *)
(* that signing succeeds again is the environment's part and assumed       *)
(* whenever a send is allowed often enough.                                *)
FairSpec ==
  /\ Spec
  /\ WF_vars(Roll(Keeper)) /\ WF_vars(allow_tx) /\ WF_vars(record_tx) /\ WF_vars(write_tx)
  /\ SF_vars(KeeperCalls("allow_tx"))
  /\ SF_vars(SendSucceeds)
-----------------------------------------------------------------------------

Settled == /\ \A t \in Threads : at[t] \in {"check", "body"}
           /\ op[Keeper] # "write_tx"

(* "so tx/gas counters and the day's opening equity survive restarts"      *)
(* (risk.py:15): between calls the counters are those a replay of the      *)
(* day's file gives, whatever restarts and day rolls came before.  The     *)
(* exception is a file that ended in a torn line when this process first   *)
(* wrote to it: the replay is then short of the transactions glued         *)
(* together, never more than two, and the next process counts without      *)
(* them.                                                                   *)
CountersMatchLedger ==
  Settled => IF day \in swallowed
             THEN \E n \in 0..2 : txCount = Readable(day).txs + n /\ gasPol = Readable(day).gas + n * GasPerTx
             ELSE Readable(day) = [txs |-> txCount, gas |-> gasPol, open |-> equityOpen, last |-> equityLast]

(* The daily transaction budget holds of the ledger as a replay reads it,  *)
(* across day rolls in mid-send, restarts and failures.                    *)
TxBudgetHolds == \A d \in 1..Days : Readable(d).txs <= MaxTx

(* What the ledger does not have is bounded all the same: failed sends are *)
(* not recorded, but MaxErrors of them in a row stop all sending, and the  *)
(* send under way at midnight was admitted by the day before.  Every       *)
(* restart closes the breaker and can cost the records of two sends: the   *)
(* one its line was torn from, and the one written onto that line.         *)
BroadcastsBounded ==
  \A d \in 1..Days : signed[d] <= PerSend * MaxErrors * (MaxTx + 2 * crashes)

(* "every signing path halts within one tick" of the kill file             *)
(* (routes.py, post_testnet_kill): at most the send already admitted goes  *)
(* out, also when the process restarts meanwhile.                          *)
KillHaltsSigning == killFile => sinceKill <= PerSend

(* With web threads beside the keeper the budget is only approximate: a    *)
(* thread stopped between the reset and the replay of a day roll takes the *)
(* day's transactions back off the counter, and the keeper can spend them  *)
(* again.  One roll per thread and midnight can do this, no more.          *)
TxBudgetPerRoll ==
  \A d \in 1..Days : Readable(d).txs <= MaxTx * (1 + Cardinality(WebThreads))

(* And racing rolls settle: once no thread is inside _roll_day the open    *)
(* ledger file is that of the day being counted, so no record goes to      *)
(* another day's file.  This needs every roll to be over by the next       *)
(* midnight, as it is when there is only one: a roll that spans one races  *)
(* the roll to the day after, and can put the file of its own day back.    *)
RollsSettle ==
  /\ TxBudgetPerRoll
  /\ (\A t \in Threads : at[t] \in {"check", "body"}) => fh = day

(* risk.py:12: the breaker "closes on success".                            *)
BreakerCloses == (consecutiveErrors >= MaxErrors) ~> (consecutiveErrors < MaxErrors)

(* testnet_keeper.py: "a tick must never kill the keeper".                 *)
KeeperSurvives == alive
=============================================================================
