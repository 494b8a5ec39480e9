----------------------------- MODULE SessionLog -----------------------------
(***************************************************************************)
(* The session log: forwardtest/session_log.py, the keeper that writes it   *)
(* (execution/testnet_keeper.py _log_fh, _log, _session_start, run and      *)
(* _rollup, around the records that tick and run_loop of execution/loop.py  *)
(* emit) and the reader that splits it into the two arms                    *)
(* (forwardtest/ablation.py), for the session that the dashboard looks up. *)
(*                                                                         *)
(* A process opens the file of the UTC day on its first record and keeps    *)
(* it; every record is one flushed line, and a crash may tear the last one, *)
(* while a write that fails by itself (a full disk) is left out.  What a    *)
(* process holds in memory is gone with it, what it flagged on the chain is *)
(* not.                                                                    *)
(***************************************************************************)
EXTENDS Integers, Sequences, FiniteSets, SequencesExt, FiniteSetsExt

CONSTANTS
  Fleet,            \* the managed markets, in order: the arms alternate
  Equities,         \* marks of a market that has traded
  MaxDays, MaxProcesses, MaxTicks, MaxFills   \* bounds, each over a behaviour

ASSUME SessionAssumption ==
  /\ Fleet \in Seq(STRING) /\ Fleet # <<>> /\ IsInjective(Fleet)
  /\ Equities \subseteq Int
  /\ MaxDays \in Nat \ {0} /\ {MaxProcesses, MaxTicks, MaxFills} \subseteq Nat

FleetCids == Range(Fleet)
LogDays == 1..MaxDays
NoFile == 0

VARIABLES
  utc_day, processes, ticks, filled,     \* what the bounds count
  keeper_at,            \* where the keeper is: "down", "idle", or a place in run()
  out,              \* self.out_path: the day whose file is open
  started,          \* self._started_log
  traded,           \* markets with a fill in this process
  n_disputes,
  turn,             \* the market whose tick is under way
  files,            \* per day, what readers take from the whole lines
  torn,             \* days whose file ends in a torn line
  mined,            \* per market, flagDispute transactions on the chain
  logged,           \* fills whose record was written whole
  unlogged,         \* a flagDispute was mined and its record never written
  marks,            \* history: per day, what each market was last marked at in its file
  died              \* history: days into whose file a burst died after its last session_end

memory == <<out, started, traded, n_disputes, turn>>
disk == <<out, files, torn, marks>>
logVars == <<utc_day, processes, ticks, filled, keeper_at, memory, files, torn, mined, logged, unlogged, marks, died>>

Arm(c) == IF \E i \in DOMAIN Fleet : Fleet[i] = c /\ i % 2 = 1 THEN "lambda_on" ELSE "lambda_off"
-----------------------------------------------------------------------------
(* session_log: append and read.                                           *)
\* Readers select lines by type, and sum, count or take the last of them: a file is
\* what they find, once it exists.
Empty ==
  [exists |-> FALSE, fill |-> [c \in FleetCids |-> 0], exit |-> {}, quote |-> {}, tick |-> [c \in FleetCids |-> 0],
   dispute_flagged |-> 0, ends |-> <<>>]

Appended(file, rec) ==
  [exists |-> TRUE,
   fill |-> IF rec.type = "fill" THEN [file.fill EXCEPT ![rec.cid] = @ + 1] ELSE file.fill,
   exit |-> IF rec.type = "exit" THEN file.exit \cup {rec.cid} ELSE file.exit,
   quote |-> IF rec.type = "quote" THEN file.quote \cup {rec.cid} ELSE file.quote,
   tick |-> IF rec.type = "tick" THEN [file.tick EXCEPT ![rec.cid] = rec.equity] ELSE file.tick,
   dispute_flagged |-> file.dispute_flagged + (IF rec.type = "dispute_flagged" THEN 1 ELSE 0),
   ends |-> IF rec.type = "session_end" THEN <<rec>> ELSE file.ends]

\* _log_fh opens the file of the day once.  A line that follows a torn one is
\* part of it, and cannot be read.

Log(rec) ==
  /\ out' = IF out = NoFile THEN utc_day ELSE out
  /\ files' = IF out' \in torn THEN files ELSE [files EXCEPT ![out'] = Appended(@, rec)]
  /\ torn' = torn \ {out'}
  /\ marks' = IF rec.type = "tick" THEN [marks EXCEPT ![out'][rec.cid] = rec.equity]
              ELSE IF rec.type = "session_end" THEN [marks EXCEPT ![out'] = rec.per_market] ELSE marks

OfMarket(type, c) == [type |-> type, cid |-> c]

LogInit ==
  /\ utc_day = 1 /\ processes = 0 /\ ticks = 0 /\ filled = 0
  /\ keeper_at = "down" /\ out = NoFile /\ started = FALSE /\ traded = {} /\ n_disputes = 0
  /\ turn = 0
  /\ files = [d \in LogDays |-> Empty] /\ torn = {}
  /\ mined = [c \in FleetCids |-> 0] /\ logged = 0 /\ unlogged = FALSE
  /\ marks = [d \in LogDays |-> [c \in FleetCids |-> 0]] /\ died = {}

DayTurns ==
  /\ utc_day < MaxDays /\ utc_day' = utc_day + 1
  /\ UNCHANGED <<processes, ticks, filled, keeper_at, memory, files, torn, mined, logged, unlogged, marks, died>>
-----------------------------------------------------------------------------
(* The process and its bursts.                                             *)
Launch ==
  /\ keeper_at = "down" /\ processes < MaxProcesses
  /\ processes' = processes + 1 /\ keeper_at' = "idle"
  /\ out' = NoFile /\ started' = FALSE /\ traded' = {} /\ n_disputes' = 0 /\ turn' = 0
  /\ UNCHANGED <<utc_day, ticks, filled, files, torn, mined, logged, unlogged, marks, died>>

Bursting == keeper_at \notin {"down", "idle"}

\* With a line under way, or between two lines.
Crash ==
  /\ keeper_at # "down" /\ keeper_at' = "down"
  /\ died' = IF Bursting THEN died \cup {out} ELSE died
  /\ torn' \in {torn, IF out = NoFile THEN torn ELSE torn \cup {out}}
  /\ unlogged' = (unlogged \/ keeper_at = "flagged")
  /\ UNCHANGED <<utc_day, processes, ticks, filled, memory, files, mined, logged, marks>>

\* run: _ensure builds the markets once, logging what it had to do without, and
\* the header is written once per process.

RunBegins ==
  /\ keeper_at = "idle" /\ keeper_at' = "loop"
  /\ IF started THEN UNCHANGED disk ELSE Log([type |-> "session_start"])
  /\ started' = TRUE
  /\ UNCHANGED <<utc_day, processes, ticks, filled, traded, n_disputes, turn, mined, logged, unlogged, died>>

Degraded ==
  /\ keeper_at = "idle" /\ ~started /\ out = NoFile
  /\ Log([type |-> "degraded"])
  /\ UNCHANGED <<utc_day, processes, ticks, filled, keeper_at, started, traded, n_disputes, turn, mined, logged, unlogged, died>>

TickBegins ==
  /\ keeper_at = "loop" /\ ticks < MaxTicks
  /\ ticks' = ticks + 1 /\ keeper_at' = "fills" /\ turn' = 1
  /\ UNCHANGED <<utc_day, processes, filled, disk, started, traded, n_disputes, mined, logged, unlogged, died>>

\* run_loop's fills.
Filled(c) ==
  /\ keeper_at = "fills" /\ filled < MaxFills
  /\ filled' = filled + 1 /\ traded' = traded \cup {c}
  /\ Log(OfMarket("fill", c))
  /\ logged' = logged + 1
  /\ UNCHANGED <<utc_day, processes, ticks, keeper_at, started, n_disputes, turn, mined, unlogged, died>>

FillsDone ==
  /\ keeper_at = "fills" /\ keeper_at' = "market"
  /\ UNCHANGED <<utc_day, processes, ticks, filled, memory, files, torn, mined, logged, unlogged, marks, died>>

\* tick, on one market: an empty book ends it.
EndOfMarket == IF turn = Len(Fleet) THEN keeper_at' = "loop" /\ turn' = turn
                                    ELSE keeper_at' = "market" /\ turn' = turn + 1

EmptyBook ==
  /\ keeper_at = "market" /\ EndOfMarket
  /\ UNCHANGED <<utc_day, processes, ticks, filled, disk, started, traded, n_disputes, mined, logged, unlogged, died>>

\* The exit of the lambda-on arm, for a proposal or for lambda alone.
Exits(proposal) ==
  /\ keeper_at = "market" /\ Arm(Fleet[turn]) = "lambda_on" /\ Fleet[turn] \in traded
  /\ Log(OfMarket("exit", Fleet[turn]))
  /\ keeper_at' = IF proposal THEN "flag" ELSE "quote"
  /\ UNCHANGED <<utc_day, processes, ticks, filled, started, traded, n_disputes, turn, mined, logged, unlogged, died>>

\* flag_dispute_for: not for a market the snapshot shows disputed, and the gate or
\* the node may refuse; a node that is behind, or one that only the receipt is late
\* from, may have it mined without a result.
FlagRefused ==
  /\ keeper_at = "flag" /\ keeper_at' = "quote"
  /\ UNCHANGED <<utc_day, processes, ticks, filled, memory, files, torn, mined, logged, unlogged, marks, died>>

FlagMined(receipt) ==
  /\ keeper_at = "flag" /\ mined[Fleet[turn]] = 0
  /\ mined' = [mined EXCEPT ![Fleet[turn]] = @ + 1]
  /\ keeper_at' = IF receipt THEN "flagged" ELSE "quote"
  /\ unlogged' = (unlogged \/ ~receipt)
  /\ UNCHANGED <<utc_day, processes, ticks, filled, memory, files, torn, logged, marks, died>>

FlagLogged ==
  /\ keeper_at = "flagged" /\ keeper_at' = "quote"
  /\ Log(OfMarket("dispute_flagged", Fleet[turn]))
  /\ n_disputes' = n_disputes + 1
  /\ UNCHANGED <<utc_day, processes, ticks, filled, started, traded, turn, mined, logged, unlogged, died>>

Quotes ==
  /\ keeper_at \in {"market", "quote"} /\ keeper_at' = "quoted"
  /\ Log(OfMarket("quote", Fleet[turn]))
  /\ UNCHANGED <<utc_day, processes, ticks, filled, started, traded, n_disputes, turn, mined, logged, unlogged, died>>

Marks(c) == IF c \in traded THEN Equities ELSE {0}

Ticked ==
  /\ keeper_at \in {"market", "quote", "quoted"} /\ EndOfMarket
  /\ \E e \in Marks(Fleet[turn]) : Log([type |-> "tick", cid |-> Fleet[turn], equity |-> e])
  /\ UNCHANGED <<utc_day, processes, ticks, filled, started, traded, n_disputes, mined, logged, unlogged, died>>

\* The tick raises, and run goes on with the next.
TickRaised ==
  /\ keeper_at \in {"fills", "market", "flag", "flagged", "quote", "quoted"}
  /\ keeper_at' = "loop"
  /\ unlogged' = (unlogged \/ keeper_at = "flagged")
  /\ UNCHANGED <<utc_day, processes, ticks, filled, memory, files, torn, mined, logged, marks, died>>

\* A mark that raises ends the burst without its session_end.
BurstDies ==
  /\ keeper_at = "loop" /\ keeper_at' = "idle"
  /\ died' = died \cup {out}
  /\ UNCHANGED <<utc_day, processes, ticks, filled, memory, files, torn, mined, logged, unlogged, marks>>

RunEnds ==
  /\ keeper_at = "loop" /\ keeper_at' = "idle"
  /\ died' = died \ {out}
  /\ \E mark \in [FleetCids -> Equities \cup {0}] :
       /\ \A c \in FleetCids : mark[c] \in Marks(c)
       /\ Log([type |-> "session_end", per_market |-> mark, n_disputes_witnessed |-> n_disputes])
  /\ UNCHANGED <<utc_day, processes, ticks, filled, started, traded, n_disputes, turn, mined, logged, unlogged>>

LogNext ==
  \/ DayTurns \/ Launch \/ Crash
  \/ Degraded \/ RunBegins \/ TickBegins \/ BurstDies \/ RunEnds
  \/ (\E c \in FleetCids : Filled(c)) \/ FillsDone
  \/ EmptyBook \/ (\E p \in BOOLEAN : Exits(p)) \/ FlagRefused \/ (\E r \in BOOLEAN : FlagMined(r))
  \/ FlagLogged \/ Quotes \/ Ticked \/ TickRaised
LogSpec == LogInit /\ [][LogNext]_logVars
-----------------------------------------------------------------------------
(* The reader: _arm_rollup and run_live_ablation.                          *)
Named(file) == {c \in FleetCids : file.fill[c] > 0} \cup file.exit \cup file.quote

\* The markets that an arm's own records name: a tick record has no arm.
ArmCids_ticked(file, arm) == {c \in file.quote : Arm(c) = arm}

ArmCids(file, arm) == {c \in Named(file) : Arm(c) = arm}

ArmFleet(arm) == {c \in FleetCids : Arm(c) = arm}

ArmEquity(file, arm) ==
  IF file.ends # <<>>
  THEN SumFunctionOnSet(file.ends[1].per_market, ArmFleet(arm))
  ELSE SumFunctionOnSet(file.tick, ArmCids(file, arm))

run_live_ablation(file) ==
  [equity |-> [arm \in {"lambda_on", "lambda_off"} |-> ArmEquity(file, arm)],
   n_disputes |-> file.dispute_flagged]

\* The session the dashboard reads: the file of the process's own keeper, else the newest.
latest_session_path ==
  IF out # NoFile THEN out ELSE Max({d \in LogDays : files[d].exists} \cup {NoFile})

testnet_ablation == run_live_ablation(files[latest_session_path])
-----------------------------------------------------------------------------

\* A burst has marked the file, or may have, since its last session_end.
Unclosed(d) == d \in died \/ (d = out /\ Bursting)

\* What is read back from a session is what happened, through midnights, restarts into
\* the same file, torn lines, late receipts and ticks that raise.  The equity of each arm
\* is what its markets were last marked at, by a tick or by a session_end, with no mark
\* lost in the split between the arms.  Only after a session_end can it be another: the
\* reader keeps to the last session_end of the file, whatever later ticks say, so a later
\* burst into the file is not seen while it runs, nor after it died without a session_end
\* of its own.  A torn line takes no fill with it, only the line after.
\* The disputes counted are flagDisputes that were mined, one each, and all of them unless
\* the record fell to a crash, an exception or a late receipt; an exit for lambda alone is
\* never among them.  And the session the dashboard shows is the newest on disk, with every
\* dispute that the running keeper counts.
EquityServed ==
  \A d \in LogDays, arm \in {"lambda_on", "lambda_off"} :
    LET served == run_live_ablation(files[d]).equity[arm]
    IN  \/ served = SumFunctionOnSet(marks[d], ArmFleet(arm))
        \/ /\ files[d].ends # <<>> /\ Unclosed(d)
           /\ served = SumFunctionOnSet(files[d].ends[1].per_market, ArmFleet(arm))

FillsRead == logged = SumFunction([d \in LogDays |-> SumFunction(files[d].fill)])

DisputesCounted ==
  LET read == SumFunction([d \in LogDays |-> run_live_ablation(files[d]).n_disputes])
      sent == SumFunction(mined)
  IN  /\ read <= sent /\ (~unlogged /\ keeper_at # "flagged" => read = sent)
      /\ keeper_at # "down" => n_disputes <= read

SessionServed ==
  keeper_at # "down" =>
    /\ \A d \in LogDays : files[d].exists => d <= latest_session_path
    /\ out # NoFile => n_disputes <= testnet_ablation.n_disputes

SessionReadBack == EquityServed /\ FillsRead /\ DisputesCounted /\ SessionServed
=============================================================================
