------------------------- MODULE RiskGovernorProofs -------------------------
(***************************************************************************)
(* What the governor promises of the keeper alone, with no web thread on   *)
(* the same object: for any limits, inputs, days, failures and restarts.   *)
(* The last three theorems, about the kill file, the open breaker and      *)
(* racing day rolls, hold for any web threads.                             *)
(***************************************************************************)
EXTENDS RiskGovernor, FiniteSetTheorems, TLAPS

USE DEF LimitsAssumption, InputsAssumption, BoundsAssumption

Equity == Int \cup {NoEquity}
DayRecords == [txs : Nat, gas : Nat, open : Equity, last : Equity]
Calls == {"none", "allow_tx", "mark_equity", "send", "record_tx", "write_tx", "record_error"}
Places == {"check", "close", "reset", "replay", "open", "body"}

TypeInv ==
  /\ today \in 1..Days /\ day \in 1..Days /\ fh \in 0..Days
  /\ ledger \in [1..Days -> DayRecords] /\ killFile \in BOOLEAN
  /\ torn \in [1..Days -> BOOLEAN] /\ tail \in [1..Days -> DayRecords]
  /\ swallowed \subseteq 1..Days
  /\ txCount \in Nat /\ gasPol \in Nat /\ equityOpen \in Equity /\ equityLast \in Equity
  /\ lowPol \in BOOLEAN /\ overGross \in BOOLEAN /\ consecutiveErrors \in 0..Failures
  /\ op \in [Threads -> Calls] /\ at \in [Threads -> Places] /\ newDay \in [Threads -> 1..Days]
  /\ alive = TRUE
  /\ signed \in [1..Days -> Nat] /\ crashes \in Nat

o == op[Keeper]
p == at[Keeper]

\* The gas of n transactions.
Gas(n) == n * GasPerTx

\* Where the roll is, the file is that of the day, and later days have none yet.
RollInv ==
  /\ day <= today /\ newDay[Keeper] <= today
  /\ p # "check" => o \in {"allow_tx", "record_tx", "mark_equity"}
  /\ p \in {"close", "reset"} => newDay[Keeper] > day
  /\ p \in {"replay", "open"} => newDay[Keeper] = day
  /\ fh = IF p \in {"reset", "replay", "open"} THEN Closed ELSE day
  /\ \A d \in 1..Days : d > day => ledger[d] = EmptyDay /\ ~torn[d] /\ d \notin swallowed

\* A line that misses only its newline has one transaction at most; once something is
\* written onto it, the tear is over.
TearInv ==
  /\ \A d \in 1..Days : torn[d] => \E n \in 0..1 : /\ tail[d].txs = ledger[d].txs + n
                                                   /\ tail[d].gas = ledger[d].gas + Gas(n)
  /\ day \in swallowed => ~torn[day]

\* The counters are those of the day's file, but for what is about to be written or
\* replayed, and for what was glued together.
Unwritten == IF o = "write_tx" THEN 1 ELSE 0
Short(n) == txCount = Readable(day).txs + n /\ gasPol = Readable(day).gas + Gas(n)
Counted == IF day \in swallowed
           THEN \E n \in 0..2 : Short(n + Unwritten)
           ELSE /\ Short(Unwritten)
                /\ equityOpen = Readable(day).open /\ equityLast = Readable(day).last
Emptied ==
  /\ ledger[day] = EmptyDay /\ ~torn[day] /\ day \notin swallowed
  /\ txCount = 0 /\ gasPol = 0 /\ equityOpen = NoEquity /\ equityLast = NoEquity
LedgerInv == /\ p = "replay" => Emptied
             /\ p \notin {"reset", "replay"} => Counted

\* The gate's answer is still good when the transaction is recorded.
BudgetInv ==
  /\ o \in {"send", "record_tx"} => txCount < MaxTx
  /\ o = "write_tx" => txCount <= MaxTx
  /\ TxBudgetHolds

CountsInv == TypeInv /\ RollInv /\ TearInv /\ LedgerInv /\ BudgetInv
-----------------------------------------------------------------------------
LEMMA GasFacts ==
  /\ \A a, b \in 0..3 : Gas(a) \in Nat /\ Gas(a + b) = Gas(a) + Gas(b)
  /\ Gas(0) = 0 /\ Gas(1) = GasPerTx
<1> USE InputsAssumption DEF Gas
<1>1. Gas(0) = 0 /\ Gas(1) = GasPerTx /\ Gas(2) = GasPerTx + GasPerTx
      /\ Gas(3) = GasPerTx + GasPerTx + GasPerTx
  OBVIOUS
<1>2. \A a \in 0..3 : a \in {0, 1, 2, 3} /\ Gas(a) \in Nat
  BY <1>1
<1>3. ASSUME NEW a \in 0..3, NEW b \in 0..3 PROVE Gas(a + b) = Gas(a) + Gas(b)
  <2>1. \A n \in Nat : Gas(n + 1) = Gas(n) + GasPerTx
    OBVIOUS
  <2>2. /\ b = 0 => Gas(a + b) = Gas(a)
        /\ b = 1 => Gas(a + b) = Gas(a) + GasPerTx
        /\ b = 2 => Gas(a + b) = Gas(a) + GasPerTx + GasPerTx
        /\ b = 3 => Gas(a + b) = Gas(a) + GasPerTx + GasPerTx + GasPerTx
    <3>1. a + 0 = a /\ a + 2 = (a + 1) + 1 /\ a + 3 = ((a + 1) + 1) + 1
      OBVIOUS
    <3>2. Gas(a + 1) = Gas(a) + GasPerTx
      BY <2>1
    <3>3. Gas((a + 1) + 1) = Gas(a + 1) + GasPerTx
      BY <2>1
    <3>4. Gas(((a + 1) + 1) + 1) = Gas((a + 1) + 1) + GasPerTx
      BY <2>1
    <3> HIDE DEF Gas
    <3>5. QED
      BY <3>1, <3>2, <3>3, <3>4
  <2>3. b = 0 \/ b = 1 \/ b = 2 \/ b = 3
    OBVIOUS
  <2>4. Gas(a) \in Nat
    BY <1>2
  <2> HIDE DEF Gas
  <2>5. QED
    BY <1>1, <2>2, <2>3, <2>4
<1>4. QED
  BY <1>1, <1>2, <1>3

LEMMA CountsInit == Init => CountsInv
<1> SUFFICES ASSUME Init PROVE CountsInv
  OBVIOUS
<1> USE LimitsAssumption, InputsAssumption, BoundsAssumption DEF Init, Threads
<1>1. EmptyDay \in DayRecords
  BY DEF EmptyDay, DayRecords, Equity
<1>2. TypeInv
  <2>1. /\ ledger \in [1..Days -> DayRecords] /\ tail \in [1..Days -> DayRecords]
        /\ torn \in [1..Days -> BOOLEAN] /\ swallowed \subseteq 1..Days
    BY <1>1
  <2>2. today \in 1..Days /\ day \in 1..Days /\ fh \in 0..Days /\ consecutiveErrors \in 0..Failures
    OBVIOUS
  <2>3. /\ op \in [Threads -> Calls] /\ at \in [Threads -> Places] /\ newDay \in [Threads -> 1..Days]
        /\ signed \in [1..Days -> Nat]
    BY DEF Calls, Places
  <2>4. QED
    BY <2>1, <2>2, <2>3 DEF TypeInv, Equity
<1>3. RollInv /\ TearInv
  BY DEF RollInv, TearInv, o, p, Closed
<1>4. LedgerInv /\ BudgetInv
  <2>1. \A d \in 1..Days : Readable(d) = EmptyDay
    BY DEF Readable
  <2>2. Unwritten = 0
    BY DEF Unwritten, o
  <2>3. Counted
    <3>1. Gas(0) = 0 /\ Readable(day) = EmptyDay /\ day \notin swallowed
      BY <2>1, GasFacts
    <3>2. Short(0)
      BY <3>1 DEF Short, EmptyDay
    <3>3. QED
      BY <2>2, <3>1, <3>2 DEF Counted, EmptyDay
  <2>4. QED
    BY <2>1, <2>3 DEF LedgerInv, BudgetInv, TxBudgetHolds, EmptyDay, o, p
<1>5. QED
  BY <1>2, <1>3, <1>4 DEF CountsInv

\* The steps of a day roll.
LEMMA RollKeeps ==
  ASSUME CountsInv, WebThreads = {}, Roll(Keeper)
  PROVE  CountsInv'
<1> USE LimitsAssumption, InputsAssumption, BoundsAssumption
    DEF Threads, disk, files, counters, gates, history, Goto
<1>1. /\ UNCHANGED <<today, files, killFile, lowPol, overGross, consecutiveErrors, alive, signed, crashes>>
      /\ op' = op
  BY DEF Roll, RollCheck, RollClose, RollReset, RollReplay, RollOpen
<1>0. Unwritten' = Unwritten /\ \A d : Readable(d)' = Readable(d)
  BY <1>1 DEF Unwritten, Readable, o
<1>2. CASE RollCheck(Keeper)
  <2> USE <1>2 DEF RollCheck
  <2>1. TypeInv'
    BY <1>1 DEF CountsInv, TypeInv, Places
  <2>2. RollInv' /\ TearInv'
    BY <1>1 DEF CountsInv, TypeInv, Calls, RollInv, TearInv, Rolling, o, p
  <2>3. LedgerInv' /\ BudgetInv'
    BY <1>0, <1>1 DEF CountsInv, TypeInv, LedgerInv, Counted, Short, BudgetInv, TxBudgetHolds, Rolling, o, p
  <2>4. QED
    BY <2>1, <2>2, <2>3 DEF CountsInv
<1>3. CASE RollClose(Keeper)
  <2> USE <1>3 DEF RollClose
  <2>1. TypeInv'
    BY <1>1 DEF CountsInv, TypeInv, Places, Closed
  <2>2. RollInv' /\ TearInv'
    BY <1>1 DEF CountsInv, TypeInv, RollInv, TearInv, o, p
  <2>3. LedgerInv' /\ BudgetInv'
    BY <1>0, <1>1 DEF CountsInv, TypeInv, LedgerInv, BudgetInv, TxBudgetHolds, o, p
  <2>4. QED
    BY <2>1, <2>2, <2>3 DEF CountsInv
<1>4. CASE RollReset(Keeper)
  <2> USE <1>4 DEF RollReset
  <2>1. TypeInv'
    BY <1>1 DEF CountsInv, TypeInv, Places, Equity
  <2>2. RollInv' /\ TearInv'
    BY <1>1 DEF CountsInv, TypeInv, RollInv, TearInv, o, p
  <2>3. LedgerInv' /\ BudgetInv'
    BY <1>0, <1>1 DEF CountsInv, TypeInv, RollInv, LedgerInv, Emptied, BudgetInv, TxBudgetHolds, o, p
  <2>4. QED
    BY <2>1, <2>2, <2>3 DEF CountsInv
<1>5. CASE RollReplay(Keeper)
  <2> USE <1>5 DEF RollReplay
  <2>1. /\ Readable(day) = EmptyDay /\ day \notin swallowed /\ newDay[Keeper] = day /\ p = "replay" /\ o # "write_tx"
        /\ txCount = 0 /\ gasPol = 0 /\ equityOpen = NoEquity /\ equityLast = NoEquity
    BY DEF CountsInv, RollInv, LedgerInv, Emptied, Readable, o, p
  <2>2. txCount' = 0 /\ gasPol' = 0 /\ equityOpen' = NoEquity /\ equityLast' = NoEquity
    BY <2>1 DEF Replay, EmptyDay
  <2>3. TypeInv'
    BY <1>1, <2>2 DEF CountsInv, TypeInv, Places, Equity
  <2>4. RollInv' /\ TearInv'
    BY <1>1, <2>1 DEF CountsInv, TypeInv, RollInv, TearInv, o, p
  <2>5. LedgerInv' /\ BudgetInv'
    <3>1. Unwritten' = 0
      BY <1>1, <2>1 DEF Unwritten, o
    <3>2. Readable(day)' = EmptyDay /\ day' \notin swallowed' /\ Gas(0) = 0
      BY <1>0, <1>1, <2>1, GasFacts
    <3>3. Short(Unwritten)'
      BY <2>2, <3>1, <3>2 DEF Short, EmptyDay
    <3>4. Counted'
      BY <2>2, <3>2, <3>3 DEF Counted, EmptyDay
    <3>5. QED
      BY <1>0, <1>1, <2>1, <2>2, <3>4 DEF CountsInv, TypeInv, LedgerInv, BudgetInv, TxBudgetHolds, o, p
  <2>6. QED
    BY <2>3, <2>4, <2>5 DEF CountsInv
<1>6. CASE RollOpen(Keeper)
  <2> USE <1>6 DEF RollOpen
  <2>1. TypeInv'
    BY <1>1 DEF CountsInv, TypeInv, Places
  <2>2. RollInv' /\ TearInv'
    BY <1>1 DEF CountsInv, TypeInv, RollInv, TearInv, o, p
  <2>3. LedgerInv' /\ BudgetInv'
    BY <1>0, <1>1 DEF CountsInv, TypeInv, LedgerInv, Counted, Short, BudgetInv, TxBudgetHolds, o, p
  <2>4. QED
    BY <2>1, <2>2, <2>3 DEF CountsInv
<1>7. QED
  BY <1>2, <1>3, <1>4, <1>5, <1>6 DEF Roll

\* A step from one call to another that writes nothing.
Passes(n) ==
  /\ Call(Keeper, n) /\ n \in Calls \ {"write_tx"} /\ o # "write_tx" /\ p \in {"check", "body"}
  /\ n \in {"send", "record_tx"} => txCount < MaxTx
  /\ UNCHANGED <<today, files, killFile, day, fh, counters, gates, alive, crashes>>
  /\ consecutiveErrors' \in 0..Failures
  /\ signed' \in [1..Days -> Nat]

LEMMA PassKeeps ==
  ASSUME CountsInv, WebThreads = {}, NEW n, Passes(n)
  PROVE  CountsInv'
<1> USE DEF Threads, counters, gates, files, Passes, Call
<1>1. o' = n /\ p' = "check"
  BY DEF CountsInv, TypeInv, o, p
<1>2. TypeInv'
  BY DEF CountsInv, TypeInv, Places
<1>3. RollInv' /\ TearInv'
  BY <1>1 DEF CountsInv, TypeInv, RollInv, TearInv
<1>4. LedgerInv' /\ BudgetInv'
  <2>1. Unwritten' = Unwritten /\ \A d : Readable(d)' = Readable(d)
    BY <1>1 DEF Unwritten, Readable
  <2>2. Counted
    BY DEF CountsInv, LedgerInv
  <2>3. Counted'
    BY <2>1, <2>2 DEF Counted, Short
  <2>4. QED
    BY <1>1, <2>1, <2>3 DEF CountsInv, LedgerInv, BudgetInv, TxBudgetHolds
<1>5. QED
  BY <1>2, <1>3, <1>4 DEF CountsInv

LEMMA SignedTyped ==
  ASSUME CountsInv, NEW n \in Nat, Broadcast(n)
  PROVE  signed' \in [1..Days -> Nat]
<1>1. signed \in [1..Days -> Nat] /\ today \in 1..Days
  BY DEF CountsInv, TypeInv
<1>2. signed' = [signed EXCEPT ![today] = @ + n]
  BY DEF Broadcast
<1>3. QED
  BY <1>1, <1>2

LEMMA SendKeeps ==
  ASSUME CountsInv, WebThreads = {}, allow_tx \/ SendSucceeds \/ SendFails
  PROVE  CountsInv'
<1> USE DEF disk, files, counters, gates, history
<1>1. op[Keeper] = "send" => p = "check"
  BY DEF CountsInv, RollInv, o, p
<1>2. CASE allow_tx
  <2>1. Passes(IF Allowed THEN "send" ELSE "none")
    BY <1>2 DEF allow_tx, Passes, In, Calls, Allowed, CountsInv, TypeInv, o, p
  <2>2. QED
    BY <2>1, PassKeeps
<1>3. CASE SendSucceeds
  <2>1. signed' \in [1..Days -> Nat]
    BY <1>3, SignedTyped DEF SendSucceeds, PerSend
  <2>2. Passes("record_tx")
    BY <1>1, <1>3, <2>1, BoundsAssumption DEF SendSucceeds, Passes, Calls, CountsInv, BudgetInv, o, p
  <2>3. QED
    BY <2>2, PassKeeps
<1>4. CASE SendFails
  <2>1. signed' \in [1..Days -> Nat]
    BY <1>4, SignedTyped DEF SendFails, PerSend
  <2>2. Passes("record_error")
    BY <1>1, <1>4, <2>1 DEF SendFails, Passes, Calls, CountsInv, TypeInv, o, p
  <2>3. QED
    BY <2>2, PassKeeps
<1>5. QED
  BY <1>2, <1>3, <1>4

\* The file is open whenever a recorder writes: no exception of a recorder is met.
LEMMA FileOpen ==
  ASSUME CountsInv, WebThreads = {}, p \in {"check", "close", "body"}
  PROVE  /\ fh = day /\ day \in 1..Days /\ fh # Closed /\ Counted
         /\ Record = ledger[day] /\ ledger[day] \in DayRecords /\ tail[day] \in DayRecords
<1>1. fh = day /\ day \in 1..Days /\ ledger[day] \in DayRecords /\ tail[day] \in DayRecords
  BY DEF CountsInv, TypeInv, RollInv
<1>2. fh # Closed
  BY <1>1, BoundsAssumption DEF Closed
<1>3. Counted
  BY DEF CountsInv, LedgerInv
<1>4. QED
  BY <1>1, <1>2, <1>3 DEF Record

\* What an append leaves of the day's file, whole before or torn, and of the others.
LEMMA AppendIs ==
  ASSUME CountsInv, WebThreads = {}, p \in {"check", "close", "body"}, NEW rec \in DayRecords, Append(rec)
  PROVE  /\ ledger' \in [1..Days -> DayRecords] /\ tail' \in [1..Days -> DayRecords]
         /\ torn' \in [1..Days -> BOOLEAN] /\ swallowed' \subseteq 1..Days
         /\ ~torn'[day] /\ (IF torn[day] THEN ledger' = ledger /\ day \in swallowed'
                                         ELSE ledger'[day] = rec /\ swallowed' = swallowed)
         /\ \A d \in 1..Days : d # day => /\ ledger'[d] = ledger[d] /\ torn'[d] = torn[d]
                                          /\ tail'[d] = tail[d] /\ (d \in swallowed' <=> d \in swallowed)
<1>1. fh = day /\ day \in 1..Days
  BY FileOpen
<1>2. EmptyDay \in DayRecords
  BY DEF EmptyDay, DayRecords, Equity
<1>3. /\ ledger \in [1..Days -> DayRecords] /\ tail \in [1..Days -> DayRecords]
      /\ torn \in [1..Days -> BOOLEAN] /\ swallowed \subseteq 1..Days
  BY DEF CountsInv, TypeInv
<1>4. QED
  BY <1>1, <1>2, <1>3 DEF Append

\* A line with u transactions, appended when as many are unwritten, keeps file and
\* counters in step, and the file within the budget.
LEMMA AppendKeeps ==
  ASSUME CountsInv, WebThreads = {}, p \in {"check", "close", "body"}, NEW rec \in DayRecords, Append(rec),
         NEW u \in 0..1, Unwritten = u + Unwritten', Unwritten' \in 0..1,
         rec.txs = ledger[day].txs + u, rec.gas = ledger[day].gas + Gas(u),
         ~torn[day] /\ day \notin swallowed => rec.open = equityOpen' /\ rec.last = equityLast',
         UNCHANGED <<day, txCount, gasPol>>
  PROVE  Counted' /\ TearInv' /\ TxBudgetHolds'
         /\ \A d \in 1..Days : d > day /\ ledger[d] = EmptyDay /\ ~torn[d] /\ d \notin swallowed
                                 => ledger'[d] = EmptyDay /\ ~torn'[d] /\ d \notin swallowed'
<1>0. PICK w \in 0..1 : w = Unwritten'
  OBVIOUS
<1>1. /\ day \in 1..Days /\ Counted /\ ledger[day] \in DayRecords /\ tail[day] \in DayRecords
      /\ ledger[day].txs \in Nat /\ ledger[day].gas \in Nat /\ tail[day].txs \in Nat /\ tail[day].gas \in Nat
  BY FileOpen DEF DayRecords
<1>2. /\ ~torn'[day] /\ (IF torn[day] THEN ledger' = ledger /\ day \in swallowed'
                                       ELSE ledger'[day] = rec /\ swallowed' = swallowed)
      /\ \A d \in 1..Days : d # day => /\ ledger'[d] = ledger[d] /\ torn'[d] = torn[d]
                                       /\ tail'[d] = tail[d] /\ (d \in swallowed' <=> d \in swallowed)
  BY AppendIs
<1>3. Readable(day)' = ledger'[day]
  BY <1>2 DEF Readable
<1>4. /\ \A d \in 1..Days : torn[d] => \E n \in 0..1 : /\ tail[d].txs = ledger[d].txs + n
                                                       /\ tail[d].gas = ledger[d].gas + Gas(n)
      /\ day \in swallowed => ~torn[day]
  BY DEF CountsInv, TearInv
<1>5. w \in 0..1 /\ Unwritten = u + w
  BY <1>0
<1>6. ASSUME torn[day] PROVE Counted' /\ Readable(day)'.txs <= MaxTx
  <2>1. /\ day \notin swallowed /\ Readable(day) = tail[day] /\ Short(u + w)
    BY <1>1, <1>4, <1>5, <1>6 DEF Readable, Counted
  <2>2. PICK k \in 0..1 : tail[day].txs = ledger[day].txs + k /\ tail[day].gas = ledger[day].gas + Gas(k)
    BY <1>1, <1>4, <1>6
  <2>3. k + u \in 0..2 /\ k + (u + w) = (k + u) + w
    BY <1>5
  <2>4. Gas(k + (u + w)) = Gas(k) + Gas(u + w) /\ Gas(k) \in Nat /\ Gas(u + w) \in Nat
    <3>1. k \in 0..3 /\ u + w \in 0..3
      BY <1>5
    <3>2. QED
      BY <3>1, GasFacts
  <2>5. txCount = ledger[day].txs + ((k + u) + w)
    BY <1>1, <1>5, <2>1, <2>2 DEF Short
  <2>6. gasPol = ledger[day].gas + Gas((k + u) + w)
    <3>1. gasPol = (ledger[day].gas + Gas(k)) + Gas(u + w)
      BY <2>1, <2>2 DEF Short
    <3>2. PICK a \in Nat, b \in Nat : a = Gas(k) /\ b = Gas(u + w)
      BY <2>4
    <3>3. gasPol = ledger[day].gas + (a + b)
      BY <1>1, <3>1, <3>2
    <3>4. Gas((k + u) + w) = a + b
      BY <2>3, <2>4, <3>2
    <3>5. QED
      BY <3>3, <3>4
  <2>7. Short((k + u) + w)'
    BY <1>2, <1>3, <1>6, <2>5, <2>6 DEF Short
  <2>8. Counted'
    BY <1>0, <1>2, <1>6, <2>3, <2>7 DEF Counted
  <2>9. Readable(day)'.txs <= MaxTx
    <3>1. Readable(day)' = ledger[day] /\ tail[day].txs <= MaxTx
      BY <1>1, <1>2, <1>3, <1>6, <2>1 DEF CountsInv, BudgetInv, TxBudgetHolds
    <3>2. QED
      BY <1>1, <2>2, <3>1, LimitsAssumption
  <2>10. QED
    BY <2>8, <2>9
<1>7. ASSUME ~torn[day] PROVE Counted' /\ Readable(day)'.txs <= MaxTx
  <2>1. Readable(day) = ledger[day] /\ ledger'[day] = rec /\ Readable(day)' = rec /\ swallowed' = swallowed
    BY <1>2, <1>3, <1>7 DEF Readable
  <2>2. ASSUME NEW n \in 0..2, Short(n + (u + w)) PROVE Short(n + w)'
    <3>1. Gas(n + (u + w)) = Gas(n) + Gas(u + w) /\ Gas(n + w) = Gas(n) + Gas(w) /\ Gas(u + w) = Gas(u) + Gas(w)
          /\ Gas(n) \in Nat /\ Gas(u) \in Nat /\ Gas(w) \in Nat
      <4>1. n \in 0..3 /\ u \in 0..3 /\ w \in 0..3 /\ u + w \in 0..3
        BY <1>5
      <4>2. QED
        BY <4>1, GasFacts
    <3>2. txCount = rec.txs + (n + w)
      BY <1>1, <1>5, <2>1, <2>2 DEF Short
    <3>3. gasPol = rec.gas + Gas(n + w)
      <4>1. gasPol = ledger[day].gas + Gas(n + (u + w))
        BY <2>1, <2>2 DEF Short
      <4>2. PICK a \in Nat, b \in Nat, c \in Nat : a = Gas(n) /\ b = Gas(u) /\ c = Gas(w)
        BY <3>1
      <4>3. gasPol = ledger[day].gas + (a + (b + c)) /\ Gas(n + w) = a + c
        BY <3>1, <4>1, <4>2
      <4>4. ledger[day].gas + (a + (b + c)) = (ledger[day].gas + b) + (a + c)
        BY <1>1
      <4>5. rec.gas = ledger[day].gas + b
        BY <4>2
      <4>6. QED
        BY <4>3, <4>4, <4>5
    <3>4. QED
      BY <2>1, <3>2, <3>3 DEF Short
  <2>3. Counted'
    <3>1. CASE day \in swallowed
      <4>1. PICK n \in 0..2 : Short(n + (u + w))
        BY <1>1, <1>5, <3>1 DEF Counted
      <4>2. Short(n + w)'
        BY <2>2, <4>1
      <4>3. QED
        BY <1>0, <2>1, <3>1, <4>2 DEF Counted
    <3>2. CASE day \notin swallowed
      <4>1. Short(u + w) /\ 0 + (u + w) = u + w /\ 0 + w = w
        BY <1>1, <1>5, <3>2 DEF Counted
      <4>2. Short(0 + (u + w))
        BY <4>1
      <4>3. Short(0 + w)'
        BY <2>2, <4>2
      <4>4. Short(w)'
        BY <4>1, <4>3
      <4>5. QED
        BY <1>0, <1>7, <2>1, <3>2, <4>4 DEF Counted
    <3>3. QED
      BY <3>1, <3>2
  <2>4. Readable(day)'.txs <= MaxTx
    <3>1. CASE u = 0
      BY <1>1, <2>1, <3>1 DEF CountsInv, BudgetInv, TxBudgetHolds
    <3>2. CASE u = 1
      <4>1. o = "write_tx"
        BY <1>5, <3>2 DEF Unwritten
      <4>2. txCount <= MaxTx /\ txCount \in Nat
        BY <4>1 DEF CountsInv, TypeInv, BudgetInv
      <4>3. PICK n \in 0..2 : txCount = ledger[day].txs + (n + (u + w))
        <5>1. CASE day \in swallowed
          BY <1>1, <1>5, <2>1, <5>1 DEF Counted, Short
        <5>2. CASE day \notin swallowed
          <6>1. txCount = ledger[day].txs + (0 + (u + w))
            BY <1>1, <1>5, <2>1, <5>2 DEF Counted, Short
          <6>2. QED
            BY <6>1
        <5>3. QED
          BY <5>1, <5>2
      <4>4. QED
        BY <1>1, <1>5, <2>1, <3>2, <4>2, <4>3, LimitsAssumption
    <3>3. QED
      BY <3>1, <3>2
  <2>5. QED
    BY <2>3, <2>4
<1>8. TearInv'
  <2>1. ASSUME NEW d \in 1..Days, torn'[d]
        PROVE  \E n \in 0..1 : tail'[d].txs = ledger'[d].txs + n /\ tail'[d].gas = ledger'[d].gas + Gas(n)
    BY <1>2, <1>4, <2>1
  <2>2. QED
    BY <1>2, <2>1 DEF TearInv
<1>9. TxBudgetHolds'
  <2>1. Readable(day)'.txs <= MaxTx
    BY <1>6, <1>7
  <2>2. ASSUME NEW d \in 1..Days PROVE Readable(d)'.txs <= MaxTx
    <3>1. CASE d = day
      BY <2>1, <3>1
    <3>2. CASE d # day
      <4>1. Readable(d)' = Readable(d)
        BY <1>2, <3>2 DEF Readable
      <4>2. QED
        BY <4>1 DEF CountsInv, BudgetInv, TxBudgetHolds
    <3>3. QED
      BY <3>1, <3>2
  <2>3. QED
    BY <2>2 DEF TxBudgetHolds
<1>10. Counted'
  BY <1>6, <1>7
<1>11. ASSUME NEW d \in 1..Days, d > day, ledger[d] = EmptyDay, ~torn[d], d \notin swallowed
       PROVE  ledger'[d] = EmptyDay /\ ~torn'[d] /\ d \notin swallowed'
  <2>1. d # day
    BY <1>1, <1>11
  <2>2. QED
    BY <1>2, <1>11, <2>1
<1>12. QED
  BY <1>8, <1>9, <1>10, <1>11

\* What a recorder writes to the day's file.
LEMMA WriteIs ==
  ASSUME CountsInv, WebThreads = {}, p \in {"check", "body"}, NEW rec, NEW n, Write(rec, n)
  PROVE  Append(rec) /\ o' = "none" /\ p' = "check" /\ alive'
         /\ newDay' = newDay /\ op' = [op EXCEPT ![Keeper] = "none"] /\ at' = [at EXCEPT ![Keeper] = "check"]
  BY FileOpen DEF Write, Call, CountsInv, TypeInv, Threads, o, p

\* A recorder that leaves counters and file in step.
LEMMA WriteKeeps ==
  ASSUME CountsInv, WebThreads = {}, p \in {"check", "body"}, NEW rec \in DayRecords, NEW n, Write(rec, n),
         rec.txs = ledger[day].txs + Unwritten, rec.gas = ledger[day].gas + Gas(Unwritten),
         ~torn[day] /\ day \notin swallowed => rec.open = equityOpen' /\ rec.last = equityLast',
         equityOpen' \in Equity, equityLast' \in Equity,
         UNCHANGED <<today, killFile, day, fh, txCount, gasPol, lowPol, history, crashes>>,
         overGross' \in BOOLEAN, consecutiveErrors' \in 0..Failures
  PROVE  CountsInv'
<1>1. /\ Append(rec) /\ o' = "none" /\ p' = "check" /\ alive' /\ newDay' = newDay
      /\ op' = [op EXCEPT ![Keeper] = "none"] /\ at' = [at EXCEPT ![Keeper] = "check"]
  BY WriteIs
<1>2. /\ ledger' \in [1..Days -> DayRecords] /\ tail' \in [1..Days -> DayRecords]
      /\ torn' \in [1..Days -> BOOLEAN] /\ swallowed' \subseteq 1..Days
  BY <1>1, AppendIs
<1>3. /\ Counted' /\ TearInv' /\ TxBudgetHolds'
      /\ \A d \in 1..Days : d > day /\ ledger[d] = EmptyDay /\ ~torn[d] /\ d \notin swallowed
                              => ledger'[d] = EmptyDay /\ ~torn'[d] /\ d \notin swallowed'
  <2>1. Unwritten' = 0 /\ Unwritten \in 0..1
    BY <1>1 DEF Unwritten
  <2>2. Unwritten = Unwritten + Unwritten' /\ Unwritten' \in 0..1
    BY <2>1
  <2>3. QED
    BY <1>1, <2>1, <2>2, AppendKeeps
<1>4. TypeInv'
  BY <1>1, <1>2 DEF CountsInv, TypeInv, Write, Calls, Places, history, Threads
<1>5. RollInv'
  BY <1>1, <1>3 DEF CountsInv, TypeInv, RollInv
<1>6. LedgerInv' /\ BudgetInv'
  BY <1>1, <1>3 DEF LedgerInv, BudgetInv
<1>7. QED
  BY <1>3, <1>4, <1>5, <1>6 DEF CountsInv

LEMMA TxEdit ==
  ASSUME NEW r \in DayRecords, NEW a, NEW b
  PROVE  [r EXCEPT !.txs = a, !.gas = b] = [txs |-> a, gas |-> b, open |-> r.open, last |-> r.last]
<1> DEFINE t == [r EXCEPT !.txs = a]
<1>1. t = [txs |-> a, gas |-> r.gas, open |-> r.open, last |-> r.last]
  BY DEF DayRecords
<1> HIDE DEF t
<1>2. [t EXCEPT !.gas = b] = [txs |-> a, gas |-> b, open |-> r.open, last |-> r.last]
  BY <1>1
<1>3. QED
  BY <1>2 DEF t

LEMMA EquityEdit ==
  ASSUME NEW r \in DayRecords, NEW a, NEW b
  PROVE  [r EXCEPT !.open = a, !.last = b] = [txs |-> r.txs, gas |-> r.gas, open |-> a, last |-> b]
<1> DEFINE e == [r EXCEPT !.open = a]
<1>1. e = [txs |-> r.txs, gas |-> r.gas, open |-> a, last |-> r.last]
  BY DEF DayRecords
<1> HIDE DEF e
<1>2. [e EXCEPT !.last = b] = [txs |-> r.txs, gas |-> r.gas, open |-> a, last |-> b]
  BY <1>1
<1>3. QED
  BY <1>2 DEF e

LEMMA RecordTypes ==
  ASSUME NEW r \in DayRecords
  PROVE  r.txs \in Nat /\ r.gas \in Nat /\ r.open \in Equity /\ r.last \in Equity
  BY DEF DayRecords

\* The line of a transaction, and the one of an equity, as records.
LEMMA TxLine ==
  ASSUME NEW r \in DayRecords
  PROVE  /\ WithTx(r) \in DayRecords /\ WithTx(r).txs = r.txs + 1 /\ WithTx(r).gas = r.gas + GasPerTx
         /\ WithTx(r).open = r.open /\ WithTx(r).last = r.last
<1> DEFINE x == r.txs + 1
           g == r.gas + GasPerTx
<1>1. WithTx(r) = [r EXCEPT !.txs = x, !.gas = g]
  BY DEF WithTx
<1>2. r.open \in Equity /\ r.last \in Equity /\ x \in Nat /\ g \in Nat
  BY RecordTypes, InputsAssumption
<1> HIDE DEF x, g
<1>3. [r EXCEPT !.txs = x, !.gas = g] = [txs |-> x, gas |-> g, open |-> r.open, last |-> r.last]
  BY TxEdit, Zenon
<1>4. QED
  BY <1>1, <1>2, <1>3 DEF DayRecords, x, g

LEMMA EquityLine ==
  ASSUME NEW r \in DayRecords, NEW equity \in Equities
  PROVE  /\ WithEquity(r, equity) \in DayRecords
         /\ WithEquity(r, equity).txs = r.txs /\ WithEquity(r, equity).gas = r.gas
         /\ WithEquity(r, equity).open = IF r.open = NoEquity THEN equity ELSE r.open
         /\ WithEquity(r, equity).last = equity
<1> DEFINE opened == IF r.open = NoEquity THEN equity ELSE r.open
<1>1. WithEquity(r, equity) = [r EXCEPT !.open = opened, !.last = equity]
  BY DEF WithEquity
<1>2. r.txs \in Nat /\ r.gas \in Nat /\ opened \in Equity /\ equity \in Equity
  BY RecordTypes, InputsAssumption DEF Equity
<1> HIDE DEF opened
<1>3. [r EXCEPT !.open = opened, !.last = equity] = [txs |-> r.txs, gas |-> r.gas, open |-> opened, last |-> equity]
  BY EquityEdit, Zenon
<1>4. QED
  BY <1>1, <1>2, <1>3 DEF DayRecords, opened

LEMMA RecordsKeep ==
  ASSUME CountsInv, WebThreads = {}, Equities \subseteq Int, record_fill
         \/ record_error("none", "handler") \/ record_error("record_error", "handler")
         \/ record_error("handler", "none") \/ write_tx \/ \E equity \in Equities : mark_equity(equity)
  PROVE  CountsInv'
<1> USE DEF counters, gates, history
<1>1. p \in {"check", "body"}
  BY DEF CountsInv, RollInv, record_fill, record_error, write_tx, mark_equity, In, o, p
<1>2. /\ fh = day /\ Record = ledger[day] /\ ledger[day] \in DayRecords /\ Counted
      /\ ledger[day].txs \in Nat /\ ledger[day].gas \in Nat
      /\ equityOpen \in Equity /\ equityLast \in Equity
  <2>1. p \in {"check", "close", "body"}
    BY <1>1
  <2>2. QED
    BY <2>1, FileOpen, RecordTypes DEF CountsInv, TypeInv
<1>3. ~torn[day] /\ day \notin swallowed => ledger[day].open = equityOpen /\ ledger[day].last = equityLast
  BY <1>2 DEF Counted, Readable
<1>4. o # "write_tx" => /\ Unwritten = 0 /\ Gas(Unwritten) = 0
                        /\ ledger[day].txs = ledger[day].txs + Unwritten
                        /\ ledger[day].gas = ledger[day].gas + Gas(Unwritten)
  <2>1. Gas(0) = 0
    BY GasFacts
  <2>2. QED
    BY <1>2, <2>1 DEF Unwritten
<1>5. CASE record_fill
  <2>1. o # "write_tx" /\ Write(Record, "handler")
    BY <1>5 DEF record_fill, o
  <2>2. consecutiveErrors' \in 0..Failures /\ overGross' \in BOOLEAN
    BY <1>5 DEF record_fill, CountsInv, TypeInv
  <2>3. UNCHANGED <<today, killFile, day, fh, counters, lowPol, history, crashes>>
    BY <1>5 DEF record_fill
  <2>4. QED
    BY <1>1, <1>2, <1>3, <1>4, <2>1, <2>2, <2>3, WriteKeeps
<1>6. ASSUME NEW from \in {"none", "record_error", "handler"}, NEW next, record_error(from, next)
      PROVE  CountsInv'
  <2>1. o # "write_tx" /\ Write(Record, next)
    BY <1>6 DEF record_error, o
  <2>2. consecutiveErrors' \in 0..Failures /\ overGross' \in BOOLEAN
    BY <1>6, BoundsAssumption DEF record_error, CountsInv, TypeInv
  <2>3. UNCHANGED <<today, killFile, day, fh, counters, lowPol, history, crashes>>
    BY <1>6 DEF record_error
  <2>4. QED
    BY <1>1, <1>2, <1>3, <1>4, <2>1, <2>2, <2>3, WriteKeeps
<1>7. CASE write_tx
  <2>1. o = "write_tx" /\ Write(WithTx(Record), "handler")
    BY <1>7 DEF write_tx, o
  <2>3. Unwritten = 1 /\ Gas(Unwritten) = GasPerTx
    <3>1. Gas(1) = GasPerTx
      BY GasFacts
    <3>2. QED
      BY <2>1, <3>1 DEF Unwritten
  <2> DEFINE rec == WithTx(ledger[day])
  <2>4. /\ rec \in DayRecords /\ rec.txs = ledger[day].txs + 1 /\ rec.gas = ledger[day].gas + GasPerTx
        /\ rec.open = ledger[day].open /\ rec.last = ledger[day].last
    BY <1>2, TxLine
  <2>5. consecutiveErrors' \in 0..Failures /\ overGross' \in BOOLEAN
    BY <1>7 DEF write_tx, CountsInv, TypeInv
  <2>6. UNCHANGED <<today, killFile, day, fh, counters, lowPol, history, crashes>>
    BY <1>7 DEF write_tx
  <2>7. Write(rec, "handler")
    BY <1>2, <2>1
  <2> HIDE DEF rec
  <2>8. QED
    BY <1>1, <1>2, <1>3, <2>3, <2>4, <2>5, <2>6, <2>7, WriteKeeps
<1>8. ASSUME NEW equity \in Equities, mark_equity(equity) PROVE CountsInv'
  <2> DEFINE rec == WithEquity(ledger[day], equity)
  <2>1. o = "mark_equity" /\ Write(WithEquity(Record, equity), "none")
    BY <1>8 DEF mark_equity, In, o
  <2>2. /\ rec \in DayRecords /\ rec.txs = ledger[day].txs /\ rec.gas = ledger[day].gas /\ rec.last = equity
        /\ rec.open = IF ledger[day].open = NoEquity THEN equity ELSE ledger[day].open
    BY <1>2, EquityLine
  <2>3. Write(rec, "none")
    BY <1>2, <2>1
  <2>4. /\ consecutiveErrors' \in 0..Failures /\ overGross' \in BOOLEAN
        /\ equityOpen' = (IF equityOpen = NoEquity THEN equity ELSE equityOpen) /\ equityLast' = equity
        /\ UNCHANGED <<today, killFile, day, fh, txCount, gasPol, lowPol, history, crashes>>
    BY <1>8 DEF mark_equity, CountsInv, TypeInv
  <2>5. equityOpen' \in Equity /\ equityLast' \in Equity
    BY <1>2, <2>4, InputsAssumption DEF Equity
  <2>6. ~torn[day] /\ day \notin swallowed => rec.open = equityOpen' /\ rec.last = equityLast'
    BY <1>3, <2>2, <2>4
  <2>7. rec.txs = ledger[day].txs + Unwritten /\ rec.gas = ledger[day].gas + Gas(Unwritten)
    BY <1>4, <2>1, <2>2
  <2> HIDE DEF rec
  <2>8. QED
    BY <1>1, <2>2, <2>3, <2>4, <2>5, <2>6, <2>7, WriteKeeps
<1>9. QED
  BY <1>5, <1>6, <1>7, <1>8

\* The transaction is counted before it is written.
LEMMA RecordTxKeeps ==
  ASSUME CountsInv, WebThreads = {}, record_tx
  PROVE  CountsInv'
<1> USE InputsAssumption DEF disk, files, gates, history, record_tx, In, Call, Threads
<1>1. o = "record_tx" /\ p = "body" /\ o' = "write_tx" /\ p' = "check"
  BY DEF CountsInv, TypeInv, o, p
<1>2. TypeInv'
  BY DEF CountsInv, TypeInv, Calls, Places
<1>3. RollInv' /\ TearInv'
  BY <1>1 DEF CountsInv, TypeInv, RollInv, TearInv
<1>4. LedgerInv'
  <2>1. Counted /\ day \in 1..Days
    BY <1>1, FileOpen
  <2>2. /\ Readable(day)' = Readable(day) /\ Unwritten = 0 /\ Unwritten' = 1
        /\ txCount' = txCount + 1 /\ gasPol' = gasPol + GasPerTx
    BY <1>1 DEF Readable, Unwritten
  <2>3. Readable(day).txs \in Nat /\ Readable(day).gas \in Nat
    BY <2>1, RecordTypes DEF Readable, CountsInv, TypeInv
  <2>4. ASSUME NEW n \in 0..2, Short(n) PROVE Short(n + 1)'
    <3>1. Gas(n + 1) = Gas(n) + GasPerTx /\ Gas(n) \in Nat
      <4>1. n \in 0..3 /\ 1 \in 0..3
        OBVIOUS
      <4>2. QED
        BY <4>1, GasFacts
    <3>2. txCount' = Readable(day).txs + (n + 1)
      BY <2>2, <2>3, <2>4 DEF Short
    <3>3. gasPol' = Readable(day).gas + Gas(n + 1)
      BY <2>2, <2>3, <2>4, <3>1 DEF Short
    <3>4. QED
      BY <2>2, <3>2, <3>3 DEF Short
  <2>5. Counted'
    <3>1. CASE day \in swallowed
      <4>1. PICK n \in 0..2 : Short(n + 0)
        BY <2>1, <2>2, <3>1 DEF Counted
      <4>2. Short(n + 1)'
        BY <2>4, <4>1
      <4>3. QED
        BY <2>2, <3>1, <4>2 DEF Counted
    <3>2. CASE day \notin swallowed
      <4>1. Short(0) /\ equityOpen = Readable(day).open /\ equityLast = Readable(day).last /\ 0 + 1 = 1
        BY <2>1, <2>2, <3>2 DEF Counted
      <4>2. Short(1)'
        BY <2>4, <4>1
      <4>3. QED
        BY <2>2, <3>2, <4>1, <4>2 DEF Counted
    <3>3. QED
      BY <3>1, <3>2
  <2>6. QED
    BY <1>1, <2>5 DEF LedgerInv
<1>5. BudgetInv'
  <2>1. \A d : Readable(d)' = Readable(d)
    BY DEF Readable
  <2>2. QED
    BY <1>1, <2>1, LimitsAssumption DEF CountsInv, TypeInv, BudgetInv, TxBudgetHolds
<1>6. QED
  BY <1>2, <1>3, <1>4, <1>5 DEF CountsInv

\* A crash leaves the file of the day alone or torn, with a transaction that is
\* readable on the torn line only if it was being written.
LEMMA TearIs ==
  ASSUME CountsInv, WebThreads = {}, Tear
  PROVE  /\ torn' \in [1..Days -> BOOLEAN] /\ tail' \in [1..Days -> DayRecords]
         /\ \A d \in 1..Days : d # day => torn'[d] = torn[d] /\ tail'[d] = tail[d]
         /\ torn'[day] => /\ \E n \in 0..1 : /\ tail'[day].txs = ledger[day].txs + n
                                             /\ tail'[day].gas = ledger[day].gas + Gas(n)
                          /\ tail'[day].txs <= MaxTx
<1>1. /\ torn \in [1..Days -> BOOLEAN] /\ tail \in [1..Days -> DayRecords] /\ day \in 1..Days
      /\ ledger \in [1..Days -> DayRecords]
  BY DEF CountsInv, TypeInv
<1>2. torn[day] => \E n \in 0..1 : /\ tail[day].txs = ledger[day].txs + n
                                   /\ tail[day].gas = ledger[day].gas + Gas(n)
  BY <1>1 DEF CountsInv, TearInv
<1>3. Readable(day).txs <= MaxTx
  BY <1>1 DEF CountsInv, BudgetInv, TxBudgetHolds
<1>4. CASE UNCHANGED <<torn, tail>>
  BY <1>1, <1>2, <1>3, <1>4 DEF Readable
<1>5. CASE ~UNCHANGED <<torn, tail>>
  <2>1. fh # Closed /\ fh = day /\ p \in {"check", "close", "body"}
    BY <1>5 DEF Tear, CountsInv, TypeInv, RollInv, Places, p, Threads
  <2>2. Counted /\ Record = ledger[day] /\ ledger[day] \in DayRecords
    BY <2>1, FileOpen
  <2>3. PICK rec \in {ledger[day]} \cup (IF torn[day] THEN {} ELSE Bare(ledger[day])) :
             torn' = [torn EXCEPT ![day] = TRUE] /\ tail' = [tail EXCEPT ![day] = rec]
    BY <1>5, <2>1, <2>2 DEF Tear
  <2>4. /\ ledger[day].txs \in Nat /\ ledger[day].gas \in Nat /\ Gas(0) = 0 /\ Gas(1) = GasPerTx
        /\ ledger[day].txs <= MaxTx
    <3>1. ledger[day].txs \in Nat /\ ledger[day].gas \in Nat /\ Gas(0) = 0 /\ Gas(1) = GasPerTx
      BY <2>2, RecordTypes, GasFacts
    <3>2. CASE torn[day]
      <4>1. PICK n \in 0..1 : tail[day].txs = ledger[day].txs + n
        BY <1>2, <3>2
      <4>2. QED
        BY <1>3, <3>1, <3>2, <4>1, LimitsAssumption DEF Readable
    <3>3. CASE ~torn[day]
      BY <1>3, <3>1, <3>3 DEF Readable
    <3>4. QED
      BY <3>1, <3>2, <3>3
  <2>5. /\ rec \in DayRecords /\ rec.txs <= MaxTx
        /\ \E n \in 0..1 : rec.txs = ledger[day].txs + n /\ rec.gas = ledger[day].gas + Gas(n)
    <3>1. CASE rec = ledger[day]
      BY <2>2, <2>4, <3>1
    <3>2. CASE rec # ledger[day] /\ o = "write_tx"
      <4>0. Bare(ledger[day]) = {WithTx(ledger[day])}
        BY <3>2 DEF Bare, In, o
      <4>1. rec = WithTx(ledger[day]) /\ ~torn[day]
        BY <2>3, <3>2, <4>0
      <4>2. rec \in DayRecords /\ rec.txs = ledger[day].txs + 1 /\ rec.gas = ledger[day].gas + Gas(1)
        BY <2>2, <2>4, <4>1, TxLine
      <4>3. txCount <= MaxTx /\ txCount \in Nat /\ Unwritten = 1 /\ Readable(day) = ledger[day]
        BY <3>2, <4>1 DEF CountsInv, TypeInv, BudgetInv, Unwritten, Readable
      <4>4. PICK n \in 0..2 : txCount = ledger[day].txs + (n + 1)
        <5>1. CASE day \in swallowed
          BY <2>2, <4>3, <5>1 DEF Counted, Short
        <5>2. CASE day \notin swallowed
          <6>1. txCount = ledger[day].txs + (0 + 1)
            BY <2>2, <4>3, <5>2 DEF Counted, Short
          <6>2. QED
            BY <6>1
        <5>3. QED
          BY <5>1, <5>2
      <4>5. rec.txs <= MaxTx
        BY <2>4, <4>2, <4>3, <4>4, LimitsAssumption
      <4>6. QED
        BY <4>2, <4>5
    <3>3. CASE rec # ledger[day] /\ o # "write_tx"
      <4>1. PICK equity \in Equities : rec = WithEquity(ledger[day], equity)
        BY <2>3, <3>3 DEF Bare, o
      <4>2. rec \in DayRecords /\ rec.txs = ledger[day].txs /\ rec.gas = ledger[day].gas
        BY <2>2, <4>1, EquityLine
      <4>3. rec.txs = ledger[day].txs + 0 /\ rec.gas = ledger[day].gas + Gas(0)
        BY <2>4, <4>2
      <4>4. QED
        BY <2>4, <4>2, <4>3
    <3>4. QED
      BY <3>1, <3>2, <3>3
  <2>6. QED
    BY <1>1, <2>3, <2>5
<1>6. QED
  BY <1>4, <1>5

\* A restart reads the day's file; a day that has none starts from nothing.
LEMMA RestartKeeps ==
  ASSUME CountsInv, WebThreads = {}, Restart
  PROVE  CountsInv'
<1>1. /\ o' = "none" /\ p' = "check" /\ day' = today /\ fh' = today /\ today' = today /\ swallowed' = {}
      /\ ledger' = ledger /\ killFile' = killFile /\ signed' = signed /\ crashes' = crashes + 1
      /\ Tear /\ LoadDay(Readable(today)')
      /\ lowPol' = FALSE /\ overGross' = FALSE /\ consecutiveErrors' = 0 /\ alive' = TRUE /\ newDay' = newDay
      /\ op' = [t \in Threads |-> "none"] /\ at' = [t \in Threads |-> "check"]
  BY DEF Restart, history, o, p, Threads
<1>2. /\ torn' \in [1..Days -> BOOLEAN] /\ tail' \in [1..Days -> DayRecords]
      /\ \A d \in 1..Days : d # day => torn'[d] = torn[d] /\ tail'[d] = tail[d]
      /\ torn'[day] => /\ \E n \in 0..1 : /\ tail'[day].txs = ledger[day].txs + n
                                          /\ tail'[day].gas = ledger[day].gas + Gas(n)
                       /\ tail'[day].txs <= MaxTx
  BY <1>1, TearIs
<1>3. /\ today \in 1..Days /\ day \in 1..Days /\ day <= today /\ ledger \in [1..Days -> DayRecords]
      /\ newDay[Keeper] <= today
  BY DEF CountsInv, TypeInv, RollInv
<1>4. ASSUME NEW d \in 1..Days
      PROVE  Readable(d)' = IF torn'[d] THEN tail'[d] ELSE ledger[d]
  BY <1>1 DEF Readable
<1>5. PICK rec : rec = Readable(today)' /\ rec = Readable(day)'
  <2>1. Readable(today)' = Readable(day)'
    BY <1>1 DEF Readable
  <2>2. QED
    BY <2>1
<1>6. /\ rec \in DayRecords /\ txCount' = rec.txs /\ gasPol' = rec.gas
      /\ equityOpen' = rec.open /\ equityLast' = rec.last
  <2>1. rec \in DayRecords
    BY <1>1, <1>2, <1>3, <1>5 DEF Readable
  <2>2. QED
    BY <1>1, <1>5, <2>1 DEF LoadDay
<1>7. TypeInv'
  <2>1. /\ op' \in [Threads -> Calls] /\ at' \in [Threads -> Places] /\ newDay' \in [Threads -> 1..Days]
    BY <1>1 DEF CountsInv, TypeInv, Calls, Places
  <2>2. txCount' \in Nat /\ gasPol' \in Nat /\ equityOpen' \in Equity /\ equityLast' \in Equity
    BY <1>6 DEF DayRecords
  <2>3. /\ today' \in 1..Days /\ day' \in 1..Days /\ fh' \in 0..Days /\ consecutiveErrors' \in 0..Failures
        /\ swallowed' \subseteq 1..Days
    BY <1>1, <1>3, BoundsAssumption
  <2>4. /\ ledger' \in [1..Days -> DayRecords] /\ killFile' \in BOOLEAN
        /\ signed' \in [1..Days -> Nat] /\ crashes' \in Nat
    BY <1>1 DEF CountsInv, TypeInv
  <2>5. QED
    BY <1>1, <1>2, <2>1, <2>2, <2>3, <2>4 DEF TypeInv
<1>8. RollInv'
  <2>1. ASSUME NEW d \in 1..Days, d > today PROVE ledger'[d] = EmptyDay /\ ~torn'[d] /\ d \notin swallowed'
    <3>1. d > day /\ d # day
      BY <1>3, <2>1
    <3>2. QED
      BY <1>1, <1>2, <3>1 DEF CountsInv, RollInv
  <2>2. QED
    BY <1>1, <1>3, <2>1 DEF RollInv
<1>9. TearInv'
  <2>1. ASSUME NEW d \in 1..Days, torn'[d]
        PROVE  \E n \in 0..1 : tail'[d].txs = ledger[d].txs + n /\ tail'[d].gas = ledger[d].gas + Gas(n)
    <3>1. CASE d = day
      BY <1>2, <2>1, <3>1
    <3>2. CASE d # day
      BY <1>2, <2>1, <3>2 DEF CountsInv, TearInv
    <3>3. QED
      BY <3>1, <3>2
  <2>2. QED
    BY <1>1, <2>1 DEF TearInv
<1>10. LedgerInv'
  <2>1. Unwritten' = 0 /\ Gas(0) = 0
    BY <1>1, GasFacts DEF Unwritten
  <2>2. rec.txs \in Nat /\ rec.gas \in Nat
    BY <1>6, RecordTypes
  <2>3. txCount' = rec.txs + 0 /\ gasPol' = rec.gas + Gas(0)
    BY <1>6, <2>1, <2>2
  <2>4. Short(0)'
    BY <1>5, <2>3 DEF Short
  <2>5. Counted'
    BY <1>1, <1>5, <1>6, <2>1, <2>4 DEF Counted
  <2>6. QED
    BY <1>1, <2>5 DEF LedgerInv
<1>11. BudgetInv'
  <2>1. ASSUME NEW d \in 1..Days PROVE Readable(d)'.txs <= MaxTx
    <3>1. CASE d = day /\ ~torn'[day]
      <4>1. Readable(d)' = ledger[day] /\ ledger[day].txs \in Nat /\ Readable(day).txs <= MaxTx
        BY <1>3, <1>4, <3>1, RecordTypes DEF CountsInv, BudgetInv, TxBudgetHolds
      <4>2. CASE torn[day]
        <5>1. PICK n \in 0..1 : tail[day].txs = ledger[day].txs + n
          BY <1>3, <4>2 DEF CountsInv, TearInv
        <5>2. QED
          BY <4>1, <4>2, <5>1, LimitsAssumption DEF Readable
      <4>3. QED
        BY <4>1, <4>2 DEF Readable
    <3>2. CASE d = day /\ torn'[day]
      BY <1>2, <1>4, <3>2
    <3>3. CASE d # day
      <4>1. Readable(d)' = Readable(d)
        BY <1>1, <1>2, <3>3 DEF Readable
      <4>2. QED
        BY <4>1 DEF CountsInv, BudgetInv, TxBudgetHolds
    <3>4. QED
      BY <3>1, <3>2, <3>3
  <2>2. QED
    BY <1>1, <2>1 DEF BudgetInv, TxBudgetHolds
<1>12. QED
  BY <1>7, <1>8, <1>9, <1>10, <1>11 DEF CountsInv

\* The routes' line about the kill file, at any moment of the keeper's call.
LEMMA LoggedKeeps ==
  ASSUME CountsInv, WebThreads = {}, kill \/ unkill
  PROVE  CountsInv'
<1> USE DEF counters, gates, control
<1>1. /\ UNCHANGED <<today, day, fh, txCount, gasPol, equityOpen, equityLast, lowPol, overGross,
                     consecutiveErrors, op, at, newDay, alive, signed, crashes>>
      /\ killFile' \in BOOLEAN /\ Logged
  BY DEF kill, unkill, history
<1>2. o' = o /\ p' = p /\ Unwritten' = Unwritten /\ Unwritten \in 0..1
  BY <1>1 DEF o, p, Unwritten
<1>3. CASE UNCHANGED files
  <2>1. TypeInv'
    BY <1>1, <1>3 DEF files, CountsInv, TypeInv
  <2>2. RollInv' /\ TearInv'
    BY <1>1, <1>2, <1>3 DEF files, CountsInv, TypeInv, RollInv, TearInv, Threads
  <2>3. \A d : Readable(d)' = Readable(d)
    BY <1>3 DEF files, Readable
  <2>4. LedgerInv' /\ BudgetInv'
    BY <1>1, <1>2, <1>3, <2>3 DEF files, CountsInv, LedgerInv, Counted, Short, Emptied, BudgetInv, TxBudgetHolds
  <2>5. QED
    BY <2>1, <2>2, <2>4 DEF CountsInv
<1>4. CASE fh # Closed /\ Append(Record)
  <2>1. p \in {"check", "close", "body"}
    BY <1>4 DEF CountsInv, TypeInv, RollInv, Places, p, Threads
  <2>2. /\ Counted /\ day \in 1..Days /\ Record = ledger[day] /\ ledger[day] \in DayRecords /\ Gas(0) = 0
        /\ ledger[day].txs \in Nat /\ ledger[day].gas \in Nat
    BY <2>1, FileOpen, RecordTypes, GasFacts
  <2>3. /\ ledger' \in [1..Days -> DayRecords] /\ tail' \in [1..Days -> DayRecords]
        /\ torn' \in [1..Days -> BOOLEAN] /\ swallowed' \subseteq 1..Days
    BY <1>4, <2>1, <2>2, AppendIs
  <2>4. /\ Counted' /\ TearInv' /\ TxBudgetHolds'
        /\ \A d \in 1..Days : d > day /\ ledger[d] = EmptyDay /\ ~torn[d] /\ d \notin swallowed
                                => ledger'[d] = EmptyDay /\ ~torn'[d] /\ d \notin swallowed'
    <3>1. /\ ledger[day].txs = ledger[day].txs + 0 /\ ledger[day].gas = ledger[day].gas + Gas(0)
          /\ Unwritten = 0 + Unwritten' /\ Unwritten' \in 0..1 /\ 0 \in 0..1
      BY <1>2, <2>2
    <3>2. ~torn[day] /\ day \notin swallowed => ledger[day].open = equityOpen' /\ ledger[day].last = equityLast'
      BY <1>1, <2>2 DEF Counted, Readable
    <3>3. Append(ledger[day]) /\ UNCHANGED <<day, txCount, gasPol>>
      BY <1>1, <1>4, <2>2
    <3>4. QED
      BY <2>1, <2>2, <3>1, <3>2, <3>3, AppendKeeps
  <2>5. TypeInv'
    BY <1>1, <2>3 DEF CountsInv, TypeInv
  <2>6. RollInv'
    BY <1>1, <1>2, <2>4 DEF CountsInv, TypeInv, RollInv
  <2>7. LedgerInv' /\ BudgetInv'
    BY <1>1, <1>2, <2>1, <2>4 DEF CountsInv, LedgerInv, BudgetInv
  <2>8. QED
    BY <2>4, <2>5, <2>6, <2>7 DEF CountsInv
<1>5. QED
  BY <1>1, <1>3, <1>4 DEF Logged

LEMMA OthersKeep ==
  ASSUME CountsInv, WebThreads = {},
         \/ \E call \in {"allow_tx", "mark_equity"} : KeeperCalls(call)
         \/ mark_engine_pol \/ Relaunch \/ Midnight \/ UNCHANGED vars
  PROVE  CountsInv'
<1> USE DEF disk, files, counters, gates, history, control
<1>1. ASSUME NEW call \in {"allow_tx", "mark_equity"}, KeeperCalls(call) PROVE CountsInv'
  <2>1. p = "check"
    BY <1>1 DEF KeeperCalls, CountsInv, RollInv, o, p
  <2>2. Passes(call)
    BY <1>1, <2>1 DEF KeeperCalls, Passes, Calls, CountsInv, TypeInv, o, p
  <2>3. QED
    BY <2>2, PassKeeps
<1>2. CASE mark_engine_pol \/ Relaunch \/ Midnight \/ UNCHANGED vars
  <2>1. /\ UNCHANGED <<files, day, fh, counters, op, at, newDay>>
        /\ today' \in 1..Days /\ today' >= today
    <3>1. UNCHANGED <<files, day, fh, counters, op, at, newDay>>
      BY <1>2 DEF mark_engine_pol, Relaunch, Midnight, vars
    <3>2. today' = today \/ (today < Days /\ today' = today + 1)
      BY <1>2 DEF mark_engine_pol, Relaunch, Midnight, vars
    <3>3. today \in 1..Days
      BY DEF CountsInv, TypeInv
    <3>4. QED
      BY <3>1, <3>2, <3>3, BoundsAssumption
  <2>2. TypeInv'
    BY <1>2, <2>1 DEF mark_engine_pol, Relaunch, Midnight, vars, CountsInv, TypeInv
  <2>3. RollInv' /\ TearInv'
    BY <2>1 DEF CountsInv, TypeInv, RollInv, TearInv, o, p, Threads
  <2>4. o' = o /\ p' = p /\ Unwritten' = Unwritten /\ \A d : Readable(d)' = Readable(d)
    BY <2>1 DEF o, p, Unwritten, Readable
  <2>5. LedgerInv' /\ BudgetInv'
    BY <2>1, <2>4 DEF CountsInv, LedgerInv, Counted, Short, Emptied, BudgetInv, TxBudgetHolds
  <2>6. QED
    BY <2>2, <2>3, <2>5 DEF CountsInv
<1>3. QED
  BY <1>1, <1>2

LEMMA CountsStep ==
  ASSUME CountsInv, WebThreads = {}, [Next]_vars
  PROVE  CountsInv'
<1>1. CASE KeeperStep
  BY <1>1, InputsAssumption, RollKeeps, SendKeeps, RecordsKeep, RecordTxKeeps, OthersKeep DEF KeeperStep
<1>2. CASE Relaunch \/ Midnight \/ UNCHANGED vars
  BY <1>2, OthersKeep
<1>3. CASE Restart
  BY <1>3, RestartKeeps
<1>4. CASE kill \/ unkill
  BY <1>4, LoggedKeeps
<1>5. QED
  BY <1>1, <1>2, <1>3, <1>4 DEF Next

LEMMA CountsAlways == ASSUME WebThreads = {} PROVE Spec => []CountsInv
<1>1. CountsInv /\ [Next]_vars => CountsInv'
  BY CountsStep
<1>2. QED
  BY <1>1, CountsInit, PTL DEF Spec
-----------------------------------------------------------------------------
(* What went out on a day is paid for: by a record, written or under way,  *)
(* by one of the errors the breaker has counted since the last success, or *)
(* by a restart, which pays for the send it cut off and, if it left the    *)
(* file torn, owes one more, for the record that is written onto the tear. *)
Cap(x) == PerSend * MaxErrors * x
Pending == IF o \in {"record_tx", "write_tx"} THEN 1 ELSE 0
Owed == IF torn[today] THEN 1 ELSE 0
Failing == IF o = "record_error" THEN 1 ELSE 0
Errors == IF consecutiveErrors < MaxErrors THEN consecutiveErrors ELSE MaxErrors
Target == IF p \in {"close", "reset"} THEN newDay[Keeper] ELSE day

CallInv ==
  /\ o \in {"send", "record_error"} => consecutiveErrors < MaxErrors
  /\ o \in {"record_tx", "write_tx"} => consecutiveErrors = 0
  /\ o = "write_tx" \/ (o = "record_tx" /\ p # "check") => Target = today \/ signed[today] = 0
Paid == signed[today] + Cap(Owed)
          <= Cap(ledger[today].txs + Pending + 2 * crashes) + PerSend * (Errors + Failing)
NotYet == \A d \in 1..Days : d > today => signed[d] = 0

BreakerInv == CallInv /\ Paid /\ NotYet /\ BroadcastsBounded

LEMMA CapFacts ==
  /\ Cap(0) = 0
  /\ \A x \in Nat : Cap(x) \in Nat /\ Cap(x + 1) = Cap(x) + PerSend * MaxErrors
  /\ \A x, y \in Nat : x <= y => Cap(x) <= Cap(y)
  /\ \A x, y \in Nat : Cap(x + y) = Cap(x) + Cap(y)
<1> USE LimitsAssumption DEF Cap, PerSend
<1>1. Cap(0) = 0
  OBVIOUS
<1>2. ASSUME NEW x \in Nat PROVE Cap(x) \in Nat /\ Cap(x + 1) = Cap(x) + PerSend * MaxErrors
  OBVIOUS
<1>3. ASSUME NEW x \in Nat, NEW y \in Nat, x <= y PROVE Cap(x) <= Cap(y)
  <2>1. PICK k \in Nat : y = x + k
    <3>1. y - x \in Nat /\ y = x + (y - x)
      BY <1>3
    <3>2. QED
      BY <3>1
  <2>2. Cap(y) = Cap(x) + Cap(k)
    BY <2>1
  <2>3. QED
    BY <1>2, <2>1, <2>2
<1>4. ASSUME NEW x \in Nat, NEW y \in Nat PROVE Cap(x + y) = Cap(x) + Cap(y)
  OBVIOUS
<1>5. QED
  BY <1>1, <1>2, <1>3, <1>4

NumbersOK ==
  /\ today \in 1..Days /\ day \in 1..Days /\ crashes \in Nat
  /\ \A d \in 1..Days : ledger[d].txs \in Nat /\ signed[d] \in Nat /\ ledger[d].txs <= MaxTx
  /\ 2 * crashes \in Nat /\ Owed \in 0..1 /\ Pending \in 0..1 /\ Failing \in 0..1 /\ Errors \in 0..MaxErrors /\ consecutiveErrors \in Nat

\* The ended lines are no more than a replay reads.
LEMMA LedgerBelow ==
  ASSUME CountsInv, NEW d \in 1..Days
  PROVE  ledger[d].txs \in Nat /\ ledger[d].txs <= Readable(d).txs /\ ledger[d].txs <= MaxTx
<1>1. ledger[d].txs \in Nat /\ Readable(d).txs <= MaxTx
  BY RecordTypes DEF CountsInv, TypeInv, BudgetInv, TxBudgetHolds
<1>2. CASE torn[d]
  <2>1. PICK n \in 0..1 : tail[d].txs = ledger[d].txs + n
    BY <1>2 DEF CountsInv, TearInv
  <2>2. QED
    BY <1>1, <1>2, <2>1, LimitsAssumption DEF Readable
<1>3. CASE ~torn[d]
  BY <1>1, <1>3 DEF Readable
<1>4. QED
  BY <1>2, <1>3

LEMMA LedgerBelowNext == CountsInv' => \A d \in 1..Days : ledger'[d].txs \in Nat /\ ledger'[d].txs <= MaxTx
<1> SUFFICES ASSUME CountsInv', NEW d \in 1..Days PROVE ledger'[d].txs \in Nat /\ ledger'[d].txs <= MaxTx
  OBVIOUS
<1>1. ledger'[d].txs \in Nat /\ (IF torn'[d] THEN tail'[d] ELSE ledger'[d]).txs <= MaxTx
  BY RecordTypes DEF CountsInv, TypeInv, BudgetInv, TxBudgetHolds, Readable
<1>2. torn'[d] => \E n \in 0..1 : tail'[d].txs = ledger'[d].txs + n
  BY DEF CountsInv, TearInv
<1>3. QED
  BY <1>1, <1>2, LimitsAssumption

LEMMA Numbers == CountsInv => NumbersOK
<1> SUFFICES ASSUME CountsInv PROVE NumbersOK
  OBVIOUS
<1>1. today \in 1..Days /\ day \in 1..Days /\ crashes \in Nat /\ consecutiveErrors \in Nat
  BY BoundsAssumption DEF CountsInv, TypeInv
<1>2. \A d \in 1..Days : ledger[d].txs \in Nat /\ signed[d] \in Nat /\ ledger[d].txs <= MaxTx
  BY LedgerBelow DEF CountsInv, TypeInv
<1>3. 2 * crashes \in Nat /\ Owed \in 0..1 /\ Pending \in 0..1 /\ Failing \in 0..1
  BY <1>1 DEF Owed, Pending, Failing
<1>4. Errors \in 0..MaxErrors
  BY <1>1, LimitsAssumption DEF Errors
<1>5. QED
  BY <1>1, <1>2, <1>3, <1>4 DEF NumbersOK

LEMMA NumbersNext == CountsInv' => NumbersOK'
<1> SUFFICES ASSUME CountsInv' PROVE NumbersOK'
  OBVIOUS
<1>1. (today \in 1..Days /\ day \in 1..Days /\ crashes \in Nat /\ consecutiveErrors \in Nat)'
  BY BoundsAssumption DEF CountsInv, TypeInv
<1>2. (\A d \in 1..Days : ledger[d].txs \in Nat /\ signed[d] \in Nat /\ ledger[d].txs <= MaxTx)'
  BY LedgerBelowNext DEF CountsInv, TypeInv
<1>3. (2 * crashes \in Nat /\ Owed \in 0..1 /\ Pending \in 0..1 /\ Failing \in 0..1)'
  <2>1. 2 * crashes' \in Nat
    <3>1. crashes' \in Nat
      BY BoundsAssumption DEF CountsInv, TypeInv
    <3>2. \A k \in Nat : 2 * k \in Nat
      OBVIOUS
    <3>3. QED
      BY <3>1, <3>2
  <2>2. Owed' \in 0..1
    BY DEF Owed
  <2>3. Pending' \in 0..1 /\ Failing' \in 0..1
    BY DEF Pending, Failing
  <2>4. QED
    BY <2>1, <2>2, <2>3
<1>4. (Errors \in 0..MaxErrors)'
  BY <1>1, LimitsAssumption DEF Errors
<1>5. QED
  BY <1>1, <1>2, <1>3, <1>4 DEF NumbersOK

LEMMA SumIsNat == \A e, f \in Nat : e + f \in Nat
OBVIOUS

\* A step that broadcasts nothing and drops no record and no error.
LEMMA QuietPays ==
  ASSUME CountsInv, CountsInv', BreakerInv, CallInv',
         today' = today, signed' = signed, crashes' = crashes,
         \/ signed[today] = 0 /\ Owed' = 0
         \/ ledger'[today].txs + Pending' + Owed >= ledger[today].txs + Pending + Owed',
         Errors' + Failing' >= Errors + Failing
  PROVE  BreakerInv'
<1>1. NumbersOK /\ NumbersOK'
  BY Numbers, NumbersNext
<1> DEFINE e == Errors + Failing
           f == Errors' + Failing'
<1>2. PICK x \in Nat, y \in Nat, a \in Nat, b \in Nat :
        /\ x = ledger[today].txs + Pending + 2 * crashes /\ y = ledger'[today].txs + Pending' + 2 * crashes
        /\ a = Owed /\ b = Owed'
        /\ (signed[today] = 0 /\ b = 0) \/ y + a >= x + b
  <2>1. /\ ledger[today].txs \in Nat /\ Pending \in 0..1 /\ 2 * crashes \in Nat /\ Owed \in 0..1
    BY <1>1 DEF NumbersOK
  <2>2. /\ ledger'[today].txs \in Nat /\ Pending' \in 0..1 /\ Owed' \in 0..1
    BY <1>1 DEF NumbersOK
  <2>3. PICK c \in Nat, x1 \in Nat, y1 \in Nat : c = 2 * crashes /\ x1 = ledger[today].txs + Pending
                                                 /\ y1 = ledger'[today].txs + Pending'
    BY <2>1, <2>2
  <2>4. (signed[today] = 0 /\ Owed' = 0) \/ y1 + c + Owed >= x1 + c + Owed'
    BY <2>1, <2>2, <2>3
  <2>5. PICK a1 \in Nat, b1 \in Nat : a1 = Owed /\ b1 = Owed'
    BY <2>1, <2>2
  <2>6. PICK x2 \in Nat, y2 \in Nat : x2 = x1 + c /\ y2 = y1 + c
    BY SumIsNat
  <2>7. x2 = ledger[today].txs + Pending + 2 * crashes /\ y2 = ledger'[today].txs + Pending' + 2 * crashes
    BY <2>3, <2>6
  <2>8. (signed[today] = 0 /\ b1 = 0) \/ y2 + a1 >= x2 + b1
    BY <2>4, <2>5, <2>6
  <2>9. WITNESS x2 \in Nat, y2 \in Nat, a1 \in Nat, b1 \in Nat
  <2>10. QED
    BY <2>5, <2>7, <2>8
<1>3. e \in Nat /\ f \in Nat /\ e <= f /\ signed[today] \in Nat
  <2>1. /\ signed[today] \in Nat /\ Errors \in 0..MaxErrors /\ Failing \in 0..1
        /\ Errors' \in 0..MaxErrors /\ Failing' \in 0..1
    BY <1>1 DEF NumbersOK
  <2>2. Errors \in Nat /\ Failing \in Nat /\ Errors' \in Nat /\ Failing' \in Nat
    BY <2>1, LimitsAssumption
  <2>3. e \in Nat /\ f \in Nat
    BY <2>2, SumIsNat, Zenon
  <2>4. QED
    BY <2>1, <2>3
<1> HIDE DEF e, f
<1>4. signed[today] + Cap(a) <= Cap(x) + PerSend * e
  BY <1>2 DEF BreakerInv, Paid, e
<1>5. /\ Cap(x) \in Nat /\ Cap(y) \in Nat /\ Cap(a) \in Nat /\ Cap(b) \in Nat /\ Cap(0) = 0
      /\ Cap(y + a) = Cap(y) + Cap(a) /\ Cap(x + b) = Cap(x) + Cap(b)
      /\ y + a >= x + b => Cap(x + b) <= Cap(y + a)
  <2>1. x + b \in Nat /\ y + a \in Nat
    OBVIOUS
  <2>2. QED
    BY <2>1, CapFacts
<1>6. signed[today] + Cap(b) <= Cap(y) + PerSend * f
  <2>1. CASE signed[today] = 0 /\ b = 0
    BY <1>3, <1>5, <2>1 DEF PerSend
  <2>2. CASE y + a >= x + b
    BY <1>3, <1>4, <1>5, <2>2 DEF PerSend
  <2>3. QED
    BY <1>2, <2>1, <2>2
<1>7. Paid'
  BY <1>2, <1>6 DEF Paid, f
<1>8. NotYet' /\ BroadcastsBounded'
  BY DEF BreakerInv, NotYet, BroadcastsBounded
<1>9. QED
  BY <1>7, <1>8 DEF BreakerInv

\* A send, of a transaction that succeeds (one record more to come) or not (one error more).
LEMMA SendPays ==
  ASSUME CountsInv, CountsInv', BreakerInv, SendSucceeds \/ SendFails
  PROVE  BreakerInv'
<1>1. NumbersOK /\ NumbersOK'
  BY Numbers, NumbersNext
<1>2. /\ o = "send" /\ Pending = 0 /\ Failing = 0 /\ consecutiveErrors < MaxErrors /\ Errors = consecutiveErrors
      /\ today' = today /\ ledger' = ledger /\ crashes' = crashes /\ Owed' = Owed
  BY DEF SendSucceeds, SendFails, BreakerInv, CallInv, Pending, Failing, Errors, Owed, disk, files, o
<1>3. PICK n \in 0..2 : signed' = [signed EXCEPT ![today] = @ + n]
  BY DEF SendSucceeds, SendFails, Broadcast, PerSend
<1>4. signed'[today] = signed[today] + n /\ \A d \in 1..Days : d # today => signed'[d] = signed[d]
  BY <1>1, <1>3 DEF CountsInv, TypeInv, NumbersOK
<1>5. ledger[today].txs < MaxTx
  <2>1. CASE today = day
    <3>1. txCount < MaxTx /\ Counted
      BY <1>2 DEF CountsInv, BudgetInv, RollInv, LedgerInv
    <3>2. ledger[day].txs \in Nat /\ ledger[day].txs <= Readable(day).txs /\ Unwritten = 0
          /\ Readable(day).txs \in Nat
      BY <1>1, <1>2, LedgerBelow, RecordTypes DEF NumbersOK, Unwritten, Readable, CountsInv, TypeInv
    <3>3. PICK m \in 0..2 : txCount = Readable(day).txs + m
      <4>1. CASE day \in swallowed
        BY <3>1, <3>2, <4>1 DEF Counted, Short
      <4>2. CASE day \notin swallowed
        BY <3>1, <3>2, <4>2 DEF Counted, Short
      <4>3. QED
        BY <4>1, <4>2
    <3>4. QED
      BY <2>1, <3>1, <3>2, <3>3, LimitsAssumption
  <2>2. CASE today # day
    <3>1. ledger[today] = EmptyDay
      BY <1>1, <2>2 DEF CountsInv, RollInv, NumbersOK
    <3>2. QED
      BY <3>1, LimitsAssumption DEF EmptyDay
  <2>3. QED
    BY <2>1, <2>2
<1> DEFINE x == ledger[today].txs + 2 * crashes
           y == MaxTx + 2 * crashes
<1>6. /\ x \in Nat /\ y \in Nat /\ x + 1 <= y /\ Cap(x) \in Nat /\ Cap(x + 1) = Cap(x) + PerSend * MaxErrors
      /\ Cap(x + 1) <= Cap(y)
  <2>1. x \in Nat /\ y \in Nat /\ x + 1 \in Nat /\ x + 1 <= y
    BY <1>1, <1>5, LimitsAssumption DEF NumbersOK
  <2> HIDE DEF x, y
  <2>2. QED
    BY <2>1, CapFacts
<1>0. PICK w \in Nat : w = Cap(Owed)
  <2>1. Owed \in Nat
    BY <1>1 DEF NumbersOK
  <2>2. QED
    BY <2>1, CapFacts
<1>7. signed[today] + w <= Cap(x) + PerSend * consecutiveErrors
  <2>1. ledger[today].txs + Pending + 2 * crashes = x /\ Errors + Failing = consecutiveErrors
    BY <1>1, <1>2 DEF NumbersOK
  <2>2. QED
    BY <1>0, <2>1 DEF BreakerInv, Paid
<1>8. signed[today] \in Nat /\ signed[today] + n + w <= Cap(x + 1)
  <2>1. signed[today] \in Nat /\ consecutiveErrors \in Nat
    BY <1>1 DEF NumbersOK
  <2> HIDE DEF x
  <2>2. QED
    BY <1>0, <1>2, <1>6, <1>7, <2>1, LimitsAssumption DEF PerSend
<1>9. BroadcastsBounded'
  <2>1. signed'[today] <= Cap(y)
    <3> HIDE DEF x, y
    <3>1. Cap(x + 1) \in Nat /\ Cap(y) \in Nat
      BY <1>6, CapFacts
    <3>2. QED
      BY <1>0, <1>4, <1>6, <1>8, <3>1
  <2>2. ASSUME NEW d \in 1..Days PROVE signed'[d] <= Cap(y)
    <3>1. CASE d = today
      BY <2>1, <3>1
    <3>2. CASE d # today
      BY <1>4, <3>2 DEF BreakerInv, BroadcastsBounded, Cap
    <3>3. QED
      BY <3>1, <3>2
  <2>3. QED
    BY <1>2, <2>2 DEF BroadcastsBounded, Cap
<1>10. NotYet'
  BY <1>1, <1>2, <1>4 DEF BreakerInv, NotYet, NumbersOK
<1>11. CASE SendSucceeds
  <2>1. o' = "record_tx" /\ p' = "check" /\ consecutiveErrors' = 0
    BY <1>11 DEF SendSucceeds, Call, CountsInv, TypeInv, o, p, Threads
  <2>2. CallInv'
    BY <2>1 DEF CallInv
  <2>3. ledger'[today'].txs + Pending' + 2 * crashes' = x + 1 /\ Errors' + Failing' = 0
    BY <1>1, <1>2, <2>1, LimitsAssumption DEF Pending, Failing, Errors, NumbersOK
  <2>4. Paid'
    <3> HIDE DEF x
    <3>1. Cap(x + 1) \in Nat
      BY <1>6, CapFacts
    <3>2. QED
      BY <1>0, <1>2, <1>4, <1>8, <2>3, <3>1 DEF Paid, PerSend
  <2>5. QED
    BY <1>9, <1>10, <2>2, <2>4 DEF BreakerInv
<1>12. CASE SendFails
  <2>1. o' = "record_error" /\ consecutiveErrors' = consecutiveErrors
    BY <1>12 DEF SendFails, Call, CountsInv, TypeInv, o, Threads
  <2>2. CallInv'
    BY <1>2, <2>1 DEF CallInv
  <2>3. ledger'[today'].txs + Pending' + 2 * crashes' = x /\ Errors' + Failing' = consecutiveErrors + 1
    BY <1>1, <1>2, <2>1, LimitsAssumption DEF Pending, Failing, Errors, NumbersOK
  <2>4. Paid'
    <3>1. signed[today] \in Nat /\ consecutiveErrors \in Nat
      BY <1>1 DEF NumbersOK
    <3> HIDE DEF x
    <3>2. QED
      BY <1>0, <1>2, <1>4, <1>6, <1>7, <2>3, <3>1 DEF Paid, PerSend
  <2>5. QED
    BY <1>9, <1>10, <2>2, <2>4 DEF BreakerInv
<1>13. QED
  BY <1>11, <1>12

LEMMA RollPays ==
  ASSUME CountsInv, CountsInv', WebThreads = {}, BreakerInv, Roll(Keeper)
  PROVE  BreakerInv'
<1>1. /\ UNCHANGED <<today, files, consecutiveErrors, signed, crashes>> /\ op' = op
  BY DEF Roll, RollCheck, RollClose, RollReset, RollReplay, RollOpen, Goto, disk, history
<1>2. o' = o /\ Pending' = Pending /\ Failing' = Failing /\ Errors' = Errors /\ Owed' = Owed /\ ledger' = ledger
  BY <1>1 DEF o, Pending, Failing, Errors, Owed, files
<1>3. o # "write_tx"
  BY DEF CountsInv, RollInv, Roll, RollCheck, RollClose, RollReset, RollReplay, RollOpen, Rolling, o, p
<1>4. o = "record_tx" => Target' = today \/ signed[today] = 0
  <2>1. CASE RollCheck(Keeper)
    BY <1>1, <2>1 DEF RollCheck, Goto, Target, CountsInv, TypeInv, Threads, p
  <2>2. CASE RollClose(Keeper) \/ RollReset(Keeper) \/ RollReplay(Keeper) \/ RollOpen(Keeper)
    <3>1. p # "check" /\ Target' = Target
      BY <2>2 DEF RollClose, RollReset, RollReplay, RollOpen, Goto, Target, Threads, p,
                  CountsInv, TypeInv, RollInv
    <3>2. QED
      BY <3>1 DEF BreakerInv, CallInv
  <2>3. QED
    BY <2>1, <2>2 DEF Roll
<1>5. CallInv'
  BY <1>1, <1>2, <1>3, <1>4 DEF BreakerInv, CallInv
<1>6. NumbersOK
  BY Numbers
<1>7. QED
  BY <1>1, <1>2, <1>5, <1>6, QuietPays, LimitsAssumption DEF NumbersOK

\* A recorder that writes rec, which has the transaction of a write_tx and no other.
Records(rec, n) ==
  /\ rec \in DayRecords /\ Write(rec, n) /\ o # "record_tx"
  /\ rec.txs = ledger[day].txs + (IF o = "write_tx" THEN 1 ELSE 0)
  /\ Errors' + Failing' >= Errors + Failing

LEMMA SumGrows ==
  ASSUME NEW e \in Nat, NEW e2 \in Nat, NEW f \in 0..1, NEW f2 \in 0..1,
         (f = 0 /\ e2 >= e) \/ e2 = e + 1
  PROVE  e2 + f2 >= e + f
OBVIOUS

LEMMA RecordsPay ==
  ASSUME CountsInv, CountsInv', WebThreads = {}, BreakerInv,
         allow_tx \/ record_tx \/ write_tx \/ record_fill
         \/ record_error("none", "handler") \/ record_error("record_error", "handler")
         \/ record_error("handler", "none") \/ \E equity \in Equities : mark_equity(equity)
  PROVE  BreakerInv'
<1> USE DEF Call, disk, files, counters, gates, history
<1>1. NumbersOK /\ NumbersOK' /\ Keeper \in Threads
  BY Numbers, NumbersNext DEF Threads
<1>2. /\ today' = today /\ day' = day /\ signed' = signed /\ crashes' = crashes
  BY DEF allow_tx, record_tx, write_tx, record_fill, record_error, mark_equity
<1>3. p \in {"check", "body"}
  BY DEF CountsInv, RollInv, allow_tx, record_fill, record_error, write_tx, record_tx, mark_equity, In, o, p
<1>4. CASE allow_tx
  <2>1. /\ o = "allow_tx" /\ o' \in {"send", "none"} /\ ledger' = ledger /\ consecutiveErrors' = consecutiveErrors
        /\ o' = "send" => consecutiveErrors < MaxErrors
        /\ torn' = torn
    BY <1>4 DEF allow_tx, In, Allowed, CountsInv, TypeInv, o
  <2>2. Pending' = Pending /\ Failing' = Failing /\ Errors' = Errors /\ Owed' = Owed
    BY <1>2, <2>1 DEF Pending, Failing, Errors, Owed
  <2>3. CallInv'
    BY <2>1 DEF CallInv
  <2>4. QED
    BY <1>1, <1>2, <2>1, <2>2, <2>3, QuietPays, LimitsAssumption DEF NumbersOK
<1>5. CASE record_tx
  <2>1. /\ o = "record_tx" /\ p = "body" /\ o' = "write_tx" /\ p' = "check"
        /\ ledger' = ledger /\ torn' = torn /\ consecutiveErrors' = consecutiveErrors
    BY <1>5 DEF record_tx, In, CountsInv, TypeInv, o, p, Threads
  <2>2. Pending' = Pending /\ Failing' = Failing /\ Errors' = Errors /\ Target' = Target /\ Owed' = Owed
    BY <1>2, <2>1 DEF Pending, Failing, Errors, Target, Owed
  <2>3. CallInv'
    BY <1>2, <2>1, <2>2 DEF BreakerInv, CallInv
  <2>4. QED
    BY <1>1, <1>2, <2>1, <2>2, <2>3, QuietPays, LimitsAssumption DEF NumbersOK
<1>6. ASSUME NEW rec, NEW n, Records(rec, n)
      PROVE  BreakerInv'
  <2>1. /\ o' = "none" /\ ~torn'[day] /\ \A d \in 1..Days : d # day => ledger'[d] = ledger[d] /\ torn'[d] = torn[d]
        /\ ledger'[day] = IF torn[day] THEN ledger[day] ELSE rec
    <3>1. Append(rec) /\ o' = "none" /\ rec \in DayRecords /\ p \in {"check", "close", "body"}
      BY <1>3, <1>6, WriteIs DEF Records
    <3>2. QED
      BY <3>1, AppendIs
  <2>2. CallInv'
    BY <2>1 DEF CallInv
  <2>3. PICK l \in Nat, k \in 0..1 : /\ l = ledger[day].txs /\ k = Unwritten /\ rec.txs = l + k /\ Pending = k /\ Pending' = 0
    BY <1>1, <1>6, <2>1 DEF NumbersOK, Records, Unwritten, Pending
  <2>4. \/ signed[today] = 0 /\ Owed' = 0
        \/ ledger'[today].txs + Pending' + Owed >= ledger[today].txs + Pending + Owed'
    <3>1. CASE day = today
      <4>1. Owed' = 0 /\ Owed = IF torn[day] THEN 1 ELSE 0
        BY <1>2, <2>1, <3>1 DEF Owed
      <4>2. ledger'[day].txs = IF torn[day] THEN l ELSE l + k
        BY <2>1, <2>3
      <4>3. QED
        BY <2>3, <3>1, <4>1, <4>2
    <3>2. CASE day # today
      <4>1. ledger'[today].txs = ledger[today].txs /\ Owed' = Owed /\ ledger[today].txs \in Nat /\ Owed \in 0..1
        BY <1>1, <1>2, <2>1, <3>2 DEF Owed, NumbersOK
      <4>2. CASE k = 0
        BY <2>3, <4>1, <4>2
      <4>3. CASE k = 1
        <5>1. o = "write_tx" /\ Target = day
          BY <1>3, <2>3, <4>3 DEF Unwritten, Target
        <5>2. signed[today] = 0
          BY <3>2, <5>1 DEF BreakerInv, CallInv
        <5>3. ~torn[today]
          BY <1>1, <3>2 DEF NumbersOK, CountsInv, RollInv
        <5>4. QED
          BY <4>1, <5>2, <5>3 DEF Owed
      <4>4. QED
        BY <4>2, <4>3
    <3>3. QED
      BY <3>1, <3>2
  <2>5. Errors' + Failing' >= Errors + Failing
    BY <1>6 DEF Records
  <2>6. QED
    BY <1>2, <2>2, <2>4, <2>5, QuietPays
<1>7. Record = ledger[day] /\ ledger[day] \in DayRecords
  <2>1. p \in {"check", "close", "body"}
    BY <1>3
  <2>2. QED
    BY <2>1, FileOpen
<1>8. /\ (Failing = 0 /\ Errors' >= Errors) \/ Errors' = Errors + 1 => Errors' + Failing' >= Errors + Failing
      /\ Errors' = Errors => Errors' >= Errors
      /\ ledger[day].txs + 0 = ledger[day].txs
  <2>1. Failing \in 0..1 /\ Failing' \in 0..1 /\ ledger[day].txs \in Nat
    BY <1>1 DEF NumbersOK
  <2>2. Errors \in Nat /\ Errors' \in Nat
    BY <1>1, LimitsAssumption DEF NumbersOK
  <2>3. (Failing = 0 /\ Errors' >= Errors) \/ Errors' = Errors + 1 => Errors' + Failing' >= Errors + Failing
    BY <2>1, <2>2, SumGrows, Zenon
  <2>4. Errors' = Errors => Errors' >= Errors
    BY <2>2
  <2>5. ledger[day].txs + 0 = ledger[day].txs
    BY <2>1
  <2>6. QED
    BY <2>3, <2>4, <2>5
<1>9. CASE write_tx
  <2> DEFINE rec == WithTx(ledger[day])
  <2>1. o = "write_tx" /\ Write(rec, "handler") /\ consecutiveErrors' = consecutiveErrors
    BY <1>7, <1>9 DEF write_tx, o
  <2>2. rec \in DayRecords /\ rec.txs = ledger[day].txs + 1
    BY <1>7, TxLine
  <2>3. Errors' = Errors /\ Failing = 0
    BY <2>1 DEF Errors, Failing
  <2> HIDE DEF rec
  <2>4. Errors' + Failing' >= Errors + Failing
    BY <1>8, <2>3
  <2>5. Records(rec, "handler")
    BY <2>1, <2>2, <2>4 DEF Records
  <2>6. QED
    BY <1>6, <2>5
<1>10. ASSUME NEW from \in {"none", "record_error", "handler"}, NEW next, record_error(from, next)
      PROVE  BreakerInv'
  <2>1. /\ o = from /\ from # "handler" /\ Write(Record, next)
        /\ consecutiveErrors' = IF consecutiveErrors < Failures THEN consecutiveErrors + 1 ELSE Failures
    BY <1>1, <1>10 DEF record_error, CountsInv, TypeInv, Calls, o
  <2>2. consecutiveErrors \in 0..Failures /\ (o = "record_error" => consecutiveErrors < MaxErrors)
    BY DEF CountsInv, TypeInv, BreakerInv, CallInv
  <2>3. Errors' + Failing' >= Errors + Failing
    <3>1. CASE o = "record_error"
      <4>1. Failing = 1 /\ Errors' = Errors + 1
        <5>1. consecutiveErrors \in Nat /\ consecutiveErrors < MaxErrors /\ consecutiveErrors < Failures
          BY <2>2, <3>1, LimitsAssumption, BoundsAssumption
        <5>2. consecutiveErrors' = consecutiveErrors + 1
          BY <2>1, <5>1
        <5>3. Errors = consecutiveErrors /\ Errors' = consecutiveErrors + 1
          BY <5>1, <5>2, LimitsAssumption DEF Errors
        <5>4. QED
          BY <3>1, <5>3 DEF Failing
      <4>2. QED
        BY <1>8, <4>1
    <3>2. CASE o # "record_error"
      <4>1. Failing = 0 /\ Errors' >= Errors
        <5>1. consecutiveErrors \in Nat /\ consecutiveErrors' \in Nat /\ consecutiveErrors' >= consecutiveErrors
          BY <2>1, <2>2, LimitsAssumption, BoundsAssumption
        <5>2. QED
          BY <3>2, <5>1, LimitsAssumption DEF Errors, Failing
      <4>2. QED
        BY <1>8, <4>1
    <3>3. QED
      BY <3>1, <3>2
  <2>4. Records(Record, next)
    <3>1. Record.txs = ledger[day].txs + 0 /\ o # "write_tx" /\ o # "record_tx"
      BY <1>7, <1>8, <2>1
    <3>2. QED
      BY <1>7, <2>1, <2>3, <3>1 DEF Records
  <2>5. QED
    BY <1>6, <2>4
<1>11. CASE record_fill
  <2>1. o = "none" /\ Write(Record, "handler") /\ consecutiveErrors' = consecutiveErrors
    BY <1>11 DEF record_fill, o
  <2>2. Errors' = Errors /\ Failing = 0
    BY <2>1 DEF Errors, Failing
  <2>3. Errors' + Failing' >= Errors + Failing /\ Record.txs = ledger[day].txs + 0
    BY <1>7, <1>8, <2>2
  <2>4. Records(Record, "handler")
    BY <1>7, <2>1, <2>3 DEF Records
  <2>5. QED
    BY <1>6, <2>4
<1>12. ASSUME NEW equity \in Equities, mark_equity(equity) PROVE BreakerInv'
  <2> DEFINE rec == WithEquity(ledger[day], equity)
  <2>1. o = "mark_equity" /\ Write(rec, "none") /\ consecutiveErrors' = consecutiveErrors
    BY <1>7, <1>12 DEF mark_equity, In, o
  <2>2. rec \in DayRecords /\ rec.txs = ledger[day].txs + 0
    BY <1>7, <1>8, EquityLine
  <2>3. Errors' = Errors /\ Failing = 0
    BY <2>1 DEF Errors, Failing
  <2> HIDE DEF rec
  <2>4. Errors' + Failing' >= Errors + Failing
    BY <1>8, <2>3
  <2>5. Records(rec, "none")
    BY <2>1, <2>2, <2>4 DEF Records
  <2>6. QED
    BY <1>6, <2>5
<1>13. QED
  BY <1>4, <1>5, <1>9, <1>10, <1>11, <1>12

\* A restart may lose the record of one transaction and owe one more, and counts for two.
LEMMA RestartPays ==
  ASSUME CountsInv, CountsInv', WebThreads = {}, BreakerInv, Restart
  PROVE  BreakerInv'
<1>1. NumbersOK /\ NumbersOK'
  BY Numbers, NumbersNext
<1>2. /\ today' = today /\ ledger' = ledger /\ signed' = signed /\ crashes' = crashes + 1
      /\ consecutiveErrors' = 0 /\ o' = "none"
  BY DEF Restart, history, o, Threads
<1>3. Pending' = 0 /\ Failing' = 0 /\ Errors' = 0
  BY <1>2, LimitsAssumption DEF Pending, Failing, Errors
<1> DEFINE t == ledger[today].txs
           x == t + 2 * crashes
<1>4. x \in Nat /\ t \in Nat /\ Cap(x) \in Nat /\ Cap(x + 1) = Cap(x) + PerSend * MaxErrors
  <2>1. t \in Nat /\ x \in Nat
    BY <1>1 DEF NumbersOK
  <2> HIDE DEF x, t
  <2>2. QED
    BY <2>1, CapFacts
<1>0. PICK w \in Nat : w = Cap(Owed)
  <2>1. Owed \in Nat
    BY <1>1 DEF NumbersOK
  <2>2. QED
    BY <2>1, CapFacts
<1>5. signed[today] + w <= Cap(x + 1)
  <2>1. CASE Pending = 1
    <3>1. Failing = 0 /\ Errors = 0
      BY <2>1, LimitsAssumption DEF BreakerInv, CallInv, Pending, Failing, Errors
    <3>2. t + Pending + 2 * crashes = x + 1 /\ Errors + Failing = 0
      BY <1>1, <1>4, <2>1, <3>1 DEF NumbersOK
    <3>3. signed[today] + w <= Cap(x + 1) + PerSend * 0
      BY <1>0, <3>2 DEF BreakerInv, Paid
    <3>4. Cap(x + 1) + PerSend * 0 = Cap(x + 1)
      <4>1. x + 1 \in Nat
        BY <1>4
      <4> HIDE DEF x
      <4>2. Cap(x + 1) \in Nat
        BY <4>1, CapFacts
      <4>3. QED
        BY <4>2 DEF PerSend
    <3>5. QED
      BY <3>3, <3>4
  <2>2. CASE Pending = 0
    <3>1. t + Pending + 2 * crashes = x
      BY <1>1, <1>4, <2>2 DEF NumbersOK
    <3>2. signed[today] + w <= Cap(x) + PerSend * (Errors + Failing)
      BY <1>0, <3>1 DEF BreakerInv, Paid
    <3>3. Errors + Failing \in 0..MaxErrors
      <4>1. CASE o = "record_error"
        <5>1. Failing = 1 /\ Errors = consecutiveErrors /\ consecutiveErrors < MaxErrors
          BY <4>1 DEF BreakerInv, CallInv, Failing, Errors
        <5>2. QED
          BY <1>1, <5>1, LimitsAssumption DEF NumbersOK
      <4>2. CASE o # "record_error"
        <5>1. Failing = 0 /\ Errors \in 0..MaxErrors
          BY <1>1, <4>2 DEF Failing, NumbersOK
        <5>2. QED
          BY <5>1, LimitsAssumption
      <4>3. QED
        BY <4>1, <4>2
    <3> DEFINE e == Errors + Failing
    <3>4. e \in 0..MaxErrors /\ signed[today] + w <= Cap(x) + PerSend * e /\ signed[today] \in Nat
      BY <1>1, <3>2, <3>3 DEF NumbersOK
    <3> HIDE DEF x, e
    <3>5. QED
      BY <1>4, <3>4, LimitsAssumption DEF PerSend
  <2>3. QED
    BY <1>1, <2>1, <2>2 DEF NumbersOK
<1>6. Paid'
  <2>1. ledger'[today'].txs + Pending' + 2 * crashes' = (x + 1) + 1 /\ Errors' + Failing' = 0
    <3>1. 2 * (crashes + 1) = 2 * crashes + 2 /\ 2 * crashes \in Nat
      BY <1>1 DEF NumbersOK
    <3>2. t \in Nat
      BY <1>4
    <3>3. ledger'[today'].txs = t /\ 2 * crashes' = 2 * crashes + 2
      BY <1>2, <3>1
    <3>4. PICK c \in Nat : c = 2 * crashes
      BY <3>1
    <3> HIDE DEF t
    <3>5. t + 0 + (c + 2) = ((t + c) + 1) + 1
      BY <3>2, <3>4
    <3>6. QED
      BY <1>3, <3>3, <3>4, <3>5
  <2>2. x + 1 \in Nat /\ signed[today] \in Nat /\ Owed' \in Nat /\ Owed' <= 1
    BY <1>1, <1>4 DEF NumbersOK
  <2> HIDE DEF x
  <2>3. /\ Cap((x + 1) + 1) = Cap(x + 1) + Cap(1) /\ Cap(Owed') <= Cap(1)
        /\ Cap(x + 1) \in Nat /\ Cap(1) \in Nat /\ Cap(Owed') \in Nat
    BY <2>2, CapFacts
  <2>4. signed[today] + Cap(Owed') <= Cap((x + 1) + 1) + PerSend * 0
    BY <1>0, <1>5, <2>2, <2>3 DEF PerSend
  <2>5. QED
    BY <1>2, <2>1, <2>4 DEF Paid
<1>7. BroadcastsBounded'
  <2> DEFINE y == MaxTx + 2 * crashes
             z == MaxTx + 2 * (crashes + 1)
  <2>1. y \in Nat /\ z \in Nat /\ y <= z
    BY <1>1, LimitsAssumption DEF NumbersOK
  <2>2. Cap(y) <= Cap(z) /\ Cap(y) \in Nat /\ Cap(z) \in Nat
    <3> HIDE DEF y, z
    <3>1. QED
      BY <2>1, CapFacts
  <2>3. ASSUME NEW d \in 1..Days PROVE signed'[d] <= Cap(z)
    <3>1. signed[d] <= Cap(y) /\ signed[d] \in Nat
      BY <1>1 DEF BreakerInv, BroadcastsBounded, Cap, NumbersOK
    <3> HIDE DEF y, z
    <3>2. QED
      BY <1>2, <2>2, <3>1
  <2>4. QED
    BY <1>2, <2>3 DEF BroadcastsBounded, Cap
<1>8. CallInv' /\ NotYet'
  BY <1>2 DEF CallInv, BreakerInv, NotYet
<1>9. QED
  BY <1>6, <1>7, <1>8 DEF BreakerInv

\* The routes' line about the kill file uses the tear up.
LEMMA LoggedPays ==
  ASSUME CountsInv, CountsInv', WebThreads = {}, BreakerInv, kill \/ unkill
  PROVE  BreakerInv'
<1>1. NumbersOK /\ NumbersOK'
  BY Numbers, NumbersNext
<1>2. /\ UNCHANGED <<today, day, fh, op, at, newDay, consecutiveErrors, signed, crashes>> /\ Logged
  BY DEF kill, unkill, control, history
<1>3. o' = o /\ p' = p /\ Pending' = Pending /\ Failing' = Failing /\ Errors' = Errors /\ Target' = Target
  BY <1>2 DEF o, p, Pending, Failing, Errors, Target
<1>4. CallInv'
  BY <1>2, <1>3 DEF BreakerInv, CallInv
<1>5. ledger'[today].txs = ledger[today].txs /\ Owed' <= Owed
  <2>1. CASE UNCHANGED files
    BY <1>1, <1>2, <2>1 DEF files, Owed, NumbersOK
  <2>2. CASE fh # Closed /\ Append(Record)
    <3>1. p \in {"check", "close", "body"}
      BY <2>2 DEF CountsInv, TypeInv, RollInv, Places, p, Threads
    <3>2. Record = ledger[day] /\ ledger[day] \in DayRecords
      BY <3>1, FileOpen
    <3>3. /\ ~torn'[day] /\ ledger'[day] = ledger[day]
          /\ \A d \in 1..Days : d # day => ledger'[d] = ledger[d] /\ torn'[d] = torn[d]
      BY <2>2, <3>1, <3>2, AppendIs
    <3>4. CASE today = day
      <4>1. Owed' = 0 /\ Owed \in 0..1
        BY <1>1, <1>2, <3>3, <3>4 DEF Owed, NumbersOK
      <4>2. QED
        BY <3>3, <3>4, <4>1
    <3>5. CASE today # day
      BY <1>1, <1>2, <3>3, <3>5 DEF Owed, NumbersOK
    <3>6. QED
      BY <3>4, <3>5
  <2>3. QED
    BY <1>2, <2>1, <2>2 DEF Logged
<1>6. ledger'[today].txs + Pending' + Owed >= ledger[today].txs + Pending + Owed'
  <2>1. ledger[today].txs \in Nat /\ Pending \in 0..1 /\ Owed \in 0..1 /\ Owed' \in 0..1
    BY <1>1 DEF NumbersOK
  <2>2. PICK x \in Nat : x = ledger[today].txs + Pending
    BY <2>1
  <2>3. QED
    BY <1>3, <1>5, <2>1, <2>2
<1>7. Errors' + Failing' >= Errors + Failing
  BY <1>1, <1>3, LimitsAssumption DEF NumbersOK
<1>8. QED
  BY <1>2, <1>4, <1>6, <1>7, QuietPays

\* Steps that sign and record nothing; midnight opens a day on which nothing went out.
LEMMA OthersPay ==
  ASSUME CountsInv, CountsInv', WebThreads = {}, BreakerInv,
         \/ \E call \in {"allow_tx", "mark_equity"} : KeeperCalls(call)
         \/ mark_engine_pol \/ Relaunch \/ Midnight \/ UNCHANGED vars
  PROVE  BreakerInv'
<1> USE DEF disk, files, counters, gates, history, control, Call
<1>1. NumbersOK /\ NumbersOK'
  BY Numbers, NumbersNext
<1>2. /\ ledger' = ledger /\ torn' = torn /\ signed' = signed /\ crashes' = crashes
      /\ consecutiveErrors' = consecutiveErrors /\ day' = day
  BY DEF KeeperCalls, mark_engine_pol, Relaunch, Midnight, vars
<1>3. ASSUME NEW call \in {"allow_tx", "mark_equity"}, KeeperCalls(call) PROVE BreakerInv'
  <2>1. o = "none" /\ o' = call /\ today' = today
    BY <1>3 DEF KeeperCalls, CountsInv, TypeInv, o, Threads
  <2>2. Pending' = Pending /\ Failing' = Failing /\ Errors' = Errors /\ Owed' = Owed
    BY <1>2, <2>1 DEF Pending, Failing, Errors, Owed
  <2>3. CallInv'
    BY <2>1 DEF CallInv
  <2>4. QED
    BY <1>1, <1>2, <2>1, <2>2, <2>3, QuietPays, LimitsAssumption DEF NumbersOK
<1>4. CASE mark_engine_pol \/ Relaunch \/ UNCHANGED vars
  <2>1. o' = o /\ p' = p /\ newDay' = newDay /\ today' = today
    BY <1>4 DEF mark_engine_pol, Relaunch, vars, o, p
  <2>2. Pending' = Pending /\ Failing' = Failing /\ Errors' = Errors /\ Target' = Target /\ Owed' = Owed
    BY <1>2, <2>1 DEF Pending, Failing, Errors, Target, Owed
  <2>3. CallInv'
    BY <1>2, <2>1, <2>2 DEF BreakerInv, CallInv
  <2>4. QED
    BY <1>1, <1>2, <2>1, <2>2, <2>3, QuietPays, LimitsAssumption DEF NumbersOK
<1>5. CASE Midnight
  <2>1. o' = o /\ today' = today + 1 /\ today \in 1..Days /\ today' \in 1..Days
    BY <1>1, <1>5 DEF Midnight, o, NumbersOK
  <2>2. signed'[today'] = 0
    BY <1>2, <2>1, BoundsAssumption DEF BreakerInv, NotYet
  <2>3. CallInv'
    BY <1>2, <2>1, <2>2 DEF BreakerInv, CallInv
  <2>4. NotYet'
    BY <1>2, <2>1, BoundsAssumption DEF BreakerInv, NotYet
  <2>5. BroadcastsBounded'
    BY <1>2 DEF BreakerInv, BroadcastsBounded
  <2> DEFINE x == ledger'[today'].txs + Pending' + 2 * crashes'
             e == Errors' + Failing'
  <2>6. x \in Nat /\ e \in Nat
    <3>1. ledger'[today'].txs \in Nat /\ 2 * crashes' \in Nat /\ Pending' \in 0..1
      BY <1>1 DEF NumbersOK
    <3>2. Errors' \in 0..MaxErrors /\ Failing' \in 0..1
      BY <1>1 DEF NumbersOK
    <3>3. x \in Nat
      BY <3>1
    <3>4. Errors' \in Nat /\ Failing' \in Nat
      BY <3>2, LimitsAssumption
    <3>5. e \in Nat
      BY <3>4, SumIsNat, Zenon
    <3>6. QED
      BY <3>3, <3>5
  <2>7. 0 <= Cap(x) + PerSend * e
    <3> HIDE DEF x, e
    <3>1. Cap(x) \in Nat
      BY <2>6, CapFacts
    <3>2. QED
      BY <2>6, <3>1 DEF PerSend
  <2>8. Paid'
    <3>1. ~torn[today']
      <4>1. today' > day
        BY <1>1, <2>1 DEF CountsInv, RollInv, NumbersOK
      <4>2. QED
        BY <2>1, <4>1 DEF CountsInv, RollInv
    <3>2. Owed' = 0
      BY <1>2, <3>1 DEF Owed
    <3>3. signed'[today'] + Cap(0) = 0
      BY <2>2, CapFacts
    <3> HIDE DEF x, e
    <3>4. QED
      BY <2>7, <3>2, <3>3 DEF Paid, x, e
  <2>9. QED
    BY <2>3, <2>4, <2>5, <2>8 DEF BreakerInv
<1>6. QED
  BY <1>3, <1>4, <1>5

LEMMA BreakerInit == ASSUME Init PROVE BreakerInv
<1>1. CountsInv
  BY CountsInit
<1>2. NumbersOK
  BY <1>1, Numbers
<1>3. o = "none" /\ p = "check" /\ \A d \in 1..Days : signed[d] = 0
  BY DEF Init, o, p, Threads
<1>4. CallInv /\ NotYet
  BY <1>3 DEF CallInv, NotYet
<1> DEFINE x == ledger[today].txs + Pending + 2 * crashes
           y == MaxTx + 2 * crashes
           e == Errors + Failing
<1>5. x \in Nat /\ y \in Nat /\ e \in Nat
  BY <1>2, LimitsAssumption DEF NumbersOK
<1>6. 0 <= Cap(x) + PerSend * e /\ 0 <= Cap(y)
  <2> HIDE DEF x, y, e
  <2>1. Cap(x) \in Nat /\ Cap(y) \in Nat
    BY <1>5, CapFacts
  <2>2. QED
    BY <1>5, <2>1 DEF PerSend
<1>7. Paid
  <2>1. Owed = 0 /\ Cap(0) = 0
    <3>1. torn[today] = FALSE
      BY <1>2 DEF Init, NumbersOK
    <3>2. QED
      BY <3>1, CapFacts DEF Owed
  <2>2. signed[today] + Cap(Owed) = 0
    BY <1>2, <1>3, <2>1 DEF NumbersOK
  <2> HIDE DEF x, e
  <2>3. QED
    BY <1>6, <2>2 DEF Paid, x, e
<1>8. BroadcastsBounded
  BY <1>3, <1>6 DEF BroadcastsBounded, Cap
<1>9. QED
  BY <1>4, <1>7, <1>8 DEF BreakerInv

LEMMA BreakerStep ==
  ASSUME CountsInv, CountsInv', WebThreads = {}, BreakerInv, [Next]_vars
  PROVE  BreakerInv'
<1>1. CASE KeeperStep
  BY <1>1, RollPays, SendPays, RecordsPay, OthersPay DEF KeeperStep
<1>2. CASE Relaunch \/ Midnight \/ UNCHANGED vars
  BY <1>2, OthersPay
<1>3. CASE Restart
  BY <1>3, RestartPays
<1>4. CASE kill \/ unkill
  BY <1>4, LoggedPays
<1>5. QED
  BY <1>1, <1>2, <1>3, <1>4 DEF Next
-----------------------------------------------------------------------------
\* Between two calls of the keeper the counters are those a replay of the day's ledger
\* file gives, but for what was glued to a torn line: two transactions at most.
THEOREM CountersAlways == ASSUME WebThreads = {} PROVE Spec => []CountersMatchLedger
<1>1. ASSUME CountsInv PROVE CountersMatchLedger
  <2> SUFFICES ASSUME Settled
               PROVE  IF day \in swallowed
                      THEN \E n \in 0..2 : /\ txCount = Readable(day).txs + n
                                           /\ gasPol = Readable(day).gas + n * GasPerTx
                      ELSE Readable(day) = [txs |-> txCount, gas |-> gasPol,
                                            open |-> equityOpen, last |-> equityLast]
    BY DEF CountersMatchLedger
  <2>1. p \in {"check", "close", "body"} /\ Unwritten = 0
    BY DEF Settled, Threads, Unwritten, o, p
  <2>2. Counted /\ Readable(day) \in DayRecords
    BY <1>1, <2>1, FileOpen DEF Readable
  <2>3. CASE day \in swallowed
    <3>1. PICK n \in 0..2 : Short(n + 0)
      BY <2>1, <2>2, <2>3 DEF Counted
    <3>2. QED
      BY <2>3, <3>1 DEF Short, Gas
  <2>4. CASE day \notin swallowed
    <3>1. Readable(day).txs \in Nat /\ Readable(day).gas \in Nat /\ Gas(0) = 0
      BY <2>2, RecordTypes, GasFacts
    <3>2. /\ txCount = Readable(day).txs + 0 /\ gasPol = Readable(day).gas + Gas(0)
          /\ equityOpen = Readable(day).open /\ equityLast = Readable(day).last
      BY <2>1, <2>2, <2>4 DEF Counted, Short
    <3>3. txCount = Readable(day).txs /\ gasPol = Readable(day).gas
      BY <3>1, <3>2
    <3>4. QED
      BY <2>2, <2>4, <3>2, <3>3 DEF DayRecords
  <2>5. QED
    BY <2>3, <2>4
<1>2. QED
  BY <1>1, CountsAlways, PTL

\* No day's ledger ever holds more transactions than max_tx_per_day, across
\* restarts, failures and day rolls in the middle of a send.
THEOREM TxBudgetAlways == ASSUME WebThreads = {} PROVE Spec => []TxBudgetHolds
<1>1. CountsInv => TxBudgetHolds
  BY DEF CountsInv, BudgetInv
<1>2. QED
  BY <1>1, CountsAlways, PTL

\* No exception of a recorder reaches the keeper's run(): its ledger file is open
\* at every write.
THEOREM KeeperAlwaysAlive == ASSUME WebThreads = {} PROVE Spec => []KeeperSurvives
<1>1. CountsInv => KeeperSurvives
  BY DEF CountsInv, TypeInv, KeeperSurvives
<1>2. QED
  BY <1>1, CountsAlways, PTL

\* What goes out on a day, recorded or not, is bounded by the breaker: max_tx_per_day
\* and two for each restart, times max_consecutive_errors of PerSend transactions.
THEOREM BroadcastsAlways == ASSUME WebThreads = {} PROVE Spec => []BroadcastsBounded
<1>1. ASSUME CountsInv, CountsInv', BreakerInv, [Next]_vars PROVE BreakerInv'
  BY <1>1, BreakerStep
<1>2. BreakerInv => BroadcastsBounded
  BY DEF BreakerInv
<1>3. Init => BreakerInv
  BY BreakerInit
<1>4. QED
  BY <1>1, <1>2, <1>3, CountsAlways, PTL DEF Spec
-----------------------------------------------------------------------------
(* The kill file, for any web threads: the gate is closed while it is      *)
(* there, so only the send already admitted can still go out.              *)
KillInv ==
  /\ op \in [Threads -> Calls \cup {"handler", "status"}]
  /\ sinceKill \in Nat
  /\ killFile => /\ sinceKill <= PerSend
                 /\ op[Keeper] = "send" => sinceKill = 0

LEMMA KillStep == KillInv /\ [Next]_vars => KillInv'
<1> SUFFICES ASSUME KillInv, [Next]_vars PROVE KillInv'
  OBVIOUS
<1> USE DEF KillInv, Calls, Call, Goto, disk, counters, gates, history, control, Threads
<1>1. ASSUME NEW t \in Threads, Roll(t) PROVE KillInv'
  BY <1>1 DEF Roll, RollCheck, RollClose, RollReset, RollReplay, RollOpen
<1>2. ASSUME NEW t \in WebThreads, WebCallsStatus(t) \/ status(t) PROVE KillInv'
  BY <1>2, ThreadsAssumption DEF ThreadsAssumption, WebCallsStatus, status
<1>3. CASE allow_tx \/ record_tx \/ \E call \in {"allow_tx", "mark_equity"} : KeeperCalls(call)
  BY <1>3 DEF allow_tx, Allowed, record_tx, KeeperCalls
<1>4. ASSUME NEW n \in 0..2, Broadcast(n), op[Keeper] = "send", UNCHANGED killFile,
             Call(Keeper, "record_tx") \/ Call(Keeper, "record_error")
      PROVE  KillInv'
  <2>1. sinceKill' \in Nat /\ (killFile' => sinceKill' <= 2)
    BY <1>4 DEF Broadcast
  <2>2. op' \in [Threads -> Calls \cup {"handler", "status"}] /\ op'[Keeper] # "send"
    BY <1>4
  <2>3. QED
    BY <2>1, <2>2 DEF PerSend
<1>5. CASE SendSucceeds \/ SendFails
  BY <1>4, <1>5 DEF SendSucceeds, SendFails, PerSend
<1>6. ASSUME NEW rec, NEW n \in {"none", "handler"}, Write(rec, n), UNCHANGED <<killFile, sinceKill>>
      PROVE  KillInv'
  BY <1>6 DEF Write
<1>7. CASE \/ write_tx \/ record_fill \/ \E equity \in Equities : mark_equity(equity)
           \/ record_error("none", "handler") \/ record_error("record_error", "handler")
           \/ record_error("handler", "none")
  BY <1>6, <1>7 DEF write_tx, record_fill, mark_equity, record_error
<1>8. CASE mark_engine_pol \/ kill \/ unkill \/ Relaunch \/ Restart \/ Midnight \/ UNCHANGED vars
  BY <1>8 DEF mark_engine_pol, kill, unkill, Relaunch, Restart, Midnight, vars, PerSend
<1>9. QED
  BY <1>1, <1>2, <1>3, <1>5, <1>7, <1>8 DEF Next, KeeperStep, WebStep

\* However many web threads read the governor: after the kill file appears at most
\* the send already admitted goes out, also when the process restarts meanwhile.
THEOREM KillAlwaysHalts == Spec => []KillHaltsSigning
<1>1. Init => KillInv
  BY DEF Init, KillInv, Calls
<1>2. KillInv => KillHaltsSigning
  BY DEF KillInv, KillHaltsSigning
<1>3. QED
  BY <1>1, <1>2, KillStep, PTL DEF Spec
-----------------------------------------------------------------------------
(* The breaker, for any web threads.  An admitted send was admitted with    *)
(* the breaker closed, and it alone records a success: once the breaker is  *)
(* open nothing goes out any more, and nothing but a restart closes it.     *)
OpenInv ==
  /\ op \in [Threads -> Calls \cup {"handler", "status"}]
  /\ consecutiveErrors \in 0..Failures
  /\ op[Keeper] = "send" => consecutiveErrors < MaxErrors

\* Unless the process restarts, an open breaker stays open and nothing is broadcast.
OpenStep ==
  (consecutiveErrors >= MaxErrors /\ crashes' = crashes) => (consecutiveErrors' >= MaxErrors /\ signed' = signed)

LEMMA OpenNext == OpenInv /\ [Next]_vars => OpenInv' /\ OpenStep
<1> SUFFICES ASSUME OpenInv, [Next]_vars PROVE OpenInv' /\ OpenStep
  OBVIOUS
<1> USE LimitsAssumption, BoundsAssumption DEF OpenInv, OpenStep, Calls, Call, Goto, disk, counters, gates, history, control, Threads
<1>1. ASSUME NEW t \in Threads, Roll(t) PROVE OpenInv' /\ OpenStep
  BY <1>1 DEF Roll, RollCheck, RollClose, RollReset, RollReplay, RollOpen
<1>2. ASSUME NEW t \in WebThreads, WebCallsStatus(t) \/ status(t) PROVE OpenInv' /\ OpenStep
  BY <1>2, ThreadsAssumption DEF ThreadsAssumption, WebCallsStatus, status
<1>3. CASE allow_tx \/ record_tx \/ \E call \in {"allow_tx", "mark_equity"} : KeeperCalls(call)
  BY <1>3 DEF allow_tx, Allowed, record_tx, KeeperCalls
<1>4. CASE SendSucceeds \/ SendFails
  <2>1. op[Keeper] = "send" /\ consecutiveErrors < MaxErrors
    BY <1>4 DEF SendSucceeds, SendFails
  <2>2. op' \in [Threads -> Calls \cup {"handler", "status"}] /\ op'[Keeper] # "send"
    BY <1>4 DEF SendSucceeds, SendFails
  <2>3. consecutiveErrors' \in {0, consecutiveErrors}
    BY <1>4 DEF SendSucceeds, SendFails
  <2>4. QED
    BY <2>1, <2>2, <2>3
<1>5. ASSUME NEW rec, NEW n \in {"none", "handler"}, Write(rec, n), UNCHANGED signed,
             consecutiveErrors' \in {consecutiveErrors, IF consecutiveErrors < Failures THEN consecutiveErrors + 1 ELSE Failures}
      PROVE  OpenInv' /\ OpenStep
  <2>1. op' \in [Threads -> Calls \cup {"handler", "status"}] /\ op'[Keeper] # "send"
    BY <1>5 DEF Write
  <2>2. consecutiveErrors' \in 0..Failures /\ consecutiveErrors' >= consecutiveErrors
    BY <1>5
  <2>3. QED
    BY <1>5, <2>1, <2>2
<1>6. CASE \/ write_tx \/ record_fill \/ \E equity \in Equities : mark_equity(equity)
           \/ record_error("none", "handler") \/ record_error("record_error", "handler")
           \/ record_error("handler", "none")
  BY <1>5, <1>6 DEF write_tx, record_fill, mark_equity, record_error
<1>7. CASE mark_engine_pol \/ kill \/ unkill \/ Relaunch \/ Midnight \/ UNCHANGED vars
  BY <1>7 DEF mark_engine_pol, kill, unkill, Relaunch, Midnight, vars
<1>8. CASE Restart
  <2>1. op' \in [Threads -> Calls \cup {"handler", "status"}] /\ op'[Keeper] = "none" /\ consecutiveErrors' = 0
    BY <1>8 DEF Restart
  <2>2. OpenInv'
    BY <2>1
  <2>3. crashes' # crashes
    BY <1>8 DEF Restart
  <2>4. QED
    BY <2>2, <2>3
<1>9. QED
  BY <1>1, <1>2, <1>3, <1>4, <1>6, <1>7, <1>8 DEF Next, KeeperStep, WebStep

\* risk.py:12 says the breaker "closes on success".  However many web threads read the
\* governor and whatever the limits, an open breaker lets no transaction out, so that no
\* success ever comes and only a restart of the process closes it.
THEOREM OpenBreakerStays == Spec => [][OpenStep]_vars
<1>1. Init => OpenInv
  BY LimitsAssumption, BoundsAssumption DEF Init, OpenInv, Calls, Threads
<1>2. QED
  BY <1>1, OpenNext, PTL DEF Spec
-----------------------------------------------------------------------------
(* Racing day rolls, for any web threads.  A thread that resets the        *)
(* counters after another rolled the day gives the keeper MaxTx more.      *)
Inside == {"close", "reset", "replay", "open"}

\* Every roll is over by the next midnight.
RollsEndByMidnight == [][Midnight => \A t \in Threads : at[t] \notin Inside]_vars

\* Web threads that can still reset the counters of the day, and what the others allow.
Late == {t \in WebThreads : at[t] \in {"close", "reset"}}
Resets == Cardinality(IF day = today THEN WebThreads \ Late ELSE WebThreads)
Room == MaxTx * Resets

Written == IF op[Keeper] = "write_tx" THEN 1 ELSE 0
Held == IF op[Keeper] \in {"send", "record_tx", "write_tx"} THEN 1 ELSE 0

\* The transactions a replay of each day's file reads.
Spent == [d \in 1..Days |-> Readable(d).txs]

RaceFiles ==
  /\ ledger \in [1..Days -> DayRecords] /\ tail \in [1..Days -> DayRecords] /\ torn \in [1..Days -> BOOLEAN]
  /\ \A d \in 1..Days : ledger[d].txs <= Spent[d]

RaceTypes ==
  /\ today \in 1..Days /\ day \in 1..Days /\ txCount \in Nat
  /\ RaceFiles
  /\ op \in [Threads -> Calls \cup {"handler", "status"}]
  /\ at \in [Threads -> Places] /\ newDay \in [Threads -> 1..Days]

RaceRolls ==
  /\ day <= today /\ fh \in {Closed, day}
  /\ \A t \in Threads : at[t] \in Inside => newDay[t] = today /\ Rolling(t)
  /\ \A t \in Threads : at[t] \in {"reset", "replay", "open"} =>
                            day = today \/ (at[t] = "reset" /\ fh = Closed)
  /\ fh = Closed => \E t \in Threads : at[t] \in Inside \ {"close"}
  /\ \A t \in WebThreads : op[t] \in {"none", "status"}

\* Later days have no transactions yet, nor has the day the keeper is about to enter.
RaceLedger ==
  /\ \A d \in 1..Days : d > day => Spent[d] = 0
  /\ at[Keeper] \in {"close", "reset"} => Spent[today] = 0

SpentBounded == \A d \in 1..Days : Spent[d] <= MaxTx * (1 + Cardinality(WebThreads))

RaceSpend ==
  /\ Spent[day] + Written <= txCount + Room
  /\ Spent[day] + Held <= MaxTx + Room
  /\ SpentBounded

RaceInv == RaceTypes /\ RaceRolls /\ RaceLedger /\ RaceSpend
-----------------------------------------------------------------------------
LEMMA WebFinite ==
  ASSUME NEW S \in SUBSET WebThreads
  PROVE  IsFiniteSet(S) /\ Cardinality(S) \in Nat /\ Cardinality(S) <= Cardinality(WebThreads)
         /\ Cardinality(WebThreads) \in Nat
<1>1. IsFiniteSet(WebThreads)
  BY ThreadsAssumption DEF ThreadsAssumption
<1>2. QED
  BY <1>1, FS_Subset, FS_CardinalityType

LEMMA Spending ==
  /\ MaxTx \in Nat /\ MaxTx >= 1
  /\ \A n \in Nat : MaxTx * n \in Nat /\ MaxTx * (1 + n) = MaxTx + MaxTx * n /\ MaxTx * (n + 1) = MaxTx * n + MaxTx
  /\ \A m, n \in Nat : m <= n => MaxTx * m <= MaxTx * n
<1>1. MaxTx \in Nat /\ MaxTx >= 1
  BY LimitsAssumption
<1>2. \A n \in Nat : MaxTx * n \in Nat /\ MaxTx * (1 + n) = MaxTx + MaxTx * n /\ MaxTx * (n + 1) = MaxTx * n + MaxTx
  BY <1>1
<1>3. ASSUME NEW m \in Nat, NEW n \in Nat, m <= n PROVE MaxTx * m <= MaxTx * n
  <2>1. PICK k \in Nat : n = m + k
    BY <1>3
  <2>2. MaxTx * n = MaxTx * m + MaxTx * k /\ MaxTx * k \in Nat /\ MaxTx * m \in Nat
    BY <1>1, <2>1
  <2>3. QED
    BY <2>2
<1>4. QED
  BY <1>1, <1>2, <1>3

LEMMA RoomFacts ==
  /\ Resets \in Nat /\ Room \in Nat /\ Resets <= Cardinality(WebThreads)
  /\ MaxTx + Room <= MaxTx * (1 + Cardinality(WebThreads))
<1>1. Resets \in Nat /\ Resets <= Cardinality(WebThreads) /\ Cardinality(WebThreads) \in Nat
  BY WebFinite DEF Resets
<1>2. Room \in Nat /\ Room <= MaxTx * Cardinality(WebThreads)
  BY <1>1, Spending DEF Room
<1>3. MaxTx * (1 + Cardinality(WebThreads)) = MaxTx + MaxTx * Cardinality(WebThreads)
      /\ MaxTx * Cardinality(WebThreads) \in Nat
  BY <1>1, Spending
<1>4. QED
  BY <1>1, <1>2, <1>3, Spending

LEMMA RaceSpent == RaceFiles => Spent \in [1..Days -> Nat]
  BY RecordTypes DEF RaceFiles, Spent, Readable

LEMMA RaceSpentNext == RaceFiles' => Spent' \in [1..Days -> Nat]
<1> SUFFICES ASSUME RaceFiles', NEW d \in 1..Days PROVE (IF torn'[d] THEN tail'[d] ELSE ledger'[d]).txs \in Nat
  BY DEF Spent, Readable
<1>1. tail'[d] \in DayRecords /\ ledger'[d] \in DayRecords
  BY DEF RaceFiles
<1>2. QED
  BY <1>1, RecordTypes

LEMMA RaceSame == RaceFiles /\ UNCHANGED files => RaceFiles' /\ Spent' = Spent
<1> SUFFICES ASSUME RaceFiles, UNCHANGED files PROVE RaceFiles' /\ Spent' = Spent
  OBVIOUS
<1>1. ledger' = ledger /\ tail' = tail /\ torn' = torn
  BY DEF files
<1>2. Spent' = Spent
  BY <1>1 DEF Spent, Readable
<1>3. QED
  BY <1>1, <1>2 DEF RaceFiles

\* After a record is appended a replay reads the ended lines, and the record if no torn
\* line was there.
LEMMA RaceAppend ==
  ASSUME RaceFiles, fh \in 1..Days, NEW rec \in DayRecords, Append(rec)
  PROVE  /\ RaceFiles' /\ Spent'[fh] = IF torn[fh] THEN ledger[fh].txs ELSE rec.txs
         /\ \A d \in 1..Days : d # fh => Spent'[d] = Spent[d]
<1>1. /\ ledger \in [1..Days -> DayRecords] /\ tail \in [1..Days -> DayRecords] /\ torn \in [1..Days -> BOOLEAN]
      /\ EmptyDay \in DayRecords
  BY DEF RaceFiles, EmptyDay, DayRecords, Equity
<1>2. /\ ledger' \in [1..Days -> DayRecords] /\ tail' \in [1..Days -> DayRecords] /\ torn' \in [1..Days -> BOOLEAN]
      /\ ~torn'[fh] /\ ledger'[fh] = IF torn[fh] THEN ledger[fh] ELSE rec
      /\ \A d \in 1..Days : d # fh => ledger'[d] = ledger[d] /\ torn'[d] = torn[d] /\ tail'[d] = tail[d]
  BY <1>1 DEF Append
<1>3. Spent' = [d \in 1..Days |-> (IF torn'[d] THEN tail'[d] ELSE ledger'[d]).txs]
  BY DEF Spent, Readable
<1>4. Spent = [d \in 1..Days |-> (IF torn[d] THEN tail[d] ELSE ledger[d]).txs]
  BY DEF Spent, Readable
<1>5. Spent'[fh] = ledger'[fh].txs /\ \A d \in 1..Days : d # fh => Spent'[d] = Spent[d]
  BY <1>2, <1>3, <1>4
<1>6. ASSUME NEW d \in 1..Days PROVE ledger'[d].txs <= Spent'[d]
  <2>1. CASE d = fh
    <3>1. ledger'[fh].txs \in Nat
      BY <1>2, RecordTypes
    <3>2. QED
      BY <1>5, <2>1, <3>1
  <2>2. CASE d # fh
    BY <1>2, <1>5, <2>2 DEF RaceFiles
  <2>3. QED
    BY <2>1, <2>2
<1>7. QED
  BY <1>2, <1>5, <1>6 DEF RaceFiles

LEMMA RaceInit == Init => RaceInv
<1> SUFFICES ASSUME Init PROVE RaceInv
  OBVIOUS
<1> USE DEF Init
<1>1. EmptyDay \in DayRecords /\ EmptyDay.txs = 0 /\ 1 \in 1..Days
  BY BoundsAssumption DEF EmptyDay, DayRecords, Equity
<1>2. RaceTypes
  <2>1. today \in 1..Days /\ day \in 1..Days /\ txCount \in Nat
    BY <1>1
  <2>2. RaceFiles
    BY <1>1, RecordTypes DEF RaceFiles, Spent, Readable
  <2>3. op \in [Threads -> Calls \cup {"handler", "status"}] /\ at \in [Threads -> Places]
    BY DEF Calls, Places
  <2>4. newDay \in [Threads -> 1..Days]
    BY <1>1
  <2>5. QED
    BY <2>1, <2>2, <2>3, <2>4 DEF RaceTypes
<1>3. RaceRolls /\ RaceLedger
  BY <1>1, ThreadsAssumption DEF ThreadsAssumption, RaceRolls, RaceLedger, Inside, Closed, Threads, Spent, Readable
<1>4. RaceSpend
  <2>1. Written = 0 /\ Held = 0 /\ txCount = 0 /\ Spent[day] = 0
    BY <1>1 DEF Written, Held, Threads, Spent, Readable
  <2>2. PICK r \in Nat : r = Room /\ MaxTx \in Nat /\ MaxTx + r <= MaxTx * (1 + Cardinality(WebThreads))
    BY RoomFacts, Spending
  <2>3. ASSUME NEW d \in 1..Days PROVE Spent[d] <= MaxTx * (1 + Cardinality(WebThreads))
    <3>1. PICK z : z = MaxTx * (1 + Cardinality(WebThreads))
      OBVIOUS
    <3>2. z \in Nat
      BY <3>1, WebFinite, Spending
    <3>3. Spent[d] = 0
      BY <1>1 DEF Spent, Readable
    <3>4. QED
      BY <3>1, <3>2, <3>3
  <2>4. SpentBounded
    BY <2>3 DEF SpentBounded
  <2>5. Spent[day] + Written <= txCount + Room
    BY <2>1, <2>2
  <2>6. Spent[day] + Held <= MaxTx + Room
    BY <2>1, <2>2
  <2>7. QED
    BY <2>4, <2>5, <2>6 DEF RaceSpend
<1>5. QED
  BY <1>2, <1>3, <1>4 DEF RaceInv

\* A step that spends nothing and moves no thread in or out of a roll.
LEMMA RaceQuiet ==
  ASSUME RaceInv, RaceTypes', UNCHANGED <<today, day, fh, txCount, newDay>>,
         \A d \in 1..Days : Spent'[d] <= Spent[d],
         \A t \in Threads : /\ at'[t] = at[t] \/ (at[t] \notin Inside /\ at'[t] \notin Inside)
                            /\ at[t] \in Inside => op'[t] = op[t],
         \A t \in WebThreads : op'[t] \in {"none", "status"},
         Spent[day] + Held' <= MaxTx + Room, Written' <= Written
  PROVE  RaceInv'
<1>1. Late' = Late
  BY DEF Late, Threads, Inside
<1>2. Room' = Room
  BY <1>1 DEF Room, Resets
<1>3. RaceRolls'
  BY DEF RaceInv, RaceRolls, Inside, Rolling
<1>0. Spent \in [1..Days -> Nat] /\ Spent' \in [1..Days -> Nat]
  BY RaceSpent, RaceSpentNext DEF RaceInv, RaceTypes
<1>4. RaceLedger'
  <2>0. \A d \in 1..Days : Spent'[d] \in Nat /\ Spent[d] \in Nat /\ Spent'[d] <= Spent[d]
    BY <1>0
  <2>1. today \in 1..Days /\ \A d \in 1..Days : Spent[d] = 0 => Spent'[d] = 0
    BY <2>0 DEF RaceInv, RaceTypes
  <2>2. at'[Keeper] \in {"close", "reset"} => at[Keeper] \in {"close", "reset"}
    BY DEF Inside, Threads
  <2>3. QED
    BY <2>1, <2>2 DEF RaceInv, RaceLedger
<1>5. RaceSpend'
  <2>1. Spent[day] \in Nat /\ txCount \in Nat /\ Written \in 0..1 /\ Written' \in 0..1 /\ Held' \in 0..1
        /\ Spent'[day'] <= Spent[day] /\ Spent'[day'] \in Nat
    BY <1>0 DEF RaceInv, RaceTypes, Written, Held
  <2>2. (Spent[day] + Written <= txCount + Room)'
    BY <1>2, <2>1, RoomFacts DEF RaceInv, RaceSpend
  <2>3. (Spent[day] + Held <= MaxTx + Room)'
    BY <1>2, <2>1, RoomFacts, Spending
  <2>4. SpentBounded'
    <3>1. PICK z \in Nat : z = MaxTx * (1 + Cardinality(WebThreads))
      BY WebFinite, Spending
    <3>2. \A d \in 1..Days : Spent[d] <= z
      BY <3>1 DEF RaceInv, RaceSpend, SpentBounded
    <3>3. \A d \in 1..Days : Spent'[d] <= z
      BY <1>0, <3>1, <3>2
    <3>4. QED
      BY <3>1, <3>3 DEF SpentBounded
  <2>5. QED
    BY <2>2, <2>3, <2>4 DEF RaceSpend
<1>6. QED
  BY <1>3, <1>4, <1>5 DEF RaceInv

\* A call that begins or ends at thread t, outside any roll.
LEMMA RaceCalls ==
  ASSUME RaceInv, NEW t \in Threads, NEW n \in Calls \cup {"handler", "status"},
         Call(t, n), at[t] \notin Inside, t \in WebThreads => n \in {"none", "status"},
         UNCHANGED <<today, day, fh, txCount>>,
         RaceFiles', \A d \in 1..Days : Spent'[d] <= Spent[d],
         Spent[day] + Held' <= MaxTx + Room, Written' <= Written
  PROVE  RaceInv'
<1> USE DEF Call
<1>1. RaceTypes'
  BY DEF RaceInv, RaceTypes, Places
<1>2. ASSUME NEW u \in Threads
      PROVE  /\ at'[u] = at[u] \/ (at[u] \notin Inside /\ at'[u] \notin Inside)
             /\ at[u] \in Inside => op'[u] = op[u]
  BY DEF RaceInv, RaceTypes, Inside
<1>3. \A u \in WebThreads : op'[u] \in {"none", "status"}
  BY DEF RaceInv, RaceTypes, RaceRolls, Threads
<1>4. QED
  BY <1>1, <1>2, <1>3, RaceQuiet

\* Who is outside a roll, and what the keeper holds by the call it is in.
LEMMA RaceOutside ==
  ASSUME RaceInv, NEW t \in Threads, ~Rolling(t) \/ at[t] = "body"
  PROVE  at[t] \notin Inside
  BY DEF RaceInv, RaceRolls, Inside

LEMMA RaceNumbers ==
  ASSUME RaceInv
  PROVE  /\ Spent[day] \in Nat /\ txCount \in Nat /\ Held \in 0..1 /\ Written \in 0..1
         /\ MaxTx \in Nat /\ Room \in Nat /\ Written <= Held
         /\ Spent[day] + Written <= txCount + Room
         /\ Spent[day] + Held <= MaxTx + Room
<1>1. Spent[day] \in Nat
  BY RaceSpent DEF RaceInv, RaceTypes
<1>2. QED
  BY <1>1, RoomFacts, Spending DEF RaceInv, RaceTypes, RaceSpend, Held, Written

LEMMA RaceCallSteps ==
  ASSUME RaceInv,
         \/ allow_tx \/ SendSucceeds \/ SendFails
         \/ \E call \in {"allow_tx", "mark_equity"} : KeeperCalls(call)
         \/ \E t \in WebThreads : WebCallsStatus(t) \/ status(t)
  PROVE  RaceInv'
<1> USE DEF disk, counters, history, Call
<1>2. Keeper \in Threads /\ WebThreads \subseteq Threads /\ Keeper \notin WebThreads
  BY ThreadsAssumption DEF ThreadsAssumption, Threads
<1>3. ASSUME UNCHANGED files PROVE RaceFiles' /\ \A d \in 1..Days : Spent'[d] <= Spent[d]
  <2>1. RaceFiles' /\ Spent' = Spent /\ Spent \in [1..Days -> Nat]
    BY <1>3, RaceSame, RaceSpent DEF RaceInv, RaceTypes
  <2>2. QED
    BY <2>1
<1>4. CASE allow_tx
  <2>1. at[Keeper] \notin Inside /\ Held = 0 /\ Written = 0
    BY <1>4 DEF allow_tx, In, Inside, Held, Written
  <2>2. PICK n \in {"send", "none"} : Call(Keeper, n) /\ (n = "send" => txCount < MaxTx)
    BY <1>4 DEF allow_tx, Allowed
  <2>3. op'[Keeper] = n
    BY <1>2, <2>2 DEF RaceInv, RaceTypes
  <2>4. Written' = 0 /\ Held' = IF n = "send" THEN 1 ELSE 0
    BY <2>2, <2>3 DEF Written, Held
  <2>5. Spent[day] + Held' <= MaxTx + Room
    BY <2>1, <2>2, <2>4, RaceNumbers
  <2>6. n \in Calls \cup {"handler", "status"}
    BY <2>2 DEF Calls
  <2>7. UNCHANGED <<today, day, fh, txCount, files>>
    BY <1>4 DEF allow_tx
  <2>8. Written' <= Written
    BY <2>1, <2>4
  <2>9. QED
    BY <1>2, <1>3, <2>1, <2>2, <2>5, <2>6, <2>7, <2>8, RaceCalls
<1>5. ASSUME NEW n \in {"record_tx", "record_error"}, Call(Keeper, n), op[Keeper] = "send",
             UNCHANGED <<today, day, fh, txCount, files>>
      PROVE  RaceInv'
  <2>1. at[Keeper] \notin Inside
    BY <1>2, <1>5, RaceOutside DEF Rolling
  <2>2. op'[Keeper] = n
    BY <1>2, <1>5 DEF RaceInv, RaceTypes
  <2>3. Held = 1 /\ Written = 0 /\ Written' = 0 /\ Held' \in 0..1
    BY <1>5, <2>2 DEF Held, Written
  <2>4. Spent[day] + Held' <= MaxTx + Room
    BY <2>3, RaceNumbers
  <2>5. n \in Calls \cup {"handler", "status"}
    BY DEF Calls
  <2>6. Written' <= Written
    BY <2>3
  <2>7. QED
    BY <1>2, <1>3, <1>5, <2>1, <2>4, <2>5, <2>6, RaceCalls
<1>6. CASE SendSucceeds \/ SendFails
  BY <1>5, <1>6 DEF SendSucceeds, SendFails
<1>7. ASSUME NEW call \in {"allow_tx", "mark_equity"}, KeeperCalls(call) PROVE RaceInv'
  <2>1. Call(Keeper, call) /\ op[Keeper] = "none" /\ UNCHANGED <<today, day, fh, txCount, files>>
    BY <1>7 DEF KeeperCalls
  <2>2. at[Keeper] \notin Inside
    BY <1>2, <2>1, RaceOutside DEF Rolling
  <2>3. op'[Keeper] = call
    BY <1>2, <2>1 DEF RaceInv, RaceTypes
  <2>4. Held = 0 /\ Written = 0 /\ Written' = 0 /\ Held' = 0
    BY <2>1, <2>3 DEF Held, Written
  <2>5. Spent[day] + Held' <= MaxTx + Room
    BY <2>4, RaceNumbers
  <2>6. call \in Calls \cup {"handler", "status"}
    BY DEF Calls
  <2>7. Written' <= Written
    BY <2>4
  <2>8. QED
    BY <1>2, <1>3, <2>1, <2>2, <2>5, <2>6, <2>7, RaceCalls
<1>8. ASSUME NEW t \in WebThreads, WebCallsStatus(t) \/ status(t) PROVE RaceInv'
  <2>1. PICK n \in {"none", "status"} : Call(t, n)
    BY <1>8 DEF WebCallsStatus, status
  <2>2. at[t] \notin Inside /\ UNCHANGED <<today, day, fh, txCount, files>>
    <3>1. ~Rolling(t) \/ at[t] = "body"
      BY <1>8 DEF WebCallsStatus, status, In, Rolling
    <3>2. QED
      BY <1>2, <1>8, <3>1, RaceOutside DEF WebCallsStatus, status
  <2>3. op'[Keeper] = op[Keeper]
    BY <1>2, <2>1 DEF RaceInv, RaceTypes
  <2>4. Held' = Held /\ Written' = Written
    BY <2>3 DEF Held, Written
  <2>5. Spent[day] + Held' <= MaxTx + Room
    BY <2>4, RaceNumbers
  <2>6. Written' <= Written
    BY <2>4, RaceNumbers
  <2>7. n \in Calls \cup {"handler", "status"} /\ t \in Threads
    BY <1>2 DEF Calls
  <2>8. QED
    BY <1>3, <2>1, <2>2, <2>5, <2>6, <2>7, RaceCalls
<1>9. QED
  BY <1>4, <1>6, <1>7, <1>8


\* A recorder whose record leaves the day's transactions as they were.
LEMMA RaceWrites ==
  ASSUME RaceInv, NEW rec, NEW n \in {"none", "handler"}, Write(rec, n), at[Keeper] \notin Inside,
         fh # Closed => rec \in DayRecords /\ rec.txs = ledger[day].txs,
         UNCHANGED <<today, day, fh, txCount>>
  PROVE  RaceInv'
<1>1. PICK m \in {"none", "handler"} : Call(Keeper, m)
  BY DEF Write
<1>2. day \in 1..Days /\ fh \in {Closed, day}
  BY DEF RaceInv, RaceTypes, RaceRolls
<1>3. RaceFiles' /\ \A d \in 1..Days : Spent'[d] <= Spent[d]
  <2>0. RaceFiles /\ Spent \in [1..Days -> Nat]
    BY RaceSpent DEF RaceInv, RaceTypes
  <2>1. CASE fh = Closed
    <3>1. UNCHANGED files
      BY <2>1 DEF Write
    <3>2. RaceFiles' /\ Spent' = Spent
      BY <2>0, <3>1, RaceSame
    <3>3. QED
      BY <2>0, <3>2
  <2>2. CASE fh # Closed
    <3>1. Append(rec) /\ fh = day
      BY <1>2, <2>2 DEF Write
    <3>2. /\ RaceFiles' /\ Spent'[day] = IF torn[day] THEN ledger[day].txs ELSE rec.txs
          /\ \A d \in 1..Days : d # day => Spent'[d] = Spent[d]
      BY <1>2, <2>0, <2>2, <3>1, RaceAppend
    <3>3. Spent'[day] <= Spent[day]
      BY <1>2, <2>0, <2>2, <3>2 DEF RaceFiles
    <3>4. QED
      BY <2>0, <3>2, <3>3
  <2>3. QED
    BY <2>1, <2>2
<1>4. op'[Keeper] = m
  BY <1>1 DEF RaceInv, RaceTypes, Call, Threads
<1>5. Held' = 0 /\ Written' = 0
  BY <1>4 DEF Held, Written
<1>6. Spent[day] + Held' <= MaxTx + Room
  BY <1>5, RaceNumbers
<1>7. Written' <= Written
  BY <1>5, RaceNumbers
<1>8. Keeper \in Threads /\ Keeper \notin WebThreads /\ m \in Calls \cup {"handler", "status"}
  BY ThreadsAssumption DEF ThreadsAssumption, Threads, Calls
<1>9. QED
  BY <1>1, <1>3, <1>6, <1>7, <1>8, RaceCalls

\* The transaction counted goes to the day's file; on a closed one it is lost.
LEMMA RaceWriteTx ==
  ASSUME RaceInv, write_tx
  PROVE  RaceInv'
<1> DEFINE rec == WithTx(Record)
<1>1. op[Keeper] = "write_tx" /\ Write(rec, "handler") /\ UNCHANGED <<today, day, fh, txCount>>
  BY DEF write_tx, counters
<1>2. Keeper \in Threads /\ at[Keeper] \notin Inside
  BY <1>1, RaceOutside DEF Rolling, Threads
<1>3. CASE fh = Closed
  <2> HIDE DEF rec
  <2>1. QED
    BY <1>1, <1>2, <1>3, RaceWrites
<1>4. CASE fh # Closed
  <2>1. /\ RaceFiles /\ day \in 1..Days /\ fh = day /\ Record = ledger[day] /\ ledger[day] \in DayRecords
        /\ Spent \in [1..Days -> Nat]
    BY <1>4, RaceSpent DEF RaceInv, RaceTypes, RaceRolls, RaceFiles, Record
  <2>2. rec \in DayRecords /\ rec.txs = ledger[day].txs + 1 /\ ledger[day].txs \in Nat
    BY <2>1, TxLine, RecordTypes
  <2> HIDE DEF rec
  <2>3. Append(rec)
    BY <1>1, <1>4 DEF Write
  <2>4. Call(Keeper, "none")
    BY <1>1, <1>4 DEF Write
  <2>5. /\ RaceFiles' /\ \A d \in 1..Days : d # day => Spent'[d] = Spent[d]
        /\ Spent'[day] \in Nat /\ Spent'[day] <= Spent[day] + 1 /\ Spent[day] \in Nat
    <3>1. /\ RaceFiles' /\ Spent'[day] = IF torn[day] THEN ledger[day].txs ELSE rec.txs
          /\ \A d \in 1..Days : d # day => Spent'[d] = Spent[d]
      BY <2>1, <2>2, <2>3, RaceAppend
    <3>2. ledger[day].txs <= Spent[day]
      BY <2>1 DEF RaceFiles
    <3>3. QED
      BY <2>1, <2>2, <3>1, <3>2
  <2>6. Keeper \notin WebThreads /\ WebThreads \subseteq Threads
    BY ThreadsAssumption DEF ThreadsAssumption, Threads
  <2>7. /\ op' = [op EXCEPT ![Keeper] = "none"] /\ at' = [at EXCEPT ![Keeper] = "check"]
        /\ newDay' = newDay /\ op'[Keeper] = "none"
    BY <1>2, <2>4 DEF Call, RaceInv, RaceTypes
  <2>8. RaceTypes'
    BY <1>1, <2>5, <2>7 DEF RaceInv, RaceTypes, Calls, Places
  <2>9. RaceRolls'
    BY <1>1, <1>2, <2>6, <2>7 DEF RaceInv, RaceTypes, RaceRolls, Rolling, Inside
  <2>10. RaceLedger'
    BY <1>1, <1>2, <2>5, <2>7 DEF RaceInv, RaceTypes, RaceLedger
  <2>11. Late' = Late
    BY <2>6, <2>7 DEF Late, RaceInv, RaceTypes
  <2>12. Room' = Room
    BY <1>1, <2>11 DEF Room, Resets
  <2>13. Held = 1 /\ Written = 1 /\ Held' = 0 /\ Written' = 0
    BY <1>1, <2>7 DEF Held, Written
  <2>14. day' = day /\ txCount' = txCount
    BY <1>1
  <2>15. RaceSpend'
    <3>1. (Spent[day] + Written <= txCount + Room)'
      BY <2>5, <2>12, <2>13, <2>14, RaceNumbers
    <3>2. (Spent[day] + Held <= MaxTx + Room)'
      BY <2>5, <2>12, <2>13, <2>14, RaceNumbers
    <3>3. SpentBounded'
      <4>1. PICK z : z = MaxTx * (1 + Cardinality(WebThreads))
        OBVIOUS
      <4>2. z \in Nat /\ MaxTx + Room <= z
        BY <4>1, WebFinite, Spending, RoomFacts
      <4>3. Spent'[day] <= z
        BY <2>5, <2>13, <4>2, RaceNumbers
      <4>4. \A d \in 1..Days : Spent[d] <= z
        BY <4>1 DEF RaceInv, RaceSpend, SpentBounded
      <4>5. \A d \in 1..Days : Spent'[d] <= z
        BY <2>5, <4>3, <4>4
      <4>6. QED
        BY <4>1, <4>5 DEF SpentBounded
    <3>4. QED
      BY <3>1, <3>2, <3>3 DEF RaceSpend
  <2>16. QED
    BY <2>8, <2>9, <2>10, <2>15 DEF RaceInv
<1>5. QED
  BY <1>3, <1>4

LEMMA RaceRecords ==
  ASSUME RaceInv, record_fill
         \/ record_error("none", "handler") \/ record_error("record_error", "handler")
         \/ record_error("handler", "none") \/ \E equity \in Equities : mark_equity(equity)
  PROVE  RaceInv'
<1> USE DEF counters
<1>1. Keeper \in Threads /\ ledger \in [1..Days -> DayRecords] /\ day \in 1..Days /\ fh \in {Closed, day}
  BY DEF RaceInv, RaceTypes, RaceFiles, RaceRolls, Threads
<1>2. fh # Closed => Record = ledger[day] /\ ledger[day] \in DayRecords
  BY <1>1 DEF Record
<1>3. CASE record_fill
  <2>1. Write(Record, "handler") /\ ~Rolling(Keeper) /\ UNCHANGED <<today, day, fh, txCount>>
    BY <1>3 DEF record_fill, Rolling
  <2>2. QED
    BY <1>1, <1>2, <2>1, RaceOutside, RaceWrites
<1>4. ASSUME NEW from \in {"none", "record_error", "handler"}, NEW next \in {"none", "handler"},
             record_error(from, next)
      PROVE  RaceInv'
  <2>1. Write(Record, next) /\ ~Rolling(Keeper) /\ UNCHANGED <<today, day, fh, txCount>>
    BY <1>4 DEF record_error, Rolling
  <2>2. QED
    BY <1>1, <1>2, <2>1, RaceOutside, RaceWrites
<1>5. ASSUME NEW equity \in Equities, mark_equity(equity) PROVE RaceInv'
  <2> DEFINE rec == WithEquity(Record, equity)
  <2>1. Write(rec, "none") /\ at[Keeper] \notin Inside /\ UNCHANGED <<today, day, fh, txCount>>
    BY <1>1, <1>5, RaceOutside DEF mark_equity, In, Inside
  <2>2. fh # Closed => rec \in DayRecords /\ rec.txs = ledger[day].txs
    BY <1>2, EquityLine
  <2> HIDE DEF rec
  <2>3. QED
    BY <2>1, <2>2, RaceWrites
<1>6. QED
  BY <1>3, <1>4, <1>5

\* The transaction is counted, and still to be written.
LEMMA RaceRecordTx ==
  ASSUME RaceInv, record_tx
  PROVE  RaceInv'
<1>1. /\ op[Keeper] = "record_tx" /\ at[Keeper] = "body" /\ txCount' = txCount + 1 /\ Call(Keeper, "write_tx")
      /\ UNCHANGED <<today, day, fh>> /\ RaceFiles' /\ Spent' = Spent
  BY RaceSame DEF record_tx, In, disk, RaceInv, RaceTypes
<1>2. Keeper \in Threads /\ Keeper \notin WebThreads /\ WebThreads \subseteq Threads
  BY ThreadsAssumption DEF ThreadsAssumption, Threads
<1>3. /\ op' = [op EXCEPT ![Keeper] = "write_tx"] /\ at' = [at EXCEPT ![Keeper] = "check"]
      /\ newDay' = newDay /\ op'[Keeper] = "write_tx"
  BY <1>1, <1>2 DEF Call, RaceInv, RaceTypes
<1>4. RaceTypes'
  BY <1>1, <1>3 DEF RaceInv, RaceTypes, Calls, Places
<1>5. RaceRolls'
  BY <1>1, <1>2, <1>3 DEF RaceInv, RaceTypes, RaceRolls, Rolling, Inside
<1>6. RaceLedger'
  BY <1>1, <1>2, <1>3 DEF RaceInv, RaceTypes, RaceLedger
<1>7. Late' = Late
  BY <1>2, <1>3 DEF Late, RaceInv, RaceTypes
<1>8. Room' = Room
  BY <1>1, <1>7 DEF Room, Resets
<1>9. Held = 1 /\ Written = 0 /\ Held' = 1 /\ Written' = 1
  BY <1>1, <1>3 DEF Held, Written
<1>10. (Spent[day] + Written <= txCount + Room)'
  BY <1>1, <1>8, <1>9, RaceNumbers
<1>11. (Spent[day] + Held <= MaxTx + Room)'
  BY <1>1, <1>8, <1>9, RaceNumbers
<1>12. SpentBounded'
  BY <1>1 DEF RaceInv, RaceSpend, SpentBounded
<1>13. QED
  BY <1>4, <1>5, <1>6, <1>10, <1>11, <1>12 DEF RaceInv, RaceSpend


\* The counters and the room they leave, after a step of a roll.
LEMMA RaceRollSpend ==
  ASSUME RaceInv, RaceTypes', UNCHANGED <<today, day, op>>, Spent' = Spent, Room' = Room, txCount' >= txCount
  PROVE  RaceSpend'
<1>1. Held' = Held /\ Written' = Written
  BY DEF Held, Written
<1>2. txCount' \in Nat
  BY DEF RaceTypes
<1>3. (Spent[day] + Written <= txCount + Room)'
  BY <1>1, <1>2, RaceNumbers
<1>4. (Spent[day] + Held <= MaxTx + Room)'
  BY <1>1, RaceNumbers
<1>5. SpentBounded'
  BY DEF RaceInv, RaceSpend, SpentBounded
<1>6. QED
  BY <1>3, <1>4, <1>5 DEF RaceSpend

\* All steps of a roll but the reset of the counters.
LEMMA RaceRollSteps ==
  ASSUME RaceInv, NEW t \in Threads, RollCheck(t) \/ RollClose(t) \/ RollReplay(t) \/ RollOpen(t)
  PROVE  RaceInv'
<1> USE DEF disk, counters, Goto
<1>1. RaceFiles' /\ Spent' = Spent /\ today' = today /\ day' = day /\ op' = op
  BY RaceSame DEF RollCheck, RollClose, RollReplay, RollOpen, RaceInv, RaceTypes
<1>2. WebThreads \subseteq Threads /\ today \in 1..Days /\ day \in 1..Days /\ txCount \in Nat
  BY DEF Threads, RaceInv, RaceTypes
<1>3. CASE RollCheck(t)
  <2> DEFINE to == IF today = day THEN "body" ELSE "close"
  <2>1. /\ at[t] = "check" /\ Rolling(t) /\ at' = [at EXCEPT ![t] = to] /\ fh' = fh /\ txCount' = txCount
        /\ newDay' = IF today = day THEN newDay ELSE [newDay EXCEPT ![t] = today]
    BY <1>3 DEF RollCheck
  <2>2. newDay' \in [Threads -> 1..Days]
    BY <1>2, <2>1 DEF RaceInv, RaceTypes
  <2>3. RaceTypes'
    BY <1>1, <2>1, <2>2 DEF RaceInv, RaceTypes, Places
  <2>4. RaceRolls'
    BY <1>1, <1>2, <2>1 DEF RaceInv, RaceTypes, RaceRolls, Rolling, Inside
  <2>5. RaceLedger'
    BY <1>1, <1>2, <2>1 DEF RaceInv, RaceTypes, RaceRolls, RaceLedger, Threads
  <2>6. Resets' = Resets
    <3>1. CASE day = today
      <4>1. Late' = Late
        BY <1>2, <2>1, <3>1 DEF Late, RaceInv, RaceTypes
      <4>2. QED
        BY <1>1, <4>1 DEF Resets
    <3>2. CASE day # today
      BY <1>1, <3>2 DEF Resets
    <3>3. QED
      BY <3>1, <3>2
  <2>7. QED
    BY <1>1, <1>2, <2>1, <2>3, <2>4, <2>5, <2>6, RaceRollSpend DEF RaceInv, Room
<1>4. CASE RollClose(t)
  <2>1. at[t] = "close" /\ at' = [at EXCEPT ![t] = "reset"] /\ fh' = Closed /\ newDay' = newDay /\ txCount' = txCount
    BY <1>4 DEF RollClose
  <2>2. RaceTypes'
    BY <1>1, <2>1 DEF RaceInv, RaceTypes, Places
  <2>3. RaceRolls'
    BY <1>1, <1>2, <2>1 DEF RaceInv, RaceTypes, RaceRolls, Rolling, Inside
  <2>4. RaceLedger'
    BY <1>1, <2>1 DEF RaceInv, RaceTypes, RaceLedger
  <2>5. Late' = Late
    BY <1>2, <2>1 DEF Late, RaceInv, RaceTypes
  <2>6. QED
    BY <1>1, <1>2, <2>1, <2>2, <2>3, <2>4, <2>5, RaceRollSpend DEF RaceInv, Room, Resets
<1>5. CASE RollReplay(t)
  <2>1. at[t] = "replay" /\ at' = [at EXCEPT ![t] = "open"] /\ fh' = fh /\ newDay' = newDay
    BY <1>5 DEF RollReplay
  <2>2. txCount' \in Nat /\ txCount' >= txCount
    <3>1. newDay[t] \in 1..Days /\ Spent \in [1..Days -> Nat]
      BY RaceSpent DEF RaceInv, RaceTypes
    <3>4. PICK n \in Nat : n = Spent[newDay[t]]
      BY <3>1
    <3>2. txCount' = txCount + n
      BY <1>5, <3>1, <3>4 DEF RollReplay, Replay, Spent
    <3>3. QED
      BY <1>2, <3>2
  <2>3. RaceTypes'
    BY <1>1, <2>1, <2>2 DEF RaceInv, RaceTypes, Places
  <2>4. RaceRolls'
    BY <1>1, <1>2, <2>1 DEF RaceInv, RaceTypes, RaceRolls, Rolling, Inside
  <2>5. RaceLedger'
    BY <1>1, <2>1 DEF RaceInv, RaceTypes, RaceLedger
  <2>6. Late' = Late
    BY <1>2, <2>1 DEF Late, RaceInv, RaceTypes
  <2>7. QED
    BY <1>1, <2>2, <2>3, <2>4, <2>5, <2>6, RaceRollSpend DEF RaceInv, Room, Resets
<1>6. CASE RollOpen(t)
  <2>1. /\ at[t] = "open" /\ at' = [at EXCEPT ![t] = "body"] /\ fh' = newDay[t] /\ newDay' = newDay
        /\ txCount' = txCount
    BY <1>6 DEF RollOpen
  <2>2. RaceTypes'
    BY <1>1, <2>1 DEF RaceInv, RaceTypes, Places
  <2>3. fh' = day /\ day = today
    BY <2>1 DEF RaceInv, RaceRolls, Inside
  <2>4. day # Closed
    BY <1>2, BoundsAssumption DEF Closed
  <2>5. RaceRolls'
    BY <1>1, <1>2, <2>1, <2>3, <2>4 DEF RaceInv, RaceTypes, RaceRolls, Rolling, Inside
  <2>6. RaceLedger'
    BY <1>1, <2>1 DEF RaceInv, RaceTypes, RaceLedger
  <2>7. Late' = Late
    BY <1>2, <2>1 DEF Late, RaceInv, RaceTypes
  <2>8. QED
    BY <1>1, <1>2, <2>1, <2>2, <2>5, <2>6, <2>7, RaceRollSpend DEF RaceInv, Room, Resets
<1>7. QED
  BY <1>3, <1>4, <1>5, <1>6

\* The reset.  The first one of a day empties the counters for an empty file; a later
\* one, of a web thread, takes the day's transactions off them and is one less to come.
LEMMA RaceReset ==
  ASSUME RaceInv, NEW t \in Threads, RollReset(t)
  PROVE  RaceInv'
<1> USE DEF disk, Goto
<1>1. /\ at[t] = "reset" /\ at' = [at EXCEPT ![t] = "replay"] /\ day' = newDay[t] /\ txCount' = 0
      /\ UNCHANGED <<today, fh, op, newDay>> /\ RaceFiles' /\ Spent' = Spent
  BY RaceSame DEF RollReset, RaceInv, RaceTypes
<1>2. WebThreads \subseteq Threads /\ Keeper \in Threads /\ Keeper \notin WebThreads
  BY ThreadsAssumption DEF ThreadsAssumption, Threads
<1>3. /\ newDay[t] = today /\ Rolling(t) /\ (day = today \/ fh = Closed) /\ day <= today
      /\ today \in 1..Days /\ day \in 1..Days
  BY <1>1 DEF RaceInv, RaceTypes, RaceRolls, Inside
<1>4. RaceTypes'
  BY <1>1, <1>3 DEF RaceInv, RaceTypes, Places
<1>5. RaceRolls'
  BY <1>1, <1>2, <1>3 DEF RaceInv, RaceTypes, RaceRolls, Rolling, Inside
<1>6. RaceLedger'
  BY <1>1, <1>3 DEF RaceInv, RaceTypes, RaceLedger
<1>7. Late' = Late \ {t} /\ (t \in WebThreads => t \in Late)
  BY <1>1, <1>2 DEF Late, RaceInv, RaceTypes
<1>8. Resets' = Cardinality(WebThreads \ Late') /\ Resets' \in Nat
  BY <1>1, <1>3, WebFinite DEF Resets
<1>9. Held' = Held /\ Written' = Written
  BY <1>1 DEF Held, Written
<1>10. Room' = MaxTx * Resets' /\ Room' \in Nat
  <2>1. PICK n \in Nat : n = Resets'
    BY <1>8
  <2>2. Room' = MaxTx * n
    BY <2>1 DEF Room
  <2>3. QED
    BY <2>1, <2>2, Spending
<1>11. CASE day = today /\ t \in WebThreads
  <2>1. Resets = Cardinality(WebThreads \ Late) /\ WebThreads \ Late' = (WebThreads \ Late) \cup {t}
        /\ t \notin WebThreads \ Late
    BY <1>7, <1>11 DEF Resets
  <2>2. Resets' = Resets + 1
    BY <1>8, <2>1, WebFinite, FS_AddElement
  <2>3. Room' = Room + MaxTx
    <3>1. PICK n \in Nat : n = Resets
      BY RoomFacts
    <3>2. Room = MaxTx * n /\ Room' = MaxTx * (n + 1)
      BY <1>10, <2>2, <3>1 DEF Room
    <3>3. QED
      BY <3>2, Spending
  <2>4. day' = day /\ Spent' = Spent
    BY <1>1, <1>3, <1>11
  <2>5. (Spent[day] + Written <= txCount + Room)'
    BY <1>1, <1>9, <2>3, <2>4, RaceNumbers
  <2>6. (Spent[day] + Held <= MaxTx + Room)'
    BY <1>9, <2>3, <2>4, RaceNumbers
  <2>7. SpentBounded'
    BY <1>1 DEF RaceInv, RaceSpend, SpentBounded
  <2>8. QED
    BY <1>4, <1>5, <1>6, <2>5, <2>6, <2>7 DEF RaceInv, RaceSpend
<1>12. CASE ~(day = today /\ t \in WebThreads)
  <2>1. Spent'[day'] = 0
    <3>1. CASE day = today
      <4>1. t = Keeper
        BY <1>12, <3>1 DEF Threads
      <4>2. Spent[today] = 0
        BY <1>1, <4>1 DEF RaceInv, RaceLedger
      <4>3. QED
        BY <1>1, <1>3, <4>2
    <3>2. CASE day # today
      BY <1>1, <1>3, <3>2 DEF RaceInv, RaceLedger
    <3>3. QED
      BY <3>1, <3>2
  <2>2. Written' <= Room' /\ Written' \in 0..1 /\ Held' \in 0..1
    <3>1. CASE t = Keeper
      <4>1. Written' = 0
        BY <1>3, <1>9, <3>1 DEF Rolling, Written
      <4>2. QED
        BY <1>9, <1>10, <4>1, RaceNumbers
    <3>2. CASE t \in WebThreads
      <4>1. t \in WebThreads \ Late' /\ IsFiniteSet(WebThreads \ Late')
        BY <1>7, <3>2, WebFinite
      <4>2. Resets' # 0
        BY <1>8, <4>1, FS_EmptySet
      <4>3. PICK n \in Nat : n = Resets' /\ 1 <= n
        BY <1>8, <4>2
      <4>4. MaxTx * 1 <= MaxTx * n /\ Room' = MaxTx * n
        BY <1>10, <4>3, Spending
      <4>5. PICK z \in Nat : z = MaxTx * n
        BY <4>3, Spending
      <4>6. MaxTx <= z
        BY <4>4, <4>5, Spending
      <4>7. QED
        BY <1>9, <4>4, <4>5, <4>6, RaceNumbers, Spending
    <3>3. QED
      BY <3>1, <3>2 DEF Threads
  <2>3. (Spent[day] + Written <= txCount + Room)'
    BY <1>1, <1>10, <2>1, <2>2
  <2>4. (Spent[day] + Held <= MaxTx + Room)'
    <3>1. PICK m \in Nat : m = MaxTx /\ m >= 1
      BY Spending
    <3>2. PICK r \in Nat : r = Room'
      BY <1>10
    <3>3. PICK h \in Nat : h = Held' /\ h <= 1
      BY <2>2
    <3>4. 1 <= m + r
      BY <3>1
    <3>5. h <= 1
      BY <3>3
    <3>6. 0 + h <= m + r
      BY <3>4, <3>5
    <3>7. QED
      BY <2>1, <3>1, <3>2, <3>3, <3>6
  <2>5. SpentBounded'
    BY <1>1 DEF RaceInv, RaceSpend, SpentBounded
  <2>6. QED
    BY <1>4, <1>5, <1>6, <2>3, <2>4, <2>5 DEF RaceInv, RaceSpend
<1>13. QED
  BY <1>11, <1>12


\* Midnight, when no roll is under way: no web thread has reset the new day's counters.
LEMMA RaceMidnight ==
  ASSUME RaceInv, Midnight, \A t \in Threads : at[t] \notin Inside
  PROVE  RaceInv'
<1> USE DEF disk, counters, control
<1>1. today' = today + 1 /\ today < Days /\ UNCHANGED <<day, fh, txCount, op, at, newDay>>
      /\ RaceFiles' /\ Spent' = Spent /\ Spent \in [1..Days -> Nat]
  BY RaceSame, RaceSpent DEF Midnight, RaceInv, RaceTypes
<1>2. WebThreads \subseteq Threads /\ Keeper \in Threads /\ today \in 1..Days /\ day <= today /\ day \in 1..Days
  BY DEF Threads, RaceInv, RaceTypes, RaceRolls
<1>3. Late = {}
  BY <1>2 DEF Late, Inside
<1>4. Resets = Cardinality(WebThreads)
  <2>1. WebThreads \ {} = WebThreads
    OBVIOUS
  <2>2. QED
    BY <1>3, <2>1 DEF Resets
<1>5. Resets' = Cardinality(WebThreads)
  BY <1>1, <1>2 DEF Resets
<1>6. Room' = Room
  BY <1>4, <1>5 DEF Room
<1>7. Held' = Held /\ Written' = Written
  BY <1>1 DEF Held, Written
<1>8. RaceTypes'
  <2>1. today' \in 1..Days
    BY <1>1, <1>2, BoundsAssumption
  <2>2. QED
    BY <1>1, <2>1 DEF RaceInv, RaceTypes
<1>9. RaceRolls'
  <2>1. day' <= today'
    BY <1>1, <1>2
  <2>2. QED
    BY <1>1, <2>1 DEF RaceInv, RaceRolls, Rolling, Inside
<1>10. RaceLedger'
  <2>1. \A t \in Threads : at'[t] \notin {"close", "reset"}
    BY <1>1 DEF Inside
  <2>2. QED
    BY <1>1, <1>2, <2>1 DEF RaceInv, RaceLedger
<1>11. RaceSpend'
  BY <1>1, <1>6, <1>7 DEF RaceInv, RaceSpend, SpentBounded
<1>12. QED
  BY <1>8, <1>9, <1>10, <1>11 DEF RaceInv

\* A crash leaves at most the transaction that was being written.
LEMMA RaceTear ==
  ASSUME RaceInv, Tear, ledger' = ledger
  PROVE  /\ RaceFiles' /\ Spent' \in [1..Days -> Nat] /\ Spent'[day] <= Spent[day] + Held
         /\ \A d \in 1..Days : d # day => Spent'[d] = Spent[d]
<1>1. RaceFiles /\ Spent \in [1..Days -> Nat] /\ day \in 1..Days /\ fh \in {Closed, day} /\ Held \in 0..1
  BY RaceSpent DEF RaceInv, RaceTypes, RaceRolls, Held
<1>2. CASE UNCHANGED <<torn, tail>>
  <2>1. Spent' = Spent
    BY <1>2 DEF Spent, Readable
  <2>2. RaceFiles'
    BY <1>1, <1>2, <2>1 DEF RaceFiles
  <2>3. QED
    BY <1>1, <2>1, <2>2
<1>3. CASE ~UNCHANGED <<torn, tail>>
  <2>1. fh = day /\ fh # Closed /\ Record = ledger[day] /\ ledger[day] \in DayRecords
    BY <1>1, <1>3 DEF Tear, RaceFiles, Record
  <2>2. PICK rec \in {ledger[day]} \cup (IF torn[day] THEN {} ELSE Bare(ledger[day])) :
             torn' = [torn EXCEPT ![day] = TRUE] /\ tail' = [tail EXCEPT ![day] = rec]
    BY <1>3, <2>1 DEF Tear
  <2>3. rec \in DayRecords /\ ledger[day].txs \in Nat /\ ledger[day].txs <= rec.txs /\ rec.txs <= ledger[day].txs + Held
    <3>1. ledger[day].txs \in Nat
      BY <2>1, RecordTypes
    <3>2. CASE rec = ledger[day]
      BY <1>1, <2>1, <3>1, <3>2
    <3>3. CASE rec # ledger[day] /\ op[Keeper] = "write_tx"
      <4>1. rec = WithTx(ledger[day])
        BY <2>2, <3>3 DEF Bare, In
      <4>2. rec \in DayRecords /\ rec.txs = ledger[day].txs + 1 /\ Held = 1
        BY <2>1, <3>3, <4>1, TxLine DEF Held
      <4>3. QED
        BY <3>1, <4>2
    <3>4. CASE rec # ledger[day] /\ op[Keeper] # "write_tx"
      <4>1. PICK equity \in Equities : rec = WithEquity(ledger[day], equity)
        BY <2>2, <3>4 DEF Bare
      <4>2. rec \in DayRecords /\ rec.txs = ledger[day].txs
        BY <2>1, <4>1, EquityLine
      <4>3. QED
        BY <1>1, <3>1, <4>2
    <3>5. QED
      BY <3>2, <3>3, <3>4
  <2>4. /\ tail' \in [1..Days -> DayRecords] /\ torn' \in [1..Days -> BOOLEAN] /\ torn'[day] /\ tail'[day] = rec
        /\ \A d \in 1..Days : d # day => torn'[d] = torn[d] /\ tail'[d] = tail[d]
    BY <1>1, <2>2, <2>3 DEF RaceFiles
  <2>5. Spent' = [d \in 1..Days |-> (IF torn'[d] THEN tail'[d] ELSE ledger'[d]).txs]
    BY DEF Spent, Readable
  <2>6. Spent = [d \in 1..Days |-> (IF torn[d] THEN tail[d] ELSE ledger[d]).txs]
    BY DEF Spent, Readable
  <2>7. Spent'[day] = rec.txs /\ \A d \in 1..Days : d # day => Spent'[d] = Spent[d]
    BY <1>1, <2>4, <2>5, <2>6
  <2>8. \A d \in 1..Days : ledger'[d].txs <= Spent'[d]
    <3>1. ledger'[day].txs <= Spent'[day]
      BY <2>3, <2>7
    <3>2. \A d \in 1..Days : d # day => ledger'[d].txs <= Spent'[d]
      BY <1>1, <2>7 DEF RaceFiles
    <3>3. QED
      BY <3>1, <3>2
  <2>9. RaceFiles'
    BY <1>1, <2>4, <2>8 DEF RaceFiles
  <2>10. ledger[day].txs <= Spent[day]
    BY <1>1 DEF RaceFiles
  <2>11. Spent[day] \in Nat /\ rec.txs \in Nat
    BY <1>1, <2>3, RecordTypes
  <2>12. Spent'[day] <= Spent[day] + Held
    BY <1>1, <2>3, <2>7, <2>10, <2>11
  <2>13. QED
    BY <2>7, <2>9, <2>12, RaceSpentNext
<1>4. QED
  BY <1>2, <1>3

\* A restart puts the counters to the day's file, and every thread outside.
LEMMA RaceRestart ==
  ASSUME RaceInv, Restart
  PROVE  RaceInv'
<1> USE DEF disk, history
<1>0. today \in 1..Days /\ Spent \in [1..Days -> Nat]
  BY RaceSpent DEF RaceInv, RaceTypes
<1>1. /\ day' = today /\ fh' = today /\ txCount' = Spent'[today]
      /\ op' = [t \in Threads |-> "none"] /\ at' = [t \in Threads |-> "check"]
      /\ UNCHANGED <<today, ledger, newDay>> /\ Tear
  <2>1. Restart
    OBVIOUS
  <2>2. txCount' = (IF torn'[today] THEN tail'[today] ELSE ledger'[today]).txs
    BY <2>1 DEF Restart, LoadDay, Readable
  <2>3. Spent' = [d \in 1..Days |-> (IF torn'[d] THEN tail'[d] ELSE ledger'[d]).txs]
    BY DEF Spent, Readable
  <2>4. QED
    BY <1>0, <2>1, <2>2, <2>3 DEF Restart
<1>13. /\ RaceFiles' /\ Spent' \in [1..Days -> Nat] /\ Spent'[day] <= Spent[day] + Held
       /\ \A d \in 1..Days : d # day => Spent'[d] = Spent[d]
  BY <1>1, RaceTear
<1>2. WebThreads \subseteq Threads /\ Keeper \in Threads /\ today \in 1..Days /\ day <= today /\ day \in 1..Days
  BY DEF Threads, RaceInv, RaceTypes, RaceRolls
<1>3. PICK x \in Nat : x = Spent'[today]
  BY <1>2, <1>13
<1>4. Late' = {}
  BY <1>1, <1>2 DEF Late
<1>5. Resets' = Cardinality(WebThreads)
  <2>1. WebThreads \ {} = WebThreads
    OBVIOUS
  <2>2. QED
    BY <1>1, <1>4, <2>1 DEF Resets
<1>6. PICK r \in Nat : r = Room' /\ Room <= r
  <2>1. PICK n \in Nat : n = Cardinality(WebThreads)
    BY WebFinite
  <2>2. PICK k \in Nat : k = Resets /\ k <= n
    BY <2>1, RoomFacts
  <2>3. Room' = MaxTx * n /\ Room = MaxTx * k
    BY <1>5, <2>1, <2>2 DEF Room
  <2>4. QED
    BY <2>2, <2>3, Spending
<1>7. Held' = 0 /\ Written' = 0
  BY <1>1, <1>2 DEF Held, Written
<1>8. RaceTypes'
  BY <1>1, <1>2, <1>3, <1>13 DEF RaceInv, RaceTypes, Calls, Places
<1>9. RaceRolls'
  <2>1. fh' # Closed
    BY <1>1, <1>2 DEF Closed
  <2>2. QED
    BY <1>1, <1>2, <2>1 DEF RaceInv, RaceRolls, Inside, Closed
<1>10. RaceLedger'
  <2>1. \A d \in 1..Days : d > today => Spent'[d] = 0
    BY <1>2, <1>13 DEF RaceInv, RaceLedger
  <2>2. QED
    BY <1>1, <1>2, <2>1 DEF RaceLedger
<1>11. RaceSpend'
  <2>1. (Spent[day] + Written <= txCount + Room)'
    BY <1>1, <1>3, <1>6, <1>7
  <2>2. x <= MaxTx + r /\ MaxTx \in Nat
    <3>1. CASE day = today
      BY <1>3, <1>6, <1>13, <3>1, RaceNumbers
    <3>2. CASE day # today
      <4>1. x = 0
        BY <1>2, <1>3, <1>13, <3>2 DEF RaceInv, RaceLedger
      <4>2. QED
        BY <4>1, Spending
    <3>3. QED
      BY <3>1, <3>2
  <2>3. (Spent[day] + Held <= MaxTx + Room)'
    BY <1>1, <1>3, <1>6, <1>7, <2>2
  <2>4. SpentBounded'
    <3>1. PICK z \in Nat : z = MaxTx * (1 + Cardinality(WebThreads)) /\ MaxTx + Room <= z
      BY WebFinite, Spending, RoomFacts
    <3>2. \A d \in 1..Days : Spent[d] <= z
      BY <3>1 DEF RaceInv, RaceSpend, SpentBounded
    <3>3. Spent'[day] <= z
      BY <1>2, <1>13, <3>1, RaceNumbers
    <3>4. \A d \in 1..Days : Spent'[d] <= z
      BY <1>13, <3>2, <3>3
    <3>5. QED
      BY <3>1, <3>4 DEF SpentBounded
  <2>5. QED
    BY <2>1, <2>3, <2>4 DEF RaceSpend
<1>12. QED
  BY <1>8, <1>9, <1>10, <1>11 DEF RaceInv

\* A step that moves no thread and spends nothing, the log of the kill switch too.
LEMMA RaceIdle ==
  ASSUME RaceInv, UNCHANGED <<today, day, fh, txCount, op, at, newDay>>, Logged
  PROVE  RaceInv'
<1>1. RaceFiles /\ Spent \in [1..Days -> Nat] /\ day \in 1..Days /\ fh \in {Closed, day}
  BY RaceSpent DEF RaceInv, RaceTypes, RaceRolls
<1>2. RaceFiles' /\ \A d \in 1..Days : Spent'[d] <= Spent[d]
  <2>1. CASE UNCHANGED files
    <3>1. RaceFiles' /\ Spent' = Spent
      BY <1>1, <2>1, RaceSame
    <3>2. QED
      BY <1>1, <3>1
  <2>2. CASE fh # Closed /\ Append(Record)
    <3>1. fh = day /\ Record = ledger[day] /\ ledger[day] \in DayRecords /\ ledger[day].txs <= Spent[day]
      BY <1>1, <2>2 DEF Record, RaceFiles
    <3>2. /\ RaceFiles' /\ Spent'[day] = ledger[day].txs /\ \A d \in 1..Days : d # day => Spent'[d] = Spent[d]
      BY <1>1, <2>2, <3>1, RaceAppend
    <3>3. QED
      BY <1>1, <3>1, <3>2
  <2>3. QED
    BY <2>1, <2>2 DEF Logged
<1>3. RaceTypes'
  BY <1>2 DEF RaceInv, RaceTypes
<1>4. Held' = Held /\ Written' = Written
  BY DEF Held, Written
<1>5. Spent[day] + Held' <= MaxTx + Room /\ Written' <= Written
  BY <1>4, RaceNumbers
<1>6. \A t \in WebThreads : op'[t] \in {"none", "status"}
  BY DEF RaceInv, RaceRolls
<1>7. QED
  BY <1>2, <1>3, <1>5, <1>6, RaceQuiet

LEMMA RaceStep ==
  ASSUME RaceInv, [Next]_vars, Midnight => \A t \in Threads : at[t] \notin Inside
  PROVE  RaceInv'
<1>1. ASSUME NEW t \in Threads, Roll(t) PROVE RaceInv'
  BY <1>1, RaceRollSteps, RaceReset DEF Roll
<1>2. CASE KeeperStep
  <2>1. CASE mark_engine_pol
    BY <2>1, RaceIdle DEF mark_engine_pol, disk, counters, control, Logged
  <2>2. QED
    BY <1>1, <1>2, <2>1, RaceCallSteps, RaceWriteTx, RaceRecords, RaceRecordTx DEF KeeperStep, Threads
<1>3. CASE \E t \in WebThreads : WebStep(t)
  BY <1>1, <1>3, RaceCallSteps DEF WebStep, Threads
<1>4. CASE kill \/ unkill \/ Relaunch \/ UNCHANGED vars
  <2>1. UNCHANGED <<today, day, fh, txCount, op, at, newDay>> /\ Logged
    BY <1>4 DEF kill, unkill, Relaunch, vars, disk, counters, control, Logged
  <2>2. QED
    BY <2>1, RaceIdle
<1>5. QED
  BY <1>2, <1>3, <1>4, RaceMidnight, RaceRestart DEF Next

\* Whatever the web threads' day rolls race with, as long as each is over by the next
\* midnight: no day's ledger exceeds the budget by more than one budget for each web
\* thread, and once no thread is inside a roll the open file is the day's.
THEOREM RollsAlwaysSettle == Spec /\ RollsEndByMidnight => []RollsSettle
<1>1. ASSUME RaceInv PROVE RollsSettle
  <2>1. TxBudgetPerRoll
    BY <1>1 DEF RaceInv, RaceSpend, SpentBounded, Spent, TxBudgetPerRoll
  <2>2. ASSUME \A t \in Threads : at[t] \in {"check", "body"} PROVE fh = day
    BY <1>1, <2>2 DEF RaceInv, RaceRolls, Inside
  <2>3. QED
    BY <2>1, <2>2 DEF RollsSettle
<1>2. RaceInv /\ [Next]_vars /\ [Midnight => \A t \in Threads : at[t] \notin Inside]_vars => RaceInv'
  <2> SUFFICES ASSUME RaceInv, [Next]_vars, [Midnight => \A t \in Threads : at[t] \notin Inside]_vars
               PROVE  RaceInv'
    OBVIOUS
  <2>1. CASE Midnight /\ UNCHANGED vars
    <3>1. FALSE
      BY <2>1 DEF Midnight, vars, RaceInv, RaceTypes
    <3>2. QED
      BY <3>1
  <2>2. CASE ~(Midnight /\ UNCHANGED vars)
    BY <2>2, RaceStep
  <2>3. QED
    BY <2>1, <2>2
<1>3. QED
  BY <1>1, <1>2, RaceInit, PTL DEF Spec, RollsEndByMidnight

=============================================================================
