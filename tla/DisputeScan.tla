----------------------------- MODULE DisputeScan -----------------------------
(***************************************************************************)
(* The block scans of data/disputes.py and data/negrisk_map.py over a pool  *)
(* of keyless JSON-RPC endpoints: _rpc's failover and backoff, ranges that  *)
(* are bisected when a node refuses them, windows walked forward (the       *)
(* export, the dispute cache, the NegRisk map) or backward from the head    *)
(* (the live tail and the keeper's detector), the checkpointed cache of     *)
(* block times, and what each scan makes of the logs.                       *)
(*                                                                         *)
(* A block holds at most one dispute; a log is the block and the question   *)
(* it disputes.  Block times grow with the blocks, so both sort alike.      *)
(***************************************************************************)
EXTENDS Integers, FiniteSets

CONSTANTS
  Tip,              \* the last block of the chain; START_BLOCK is 1
  Chains,           \* chains a scan may meet: from blocks to questions or NoLog
  NoLog,
  NegRisk,          \* questions of the NegRisk adapter
  Prepared,         \* those of them the Operator has a QuestionPrepared for
  MaxReorg,         \* blocks below the tip a reorganisation may rewrite
  MaxLag,           \* blocks a node may be behind the tip
  Confirmations,    \* values of min_confirmations
  Window, Lookback, Target,
  MinRange,         \* a range no wider than this is not bisected
  Attempts, Urls,   \* _RPC_ATTEMPTS and the length of RPC_URLS
  Checkpoint,       \* _BLOCK_TS_CHECKPOINT
  CachedTo          \* the cache file a run finds has the disputes up to this block, or none

ASSUME ScanAssumption ==
  /\ {Tip, Window, Target, Attempts, Urls, Checkpoint} \subseteq Nat \ {0}
  /\ {MaxReorg, MaxLag, Lookback, MinRange, CachedTo} \subseteq Nat
  /\ Confirmations \subseteq Nat /\ Prepared \subseteq NegRisk

Blocks == 1..Tip

ASSUME ChainAssumption == \A c \in Chains : DOMAIN c = Blocks

Lesser(m, n) == IF m <= n THEN m ELSE n
Greater(m, n) == IF m >= n THEN m ELSE n
Kinds == {"tail", "export", "cache", "map"}
Backward == {"tail"}
Resilient == {"tail", "export", "map"}

VARIABLES
  kind, conf,       \* the function called, and its min_confirmations
  chain,
  pc,
  end, floor,       \* the last and the first block to scan
  pos,              \* where the next window begins: frm, or hi of a backward scan
  pending,          \* ranges still to ask, within the window
  scanned, twice,   \* blocks answered for, and those answered for again
  rows,             \* <<block, question>> of the logs kept
  rpc,              \* the call under way: attempt, url, and a failure that is not transient
  mem, saved,        \* block times known, in memory and in the cache file
  fetched,          \* block times asked for in this run
  warned,           \* a checkpoint could not be written
  resolved,           \* NegRisk questions resolved by the Operator lookup
  answer               \* the rows returned

inputVars == <<kind, conf>>
rangeVars == <<end, floor, pos, pending, scanned, twice>>
cacheVars == <<mem, saved, fetched, warned>>
scanVars == <<inputVars, chain, pc, rangeVars, rows, rpc, cacheVars, resolved, answer>>

Disputes(c) == {<<b, c[b]>> : b \in {x \in DOMAIN c : c[x] # NoLog}}
NewCall == [attempt |-> 0, url |-> 1, hard |-> FALSE]

ScanInit ==
  /\ kind \in Kinds /\ conf \in IF kind = "tail" THEN Confirmations ELSE {0}
  /\ chain \in Chains
  /\ pc = IF kind \in {"tail", "export"} THEN "head" ELSE "window"
  /\ end = Tip - MaxReorg - MaxLag      \* the HF cutoff, long final; a scan to the head reads its own
  /\ floor = 1 /\ pos = 1
  /\ pending = {} /\ scanned = {} /\ twice = {} /\ rows = {}
  /\ rpc = NewCall
  /\ saved \in {{}, {l[1] : l \in Disputes(chain)} \cap 1..CachedTo}
  /\ mem = {} /\ fetched = 0 /\ warned = FALSE /\ resolved = {} /\ answer = {}

Stable == 1..(Tip - MaxReorg)

\* The tip is rewritten: a dispute appears, or goes.
Reorg ==
  /\ pc \notin {"done", "failed"}
  /\ \E b \in Blocks \ Stable, c \in Chains : chain' = [chain EXCEPT ![b] = c[b]]
  /\ UNCHANGED <<inputVars, pc, rangeVars, rows, rpc, cacheVars, resolved, answer>>
-----------------------------------------------------------------------------
(* _rpc: every endpoint once, then a pause and another round when all of   *)
(* the failures were transient.                                            *)

RpcNextUrl ==
  /\ pc \in {"head", "ask", "stamp"} /\ rpc.url < Urls
  /\ \E hard \in BOOLEAN : rpc' = [rpc EXCEPT !.url = @ + 1, !.hard = @ \/ hard]
  /\ UNCHANGED <<inputVars, chain, pc, rangeVars, rows, cacheVars, resolved, answer>>

RpcPause_forever ==                 \* does not count its rounds
  /\ pc \in {"head", "ask", "stamp"} /\ rpc.url = Urls
  /\ ~rpc.hard
  /\ rpc' = NewCall
  /\ UNCHANGED <<inputVars, chain, pc, rangeVars, rows, cacheVars, resolved, answer>>

RpcPause ==
  /\ pc \in {"head", "ask", "stamp"} /\ rpc.url = Urls
  /\ ~rpc.hard /\ rpc.attempt < Attempts - 1
  /\ rpc' = [NewCall EXCEPT !.attempt = rpc.attempt + 1]
  /\ UNCHANGED <<inputVars, chain, pc, rangeVars, rows, cacheVars, resolved, answer>>

\* The last endpoint fails too: with a real error, or in the last round.
Raises(hard) == rpc.url = Urls /\ (hard \/ rpc.hard \/ rpc.attempt = Attempts - 1)
RpcRaises == \E hard \in BOOLEAN : Raises(hard)
-----------------------------------------------------------------------------
(* The windows.                                                            *)
HeadRead_tip ==                     \* scans the unconfirmed tip too
  /\ pc = "head"
  /\ \E head \in (Tip - MaxLag)..Tip :
       /\ end' = head
       /\ floor' = IF kind = "tail" THEN Greater(1, head - Lookback) ELSE 1
       /\ pos' = IF kind = "tail" THEN end' ELSE 1
  /\ pc' = "window" /\ rpc' = NewCall
  /\ UNCHANGED <<inputVars, chain, pending, scanned, twice, rows, cacheVars, resolved, answer>>

HeadRead ==
  /\ pc = "head"
  /\ \E head \in (Tip - MaxLag)..Tip :
       /\ end' = head - conf
       /\ floor' = IF kind = "tail" THEN Greater(1, head - Lookback) ELSE 1
       /\ pos' = IF kind = "tail" THEN end' ELSE 1
  /\ pc' = "window" /\ rpc' = NewCall
  /\ UNCHANGED <<inputVars, chain, pending, scanned, twice, rows, cacheVars, resolved, answer>>

HeadFails ==
  /\ pc = "head" /\ RpcRaises
  /\ pc' = "failed"
  /\ UNCHANGED <<inputVars, chain, rangeVars, rows, rpc, cacheVars, resolved, answer>>

More == IF kind \in Backward THEN pos >= floor /\ Cardinality(rows) < Target ELSE pos <= end

Window_overlap ==                   \* the next window begins where the last one ended
  /\ pc = "window" /\ More
  /\ LET to == Lesser(pos + Window, end)
         lo == Greater(floor, pos - Window + 1)
     IN  IF kind \in Backward THEN pending' = {<<lo, pos>>} /\ pos' = IF lo = floor THEN lo - 1 ELSE lo
                              ELSE pending' = {<<pos, to>>} /\ pos' = IF to = end THEN to + 1 ELSE to
  /\ pc' = "ask" /\ rpc' = NewCall
  /\ UNCHANGED <<inputVars, chain, end, floor, scanned, twice, rows, cacheVars, resolved, answer>>

NextWindow ==
  /\ pc = "window" /\ More
  /\ LET to == Lesser(pos + Window, end)
         lo == Greater(floor, pos - Window + 1)
     IN  IF kind \in Backward THEN pending' = {<<lo, pos>>} /\ pos' = lo - 1
                              ELSE pending' = {<<pos, to>>} /\ pos' = to + 1
  /\ pc' = "ask" /\ rpc' = NewCall
  /\ UNCHANGED <<inputVars, chain, end, floor, scanned, twice, rows, cacheVars, resolved, answer>>

\* The recursion of the bisection asks the lower half first.
Lowest(r) == pc = "ask" /\ r \in pending /\ \A s \in pending : r[1] <= s[1]

Span(r) == r[1]..r[2]

\* The dispute cache counts the NegRisk disputes and keeps only the others.
Kept(l) == kind = "cache" => l[2] \notin NegRisk

\* A node that is behind answers without the blocks it has not seen.
LogsRead(r) ==
  /\ Lowest(r)
  /\ \E view \in (Tip - MaxLag)..Tip :
       rows' = rows \cup {l \in Disputes(chain) : l[1] \in Span(r) /\ l[1] <= view /\ Kept(l)}
  /\ twice' = twice \cup (scanned \cap Span(r))
  /\ scanned' = scanned \cup Span(r)
  /\ pending' = pending \ {r}
  /\ rpc' = NewCall
  /\ UNCHANGED <<inputVars, chain, pc, end, floor, pos, cacheVars, resolved, answer>>

Bisectable(r) == kind \in Resilient /\ r[2] - r[1] > MinRange

Bisect(r) ==
  /\ Lowest(r) /\ RpcRaises /\ Bisectable(r)
  /\ LET mid == (r[1] + r[2]) \div 2
     IN  pending' = (pending \ {r}) \cup {<<r[1], mid>>, <<mid + 1, r[2]>>}
  /\ rpc' = NewCall
  /\ UNCHANGED <<inputVars, chain, pc, end, floor, pos, scanned, twice, rows, cacheVars, resolved, answer>>

AskFails(r) ==
  /\ Lowest(r) /\ RpcRaises /\ ~Bisectable(r)
  /\ pc' = "failed"
  /\ UNCHANGED <<inputVars, chain, rangeVars, rows, rpc, cacheVars, resolved, answer>>

WindowDone ==
  /\ pc = "ask" /\ pending = {}
  /\ pc' = "window"
  /\ UNCHANGED <<inputVars, chain, rangeVars, rows, rpc, cacheVars, resolved, answer>>
-----------------------------------------------------------------------------
(* What is made of the logs.                                               *)
\* resolve_negrisk_cids: one batched lookup, remembered; a failed one leaves the
\* NegRisk rows without a label.
Lookups == {Prepared, {}}

\* The export resolves its NegRisk rows before it stamps them, the tail after.
ScanDone ==
  /\ pc = "window" /\ ~More
  /\ pc' = IF kind = "map" THEN "shape" ELSE "stamp"
  /\ resolved' \in IF kind = "export" THEN Lookups ELSE {resolved}
  /\ mem' = IF kind = "cache" THEN {} ELSE saved
  /\ rpc' = NewCall
  /\ UNCHANGED <<inputVars, chain, rangeVars, rows, saved, fetched, warned, answer>>

Unstamped == {l[1] : l \in rows} \ mem

\* A write that fails leaves a file the next reader cannot parse.
Flush(m) == \/ saved' = m /\ UNCHANGED warned
            \/ saved' = {} /\ warned' = TRUE

Stamped(b) ==
  /\ pc = "stamp" /\ b \in Unstamped /\ \A c \in Unstamped : b <= c
  /\ mem' = mem \cup {b} /\ fetched' = fetched + 1
  /\ rpc' = NewCall
  /\ UNCHANGED <<inputVars, chain, pc, rangeVars, rows, resolved, answer>>

Stamp_late(b) == Stamped(b) /\ UNCHANGED <<saved, warned>>      \* no checkpoints

\* The dispute cache of the HF window keeps its block times with its rows.
Stamp(b) ==
  /\ Stamped(b)
  /\ IF kind # "cache" /\ fetched' % Checkpoint = 0 THEN Flush(mem') ELSE UNCHANGED <<saved, warned>>

\* The flush of the finally.
StampFails ==
  /\ pc = "stamp" /\ Unstamped # {} /\ RpcRaises
  /\ pc' = "failed"
  /\ IF kind = "cache" THEN UNCHANGED <<saved, warned>> ELSE Flush(mem)
  /\ UNCHANGED <<inputVars, chain, rangeVars, rows, rpc, mem, fetched, resolved, answer>>

StampsDone ==
  /\ pc = "stamp" /\ Unstamped = {}
  /\ pc' = "shape"
  /\ IF kind = "cache" THEN UNCHANGED <<saved, warned>> ELSE Flush(mem)
  /\ UNCHANGED <<inputVars, chain, rangeVars, rows, rpc, mem, fetched, resolved, answer>>

Cid(l, known) == IF l[2] \in NegRisk \ known THEN "none" ELSE "cid"
Row(l, n, known) == [block |-> l[1], question |-> l[2], round |-> n, cid |-> Cid(l, known)]

\* The n-th dispute of a question, counted from 0 over every row.
Earlier(l, in) == {k \in in : k[2] = l[2] /\ k[1] < l[1]}
RoundOf(l, in) == Cardinality(Earlier(l, in))

Labelled(in, known) == {l \in in : Cid(l, known) = "cid"}

Newest(in, n) == {l \in in : Cardinality({k \in in : k[1] > l[1]}) < n}
First(in) == {l \in in : Earlier(l, in) = {}}

ShapeExport ==
  /\ pc = "shape" /\ kind = "export"
  /\ answer' = {Row(l, RoundOf(l, rows), resolved) : l \in Labelled(rows, resolved)}
  /\ pc' = "done"
  /\ UNCHANGED <<inputVars, chain, rangeVars, rows, rpc, cacheVars, resolved>>

ShapeTail ==
  /\ pc = "shape" /\ kind = "tail"
  /\ resolved' \in Lookups
  /\ answer' = {Row(l, -1, resolved') : l \in Newest(rows, Target)}
  /\ pc' = "done"
  /\ UNCHANGED <<inputVars, chain, rangeVars, rows, rpc, cacheVars>>

\* The NegRisk map keeps the first occurrence of a question.
ShapeMap ==
  /\ pc = "shape" /\ kind = "map"
  /\ answer' = {Row(l, -1, Prepared) : l \in First(rows)}
  /\ pc' = "done"
  /\ UNCHANGED <<inputVars, chain, rangeVars, rows, rpc, cacheVars, resolved>>

ShapeCache ==
  /\ pc = "shape" /\ kind = "cache"
  /\ answer' = {Row(l, -1, Prepared) : l \in rows}
  /\ pc' = "done"
  /\ UNCHANGED <<inputVars, chain, rangeVars, rows, rpc, cacheVars, resolved>>

Step ==
  \/ RpcNextUrl \/ RpcPause
  \/ HeadRead \/ HeadFails \/ NextWindow \/ WindowDone
  \/ \E r \in pending : LogsRead(r) \/ Bisect(r) \/ AskFails(r)
  \/ ScanDone \/ (\E b \in Blocks : Stamp(b)) \/ StampFails \/ StampsDone \/ ShapeExport \/ ShapeTail \/ ShapeMap \/ ShapeCache

ScanNext == Step \/ Reorg

\* Every request has a timeout and every pause an end.
ScanSpec == ScanInit /\ [][ScanNext]_scanVars /\ WF_scanVars(Step)
-----------------------------------------------------------------------------

\* However ranges are refused and bisected, no block is asked for twice, and between
\* two windows the blocks behind the cursor are exactly the blocks that were answered.
WindowsTile ==
  /\ twice = {}
  /\ pc \in {"window", "stamp", "shape", "done"} =>
       scanned = IF kind \in Backward THEN (pos + 1)..end ELSE 1..(pos - 1)

\* What a scan returns.  With enough confirmations the tail is the newest disputes of a
\* chain that no reorganisation and no node that is behind can change, whatever windows it
\* took to find them.  The layers built from the start of the chain hold, up to the depth
\* that is final, every dispute they can key, and the export numbers the rounds of a
\* question by its disputes on the chain, dropped rows and window boundaries notwithstanding.
TailNewest ==
  kind = "tail" /\ conf >= MaxReorg /\ conf >= MaxLag =>
    {<<r.block, r.question>> : r \in answer} =
      Newest({l \in Disputes(chain) : l[1] \in floor..end}, Target)

LayerExact ==
  LET final == {l \in Disputes(chain) : l[1] <= Tip - Greater(MaxReorg, MaxLag) /\ l[1] <= end}
      got == {r \in answer : r.block <= Tip - Greater(MaxReorg, MaxLag)}
  IN  kind # "tail" =>
        got = CASE kind = "export" -> {Row(l, RoundOf(l, final), resolved) : l \in Labelled(final, resolved)}
                [] kind = "cache"  -> {Row(l, -1, Prepared) : l \in {k \in final : k[2] \notin NegRisk}}
                [] kind = "map"    -> {Row(l, -1, Prepared) : l \in First(final)}

RowsExact == pc = "done" => TailNewest /\ LayerExact

\* A crash loses less than one checkpoint of block times, and a scan that fails or
\* succeeds loses none, as long as its checkpoints could be written.
CheckpointHolds ==
  kind # "cache" /\ ~warned =>
    /\ Cardinality(mem \ saved) < Checkpoint
    /\ pc \in {"shape", "done", "failed"} => mem \subseteq saved

\* Every scan returns or raises: rounds of retries and bisections both come to an end.
ScanEnds == <>(pc \in {"done", "failed"})
=============================================================================
