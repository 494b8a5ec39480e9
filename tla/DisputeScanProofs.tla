-------------------------- MODULE DisputeScanProofs --------------------------
(***************************************************************************)
(* A block scan, for every chain, window, bisection floor and pattern of   *)
(* failures: its windows tile the range, its checkpoints lose less than    *)
(* one batch of block times, and what it returns is what the final part of *)
(* the chain holds.  The release of what was scanned, for every history    *)
(* and snapshot: the rate counted from it stays what it was.               *)
(***************************************************************************)
EXTENDS DisputeScan, DisputeRelease, SumProofs, FiniteSetTheorems, TLAPS

\* The blocks between where the scan began and its next window.
Behind == IF kind \in Backward THEN (pos + 1)..end ELSE 1..(pos - 1)

\* The ranges still to ask are nonempty, disjoint from each other and from what was answered.
PendingApart ==
  /\ pending \subseteq Int \X Int
  /\ \A r \in pending : r[1] <= r[2] /\ Span(r) \cap scanned = {}
  /\ \A r, s \in pending : r # s => Span(r) \cap Span(s) = {}

\* Together with the answered blocks they make up the blocks behind the cursor.
Covered == scanned \cup UNION {Span(r) : r \in pending} = Behind

CursorOK ==
  /\ kind \in Kinds /\ end \in Int /\ floor \in Int /\ pos \in Int /\ conf \in Int
  /\ pc \in {"head", "window", "ask", "stamp", "shape", "done", "failed"}
  /\ IF kind \in Backward THEN pc \notin {"head", "failed"} => pos <= end ELSE pos >= 1
  /\ pc = "head" => scanned = {}

TileInv ==
  /\ CursorOK
  /\ twice = {}
  /\ PendingApart
  /\ pc \notin {"head", "failed"} => Covered
  /\ pc \notin {"ask", "failed"} => pending = {}

\* The larger of two integers.
LEMMA GreaterInt == \A m, n \in Int : Greater(m, n) \in Int /\ Greater(m, n) >= n /\ Greater(m, n) >= m
BY DEF Greater

\* A scan starts with nothing asked or answered.
LEMMA InitTile == ScanInit => TileInv
<1> SUFFICES ASSUME ScanInit PROVE TileInv
  OBVIOUS
<1>1. CursorOK
  BY ScanAssumption DEF ScanInit, CursorOK, Kinds, Backward
<1>2. PendingApart
  BY DEF ScanInit, PendingApart
<1>3. Covered \/ pc = "head"
  BY DEF ScanInit, Covered, Behind, Kinds, Backward
<1> QED
  BY <1>1, <1>2, <1>3 DEF TileInv, ScanInit

\* The next window is the range between the old cursor and the new one.
LEMMA WindowTile == ASSUME TileInv, NextWindow PROVE TileInv'
<1> DEFINE to == Lesser(pos + Window, end)
           lo == Greater(floor, pos - Window + 1)
<1> USE DEF TileInv, CursorOK, NextWindow, inputVars
<1>0. Window \in Int /\ Window >= 1 /\ pos - Window + 1 \in Int /\ pos + Window \in Int
  BY ScanAssumption
<1>1. CASE kind \in Backward
  <2>1. lo \in Int /\ lo <= pos
    BY <1>0, <1>1 DEF More, Greater
  <2>2. pending' = {<<lo, pos>>} /\ pos' = lo - 1 /\ kind' = kind /\ end' = end
        /\ scanned' = scanned /\ pc' = "ask"
    BY <1>1
  <2>3. PendingApart'
    <3>1. Span(<<lo, pos>>) = lo..pos
      BY DEF Span
    <3>2. scanned = (pos + 1)..end
      BY <1>1 DEF Covered, Behind
    <3> QED
      BY <2>1, <2>2, <3>1, <3>2 DEF PendingApart
  <2>4. Covered'
    <3>1. UNION {Span(r) : r \in pending'} = lo..pos
      BY <2>2 DEF Span
    <3>2. scanned = (pos + 1)..end /\ pos <= end
      BY <1>1 DEF Covered, Behind
    <3>3. Behind' = lo..end
      BY <1>1, <2>1, <2>2 DEF Behind
    <3> QED
      BY <2>1, <2>2, <3>1, <3>2, <3>3 DEF Covered, Span
  <2> QED
    BY <1>1, <2>1, <2>2, <2>3, <2>4
<1>2. CASE kind \notin Backward
  <2>1. to \in Int /\ pos <= to
    BY <1>0, <1>2 DEF More, Lesser
  <2>2. pending' = {<<pos, to>>} /\ pos' = to + 1 /\ kind' = kind /\ end' = end
        /\ scanned' = scanned /\ pc' = "ask"
    BY <1>2
  <2>3. PendingApart'
    <3>1. Span(<<pos, to>>) = pos..to
      BY DEF Span
    <3>2. scanned = 1..(pos - 1)
      BY <1>2 DEF Covered, Behind
    <3> QED
      BY <2>1, <2>2, <3>1, <3>2 DEF PendingApart
  <2>4. Covered'
    <3>1. UNION {Span(r) : r \in pending'} = pos..to
      BY <2>2 DEF Span
    <3>2. scanned = 1..(pos - 1) /\ pos >= 1
      BY <1>2 DEF Covered, Behind
    <3>3. Behind' = 1..to
      BY <1>2, <2>1, <2>2 DEF Behind
    <3> QED
      BY <2>1, <2>2, <3>1, <3>2, <3>3 DEF Covered, Span
  <2> QED
    BY <1>2, <2>1, <2>2, <2>3, <2>4
<1> QED
  BY <1>1, <1>2

\* An answered range moves from the pending blocks to the answered ones.
LEMMA ReadTile == ASSUME TileInv, NEW r \in pending, LogsRead(r) PROVE TileInv'
<1> USE DEF TileInv, LogsRead, Lowest, inputVars
<1>1. pending' = pending \ {r} /\ scanned' = scanned \cup Span(r) /\ twice' = twice \cup (scanned \cap Span(r))
  OBVIOUS
<1>2. twice' = {}
  BY <1>1 DEF PendingApart
<1>3. CursorOK'
  BY DEF CursorOK
<1>4. PendingApart'
  <2>1. \A s \in pending' : s[1] <= s[2] /\ Span(s) \cap scanned = {} /\ Span(s) \cap Span(r) = {}
    BY <1>1 DEF PendingApart
  <2> QED
    BY <1>1, <2>1 DEF PendingApart, Span
<1>5. Covered'
  <2>1. scanned' \cup UNION {Span(s) : s \in pending'} = scanned \cup UNION {Span(s) : s \in pending}
    BY <1>1
  <2> QED
    BY <2>1 DEF Covered, Behind, Span
<1> QED
  BY <1>2, <1>3, <1>4, <1>5

\* The halves of a bisected range are apart and make up the range.
LEMMA BisectTile == ASSUME TileInv, NEW r \in pending, Bisect(r) PROVE TileInv'
<1> DEFINE mid == (r[1] + r[2]) \div 2
           low == <<r[1], mid>>
           high == <<mid + 1, r[2]>>
<1> USE DEF TileInv, Bisect, Lowest, inputVars
<1>1. r[1] \in Int /\ r[2] \in Int /\ r[1] < r[2]
  BY ScanAssumption DEF PendingApart, Bisectable
<1>2. mid \in Int /\ r[1] <= mid /\ mid < r[2]
  BY <1>1
<1> HIDE DEF mid
<1>3. pending' = (pending \ {r}) \cup {low, high} /\ scanned' = scanned /\ twice' = twice
  BY DEF mid
<1>4. Span(low) \cup Span(high) = Span(r) /\ Span(low) \cap Span(high) = {}
  BY <1>1, <1>2 DEF Span
<1>5. CursorOK'
  BY DEF CursorOK
<1>6. PendingApart'
  <2>1. pending' \subseteq Int \X Int
    BY <1>1, <1>2, <1>3 DEF PendingApart
  <2>2. \A s \in pending \ {r} : s[1] <= s[2] /\ Span(s) \cap scanned = {} /\ Span(s) \cap Span(r) = {}
    BY DEF PendingApart
  <2>3. \A s \in {low, high} : s[1] <= s[2] /\ Span(s) \cap scanned = {}
    <3>1. Span(r) \cap scanned = {}
      BY DEF PendingApart
    <3> QED
      BY <1>1, <1>2, <1>4, <3>1
  <2>4. \A s, t \in pending \ {r} : s # t => Span(s) \cap Span(t) = {}
    BY DEF PendingApart
  <2>5. \A s \in pending \ {r}, t \in {low, high} : Span(s) \cap Span(t) = {}
    BY <1>4, <2>2
  <2>6. \A s, t \in pending' : s # t => Span(s) \cap Span(t) = {}
    BY <1>3, <1>4, <2>4, <2>5
  <2> QED
    BY <1>3, <2>1, <2>2, <2>3, <2>6 DEF PendingApart, Span
<1>7. Covered'
  <2>1. UNION {Span(s) : s \in pending'} = UNION {Span(s) : s \in pending}
    BY <1>3, <1>4
  <2> QED
    BY <1>3, <2>1 DEF Covered, Behind, Span
<1> QED
  BY <1>3, <1>5, <1>6, <1>7

\* The head fixes the range; nothing of it has been asked yet.
LEMMA HeadTile == ASSUME TileInv, HeadRead PROVE TileInv'
<1> USE DEF TileInv, HeadRead, inputVars
<1>1. PICK head \in (Tip - MaxLag)..Tip :
        /\ end' = head - conf
        /\ floor' = IF kind = "tail" THEN Greater(1, head - Lookback) ELSE 1
        /\ pos' = IF kind = "tail" THEN end' ELSE 1
  OBVIOUS
<1>2. head \in Int /\ Lookback \in Int
  BY ScanAssumption
<1>3. CursorOK'
  BY <1>1, <1>2, GreaterInt DEF CursorOK, Backward
<1>4. pending' = {} /\ scanned' = {} /\ twice' = {} /\ pending = {}
  BY DEF CursorOK
<1>5. Covered'
  BY <1>1, <1>2, <1>4 DEF Covered, Behind, Backward, CursorOK
<1> QED
  BY <1>3, <1>4, <1>5 DEF PendingApart

\* The steps that ask, answer and bisect nothing.
LEMMA OtherTile ==
  ASSUME TileInv, UNCHANGED <<inputVars, rangeVars>>,
         \/ UNCHANGED pc
         \/ pc' = "failed"
         \/ pc = "ask" /\ pending = {} /\ pc' = "window"
         \/ pc \in {"window", "stamp", "shape"} /\ pc' \in {"stamp", "shape", "done"}
  PROVE  TileInv'
<1>1. CursorOK'
  BY DEF TileInv, CursorOK, inputVars, rangeVars
<1>2. PendingApart' /\ twice' = {}
  BY DEF TileInv, PendingApart, Span, rangeVars
<1>3. Covered' = Covered
  BY DEF Covered, Behind, Span, inputVars, rangeVars
<1>4. pending' = pending
  BY DEF rangeVars
<1> QED
  BY <1>1, <1>2, <1>3, <1>4 DEF TileInv, CursorOK

\* Every step of a scan, and every reorganisation under it, keeps the tiling.
LEMMA NextTile == ASSUME TileInv, [ScanNext]_scanVars PROVE TileInv'
<1> USE DEF inputVars, rangeVars
<1>1. CASE HeadRead
  BY <1>1, HeadTile
<1>2. CASE NextWindow
  BY <1>2, WindowTile
<1>3. ASSUME NEW r \in pending, LogsRead(r) PROVE TileInv'
  BY <1>3, ReadTile
<1>4. ASSUME NEW r \in pending, Bisect(r) PROVE TileInv'
  BY <1>4, BisectTile
<1>5. ASSUME NEW r \in pending, AskFails(r) PROVE TileInv'
  BY <1>5, OtherTile DEF AskFails
<1>6. CASE RpcNextUrl \/ RpcPause
  BY <1>6, OtherTile DEF RpcNextUrl, RpcPause
<1>7. CASE HeadFails \/ StampFails
  BY <1>7, OtherTile DEF HeadFails, StampFails
<1>8. CASE WindowDone
  BY <1>8, OtherTile DEF WindowDone
<1>9. CASE ScanDone
  BY <1>9, OtherTile DEF ScanDone
<1>10. ASSUME NEW b \in Blocks, Stamp(b) PROVE TileInv'
  BY <1>10, OtherTile DEF Stamp, Stamped
<1>11. CASE StampsDone
  BY <1>11, OtherTile DEF StampsDone
<1>12. CASE ShapeExport \/ ShapeTail \/ ShapeMap \/ ShapeCache
  BY <1>12, OtherTile DEF ShapeExport, ShapeTail, ShapeMap, ShapeCache
<1>13. CASE Reorg \/ UNCHANGED scanVars
  BY <1>13, OtherTile DEF Reorg, scanVars
<1> QED
  BY <1>1, <1>2, <1>3, <1>4, <1>5, <1>6, <1>7, <1>8, <1>9, <1>10, <1>11, <1>12, <1>13 DEF ScanNext, Step

\* For every chain, window, bisection floor and pattern of failures, no block of a scan is
\* asked for twice and the blocks behind the cursor are those that were answered.
THEOREM ScanTiles == ScanSpec => []WindowsTile
<1>1. TileInv => WindowsTile
  <2> SUFFICES ASSUME TileInv, pc \in {"window", "stamp", "shape", "done"}
               PROVE  scanned = Behind
    BY DEF TileInv, WindowsTile, Behind
  <2>1. pending = {} /\ Covered
    BY DEF TileInv
  <2> QED
    BY <2>1 DEF Covered
<1> QED
  BY <1>1, InitTile, NextTile, PTL DEF ScanSpec
-----------------------------------------------------------------------------
(* The block times.  Between two checkpoints no more of them are in memory *)
(* alone than were fetched since the last one.                             *)
CacheInv ==
  /\ fetched \in Nat /\ warned \in BOOLEAN /\ kind \in Kinds
  /\ pc \in {"head", "window", "ask"} => mem = {}
  /\ kind # "cache" /\ ~warned =>
       /\ IsFiniteSet(mem \ saved) /\ Cardinality(mem \ saved) <= fetched % Checkpoint
       /\ pc \in {"shape", "done", "failed"} => mem \subseteq saved

\* The remainder of the next number is one more, unless it is zero.
LEMMA NextRemainder ==
  ASSUME NEW n \in Nat, NEW d \in Nat \ {0}
  PROVE  /\ n % d \in 0..(d - 1)
         /\ (n + 1) % d # 0 => (n + 1) % d = (n % d) + 1
  OBVIOUS


\* A write, whether it succeeds or fails.
LEMMA FlushKeeps ==
  ASSUME NEW m, Flush(m), warned \in BOOLEAN
  PROVE  warned' \in BOOLEAN /\ (warned => warned') /\ (~warned' => saved' = m)
<1>1. CASE saved' = m /\ warned' = warned
  BY <1>1
<1>2. CASE saved' = {} /\ warned' = TRUE
  BY <1>2
<1>3. QED
  BY <1>1, <1>2 DEF Flush

\* One block time is fetched, and the batch it completes is written.
LEMMA StampCache ==
  ASSUME CacheInv, NEW b \in Blocks, Stamp(b)
  PROVE  CacheInv'
<1> USE DEF CacheInv, Stamp, Stamped, inputVars, rangeVars
<1>1. /\ mem' = mem \cup {b} /\ fetched' = fetched + 1 /\ pc' = "stamp" /\ kind' = kind /\ pc = "stamp"
      /\ IF kind # "cache" /\ fetched' % Checkpoint = 0 THEN Flush(mem') ELSE UNCHANGED <<saved, warned>>
  OBVIOUS
<1>2. PICK d \in Nat \ {0} : d = Checkpoint
  BY ScanAssumption DEF ScanAssumption
<1>3. /\ fetched % d \in 0..(d - 1) /\ (fetched + 1) % d \in 0..(d - 1)
      /\ (fetched + 1) % d # 0 => (fetched + 1) % d = (fetched % d) + 1
  <2>1. fetched \in Nat /\ fetched + 1 \in Nat
    OBVIOUS
  <2>2. QED
    BY <2>1, NextRemainder
<1>4. CASE kind # "cache" /\ (fetched + 1) % d = 0
  <2>1. Flush(mem')
    BY <1>1, <1>2, <1>4
  <2>2. warned' \in BOOLEAN /\ (~warned' => saved' = mem')
    BY <2>1, FlushKeeps
  <2>3. saved' = mem' => IsFiniteSet(mem' \ saved') /\ Cardinality(mem' \ saved') = 0
    <3>1. saved' = mem' => mem' \ saved' = {}
      OBVIOUS
    <3>2. QED
      BY <3>1, FS_EmptySet
  <2>4. fetched' % Checkpoint = 0 /\ fetched' \in Nat
    BY <1>1, <1>2, <1>4
  <2>5. ~warned' => IsFiniteSet(mem' \ saved') /\ Cardinality(mem' \ saved') <= fetched' % Checkpoint
    BY <2>2, <2>3, <2>4
  <2>6. QED
    BY <1>1, <2>2, <2>4, <2>5
<1>5. CASE kind = "cache"
  BY <1>1, <1>5
<1>6. CASE kind # "cache" /\ (fetched + 1) % d # 0
  <2>1. saved' = saved /\ warned' = warned
    BY <1>1, <1>2, <1>6
  <2>2. ASSUME ~warned
        PROVE  IsFiniteSet(mem' \ saved) /\ Cardinality(mem' \ saved) <= (fetched % d) + 1
    <3> DEFINE New == mem \ saved
    <3>1. IsFiniteSet(New) /\ Cardinality(New) <= fetched % d /\ Cardinality(New) \in Nat
      BY <1>2, <1>6, <2>2, FS_CardinalityType
    <3>2. IsFiniteSet(New \cup {b}) /\ Cardinality(New \cup {b}) \in {Cardinality(New), Cardinality(New) + 1}
      <4> HIDE DEF New
      <4>1. QED
        BY <3>1, FS_AddElement
    <3>3. mem' \ saved \subseteq New \cup {b}
      BY <1>1
    <3>4. IsFiniteSet(mem' \ saved) /\ Cardinality(mem' \ saved) <= Cardinality(New \cup {b})
      BY <3>2, <3>3, FS_Subset
    <3>5. Cardinality(mem' \ saved) \in Nat
      BY <3>4, FS_CardinalityType
    <3> HIDE DEF New
    <3>6. QED
      BY <1>3, <3>1, <3>2, <3>4, <3>5
  <2>3. fetched' % Checkpoint = (fetched % d) + 1 /\ fetched' \in Nat
    BY <1>1, <1>2, <1>3, <1>6
  <2>4. QED
    BY <1>1, <2>1, <2>2, <2>3
<1>7. QED
  BY <1>4, <1>5, <1>6

\* The flush in the end, and the cache file read at the start, leave nothing unwritten.
LEMMA FlushCache ==
  ASSUME CacheInv, kind' = kind, fetched' = fetched, warned' \in BOOLEAN, warned => warned',
         pc' \notin {"head", "window", "ask"},
         kind # "cache" /\ ~warned' => saved' = mem'
  PROVE  CacheInv'
<1>1. PICK d \in Nat \ {0} : d = Checkpoint
  BY ScanAssumption DEF ScanAssumption
<1>2. fetched % d \in 0..(d - 1)
  BY <1>1, NextRemainder DEF CacheInv
<1>3. ASSUME kind # "cache", ~warned'
      PROVE  IsFiniteSet(mem' \ saved') /\ Cardinality(mem' \ saved') = 0 /\ mem' \subseteq saved'
  <2>1. mem' \ saved' = {} /\ saved' = mem'
    BY <1>3
  <2>2. QED
    BY <2>1, FS_EmptySet
<1>4. fetched' % Checkpoint >= 0
  BY <1>1, <1>2
<1>5. ASSUME kind # "cache", ~warned' PROVE Cardinality(mem' \ saved') <= fetched' % Checkpoint
  BY <1>3, <1>4, <1>5
<1>6. QED
  BY <1>3, <1>5 DEF CacheInv

\* The other steps touch neither the memory nor the file.
LEMMA OtherCache ==
  ASSUME CacheInv, CursorOK, UNCHANGED <<kind, cacheVars>>,
         pc' \in {"head", "window", "ask"} => pc \in {"head", "window", "ask"},
         pc' \in {"shape", "done", "failed"} => pc # "stamp"
  PROVE  CacheInv'
<1>1. UNCHANGED <<mem, saved, fetched, warned>>
  BY DEF cacheVars
<1>2. mem' = {} => mem' \subseteq saved'
  OBVIOUS
<1>3. kind' # "cache" /\ ~warned' =>
        IsFiniteSet(mem' \ saved') /\ Cardinality(mem' \ saved') <= fetched' % Checkpoint
  BY <1>1 DEF CacheInv
<1>4. kind' # "cache" /\ ~warned' => (pc' \in {"shape", "done", "failed"} => mem' \subseteq saved')
  BY <1>1, <1>2 DEF CacheInv, CursorOK
<1>5. fetched' \in Nat /\ warned' \in BOOLEAN /\ kind' \in Kinds /\ (pc' \in {"head", "window", "ask"} => mem' = {})
  BY <1>1 DEF CacheInv
<1>6. QED
  BY <1>3, <1>4, <1>5 DEF CacheInv

LEMMA InitCache == ScanInit => CacheInv
<1> SUFFICES ASSUME ScanInit PROVE CacheInv
  OBVIOUS
<1>1. mem \ saved = {} /\ mem = {} /\ fetched = 0 /\ warned = FALSE /\ kind \in Kinds /\ pc \in {"head", "window"}
  BY DEF ScanInit
<1>2. PICK d \in Nat \ {0} : d = Checkpoint
  BY ScanAssumption DEF ScanAssumption
<1>3. 0 % d \in 0..(d - 1)
  BY <1>2, NextRemainder
<1>4. IsFiniteSet(mem \ saved) /\ Cardinality(mem \ saved) = 0
  BY <1>1, FS_EmptySet
<1>5. Cardinality(mem \ saved) <= fetched % Checkpoint
  BY <1>1, <1>2, <1>3, <1>4
<1>6. QED
  BY <1>1, <1>4, <1>5 DEF CacheInv

LEMMA NextCache == ASSUME CacheInv, CursorOK, [ScanNext]_scanVars PROVE CacheInv'
<1> USE DEF inputVars
<1>1. ASSUME NEW b \in Blocks, Stamp(b) PROVE CacheInv'
  BY <1>1, StampCache
<1>2. CASE StampFails
  BY <1>2, FlushCache, FlushKeeps DEF StampFails, CacheInv
<1>3. CASE StampsDone
  BY <1>3, FlushCache, FlushKeeps DEF StampsDone, CacheInv
<1>4. CASE ScanDone
  BY <1>4, FlushCache DEF ScanDone, CacheInv
<1>5. CASE RpcNextUrl \/ RpcPause
  BY <1>5, OtherCache DEF RpcNextUrl, RpcPause
<1>6. CASE HeadRead
  BY <1>6, OtherCache DEF HeadRead
<1>7. CASE HeadFails \/ \E r \in pending : AskFails(r)
  BY <1>7, OtherCache DEF HeadFails, AskFails, Lowest
<1>8. CASE NextWindow
  BY <1>8, OtherCache DEF NextWindow
<1>9. CASE WindowDone
  BY <1>9, OtherCache DEF WindowDone
<1>10. CASE \E r \in pending : LogsRead(r) \/ Bisect(r)
  BY <1>10, OtherCache DEF LogsRead, Bisect
<1>11. CASE ShapeExport \/ ShapeTail \/ ShapeMap \/ ShapeCache
  BY <1>11, OtherCache DEF ShapeExport, ShapeTail, ShapeMap, ShapeCache
<1>12. CASE Reorg \/ UNCHANGED scanVars
  BY <1>12, OtherCache DEF Reorg, scanVars, CacheInv
<1>13. QED
  BY <1>1, <1>2, <1>3, <1>4, <1>5, <1>6, <1>7, <1>8, <1>9, <1>10, <1>11, <1>12 DEF ScanNext, Step

\* For every chain, batch size and pattern of failures, a crash loses less than one batch of
\* block times, and a scan that ends loses none, if its writes succeeded.
THEOREM CheckpointAlways == ScanSpec => []CheckpointHolds
<1>1. CacheInv => CheckpointHolds
  <2> SUFFICES ASSUME CacheInv, kind # "cache", ~warned PROVE CheckpointHolds
    BY DEF CheckpointHolds
  <2>1. PICK d \in Nat \ {0} : d = Checkpoint
    BY ScanAssumption DEF ScanAssumption
  <2>2. fetched % d \in 0..(d - 1) /\ Cardinality(mem \ saved) <= fetched % d
        /\ Cardinality(mem \ saved) \in Nat
    BY <2>1, NextRemainder, FS_CardinalityType DEF CacheInv
  <2>3. Cardinality(mem \ saved) < d
    BY <2>2
  <2>4. QED
    BY <2>1, <2>3 DEF CacheInv, CheckpointHolds
<1>2. TileInv /\ CacheInv /\ [ScanNext]_scanVars => TileInv' /\ CacheInv'
  BY NextTile, NextCache DEF TileInv
<1>3. ScanInit => TileInv /\ CacheInv
  BY InitTile, InitCache
<1>4. QED
  BY <1>1, <1>2, <1>3, PTL DEF ScanSpec
-----------------------------------------------------------------------------
(* The rows.  Up to the depth that neither a reorganisation nor a node     *)
(* that is behind can reach, the rows are the disputes of the blocks       *)
(* answered; and a tail with enough confirmations asks for no other block. *)
FinalTip == Tip - Greater(MaxReorg, MaxLag)

\* Disputes of chain c that the answers for the blocks in span must hold.
FinalDisputes(c, span) == {l \in Disputes(c) : l[1] <= FinalTip /\ l[1] \in span /\ Kept(l)}

RangeOK ==
  /\ kind = "tail" /\ pc \notin {"head", "failed"} => end <= Tip - conf /\ (pos = end \/ pos >= floor - 1)
  /\ kind # "tail" => pos = 1 \/ pos <= end + 1
  /\ pc \in {"stamp", "shape"} => ~More

RowsInv ==
  /\ DOMAIN chain = Blocks
  /\ \A l \in rows : l = <<l[1], l[2]>> /\ l[1] \in Blocks /\ l[1] \in scanned
  /\ {l \in rows : l[1] <= FinalTip} = FinalDisputes(chain, scanned)
  /\ RangeOK
  /\ RowsExact

LEMMA ScanConstants ==
  /\ Tip \in Nat /\ MaxReorg \in Nat /\ MaxLag \in Nat /\ Window \in Nat /\ Target \in Nat
  /\ FinalTip \in Int /\ FinalTip <= Tip - MaxReorg /\ FinalTip <= Tip - MaxLag
  /\ Blocks = 1..Tip
<1>1. /\ Tip \in Nat /\ MaxReorg \in Nat /\ MaxLag \in Nat /\ Window \in Nat /\ Target \in Nat
  BY ScanAssumption DEF ScanAssumption
<1>2. PICK g \in Int : g = Greater(MaxReorg, MaxLag) /\ g >= MaxReorg /\ g >= MaxLag
  <2>1. Greater(MaxReorg, MaxLag) \in Int /\ Greater(MaxReorg, MaxLag) >= MaxReorg
        /\ Greater(MaxReorg, MaxLag) >= MaxLag
    BY <1>1, GreaterInt
  <2>2. QED
    BY <2>1
<1>3. FinalTip = Tip - g
  BY <1>2 DEF FinalTip
<1>4. QED
  BY <1>1, <1>2, <1>3 DEF Blocks

\* A dispute is the pair of its block and what the chain has there.
LEMMA DisputePairs ==
  ASSUME NEW c, NEW l
  PROVE  l \in Disputes(c) <=> \E b \in DOMAIN c : c[b] # NoLog /\ l = <<b, c[b]>>
  BY DEF Disputes

LEMMA DisputeParts ==
  ASSUME NEW c, DOMAIN c = Blocks, NEW l \in Disputes(c)
  PROVE  l = <<l[1], l[2]>> /\ l[1] \in Blocks
<1>1. PICK b \in DOMAIN c : c[b] # NoLog /\ l = <<b, c[b]>>
  BY DisputePairs
<1>2. QED
  BY <1>1

\* No reorganisation changes the final disputes.
LEMMA ReorgFinal ==
  ASSUME DOMAIN chain = Blocks, Reorg, NEW span
  PROVE  DOMAIN chain' = Blocks /\ FinalDisputes(chain, span)' = FinalDisputes(chain, span)
<1>1. PICK b \in Blocks \ Stable, c \in Chains : chain' = [chain EXCEPT ![b] = c[b]]
  BY DEF Reorg
<1>2. DOMAIN chain' = Blocks /\ \A x \in Blocks \ {b} : chain'[x] = chain[x]
  BY <1>1
<1>3. \A x \in Blocks : x <= FinalTip => x # b
  BY <1>1, ScanConstants DEF Stable
<1>4. ASSUME NEW l, l[1] <= FinalTip
      PROVE  l \in Disputes(chain') <=> l \in Disputes(chain)
  <2>1. ASSUME NEW x \in Blocks, l = <<x, chain'[x]>> \/ l = <<x, chain[x]>>
        PROVE  chain'[x] = chain[x]
    BY <1>2, <1>3, <1>4, <2>1
  <2>2. QED
    BY <1>2, <2>1, DisputePairs
<1>5. kind' = kind
  BY DEF Reorg, inputVars
<1>6. QED
  BY <1>2, <1>4, <1>5 DEF FinalDisputes, Kept

\* The disputes of a chain are finitely many: one a block at most.
LEMMA DisputesFinite ==
  ASSUME NEW c, DOMAIN c = Blocks, NEW D \in SUBSET Disputes(c)
  PROVE  IsFiniteSet(D)
<1> DEFINE f == [l \in D |-> l[1]]
<1>1. \A l \in D : \E b \in Blocks : l = <<b, c[b]>>
  BY DisputePairs
<1>2. f \in [D -> Blocks] /\ \A k, l \in D : f[k] = f[l] => k = l
  BY <1>1
<1>3. f \in Injection(D, Blocks)
  BY <1>2 DEF Injection, IsInjective
<1>4. IsFiniteSet(Blocks)
  <2>1. 1 \in Int /\ Tip \in Int
    BY ScanConstants
  <2>2. QED
    BY <2>1, FS_Interval DEF Blocks
<1> HIDE DEF f
<1>5. QED
  BY <1>3, <1>4, FS_Injection

\* The steps that read no log and move no window.
LEMMA KeepRows ==
  ASSUME RowsInv, CursorOK, UNCHANGED <<kind, conf, chain, rangeVars, rows>>, RowsExact',
         \/ pc' = pc
         \/ pc' = "failed"
         \/ pc = "shape" /\ pc' = "done"
         \/ pc = "ask" /\ pc' = "window"
         \/ pc = "window" /\ ~More /\ pc' \in {"stamp", "shape"}
         \/ pc = "stamp" /\ pc' = "shape"
  PROVE  RowsInv'
<1>1. UNCHANGED <<end, floor, pos, pending, scanned, twice>>
  BY DEF rangeVars
<1>2. FinalDisputes(chain, scanned)' = FinalDisputes(chain, scanned)
  BY <1>1 DEF FinalDisputes, Kept
<1>3. More' = More
  BY <1>1 DEF More
<1>4. RangeOK'
  <2>1. (kind = "tail" /\ pc \notin {"head", "failed"} => end <= Tip - conf /\ (pos = end \/ pos >= floor - 1))'
    BY <1>1 DEF RowsInv, RangeOK, CursorOK
  <2>2. (pc \in {"stamp", "shape"} => ~More)'
    BY <1>3 DEF RowsInv, RangeOK
  <2>3. QED
    BY <1>1, <2>1, <2>2 DEF RowsInv, RangeOK
<1>5. QED
  BY <1>1, <1>2, <1>4 DEF RowsInv

\* What an answer adds is what the chain has in its range, up to the depth that is final.
LEMMA ReadRows == ASSUME TileInv, RowsInv, NEW r \in pending, LogsRead(r) PROVE RowsInv'
<1> DEFINE New(view) == {l \in Disputes(chain) : l[1] \in Span(r) /\ l[1] <= view /\ Kept(l)}
<1>1. PICK view \in (Tip - MaxLag)..Tip : rows' = rows \cup New(view)
  BY DEF LogsRead
<1>2. /\ scanned' = scanned \cup Span(r) /\ pc = "ask" /\ pc' = "ask"
      /\ UNCHANGED <<kind, conf, chain, end, floor, pos>>
  BY DEF LogsRead, Lowest, inputVars
<1>3. DOMAIN chain = Blocks /\ {l \in rows : l[1] <= FinalTip} = FinalDisputes(chain, scanned)
      /\ \A l \in rows : l = <<l[1], l[2]>> /\ l[1] \in Blocks /\ l[1] \in scanned
  BY DEF RowsInv
<1>4. \A l \in Disputes(chain) : l = <<l[1], l[2]>> /\ l[1] \in Blocks
  BY <1>3, DisputeParts
<1>5. \A b \in Blocks : b <= FinalTip => b <= view
  <2>1. view \in Int /\ view >= Tip - MaxLag
    BY <1>1, ScanConstants
  <2>2. QED
    BY <2>1, ScanConstants
<1>6. \A l \in rows' : l = <<l[1], l[2]>> /\ l[1] \in Blocks /\ l[1] \in scanned'
  BY <1>1, <1>2, <1>3, <1>4
<1>7. {l \in rows' : l[1] <= FinalTip} = FinalDisputes(chain, scanned) \cup {l \in New(view) : l[1] <= FinalTip}
  BY <1>1, <1>3
<1>8. {l \in New(view) : l[1] <= FinalTip} = FinalDisputes(chain, Span(r))
  BY <1>4, <1>5 DEF FinalDisputes
<1>9. FinalDisputes(chain, scanned \cup Span(r)) = FinalDisputes(chain, scanned) \cup FinalDisputes(chain, Span(r))
  BY DEF FinalDisputes
<1>10. FinalDisputes(chain, scanned)' = FinalDisputes(chain, scanned \cup Span(r))
  BY <1>2 DEF FinalDisputes, Kept
<1>11. RangeOK' /\ RowsExact'
  BY <1>2 DEF RowsInv, RangeOK, RowsExact
<1>12. QED
  BY <1>2, <1>3, <1>6, <1>7, <1>8, <1>9, <1>10, <1>11 DEF RowsInv

\* The head bounds the range from above, and a window never leaves it.
LEMMA HeadRows == ASSUME TileInv, RowsInv, HeadRead PROVE RowsInv'
<1>1. PICK head \in (Tip - MaxLag)..Tip :
        /\ end' = head - conf
        /\ floor' = IF kind = "tail" THEN Greater(1, head - Lookback) ELSE 1
        /\ pos' = IF kind = "tail" THEN end' ELSE 1
  BY DEF HeadRead
<1>2. UNCHANGED <<kind, conf, chain, rows, scanned>> /\ pc' = "window"
  BY DEF HeadRead, inputVars
<1>3. FinalDisputes(chain, scanned)' = FinalDisputes(chain, scanned)
  BY <1>2 DEF FinalDisputes, Kept
<1>4. head \in Int /\ head <= Tip /\ Tip \in Int /\ conf \in Int
  BY <1>1, ScanConstants DEF TileInv, CursorOK
<1>5. end' <= Tip - conf
  BY <1>1, <1>4
<1>6. RangeOK' /\ RowsExact'
  BY <1>1, <1>2, <1>5 DEF RangeOK, RowsExact
<1>7. QED
  BY <1>2, <1>3, <1>6 DEF RowsInv

LEMMA WindowRows == ASSUME TileInv, RowsInv, NextWindow PROVE RowsInv'
<1> DEFINE to == Lesser(pos + Window, end)
           lo == Greater(floor, pos - Window + 1)
<1>1. UNCHANGED <<kind, conf, chain, rows, scanned, end, floor>> /\ pc' = "ask" /\ pc = "window"
  BY DEF NextWindow, inputVars
<1>2. FinalDisputes(chain, scanned)' = FinalDisputes(chain, scanned)
  BY <1>1 DEF FinalDisputes, Kept
<1>3. pos \in Int /\ end \in Int /\ floor \in Int /\ Window \in Int
  BY ScanConstants DEF TileInv, CursorOK
<1>4. kind = "tail" => pos' >= floor' - 1
  <2>1. kind = "tail" => pos' = lo - 1
    BY DEF NextWindow, Backward
  <2>2. lo \in Int /\ lo >= floor
    <3>1. pos - Window + 1 \in Int
      BY <1>3
    <3>2. QED
      BY <1>3, <3>1, GreaterInt
  <2>3. QED
    BY <1>1, <1>3, <2>1, <2>2
<1>5. kind # "tail" => pos' <= end' + 1
  <2>1. kind # "tail" => pos' = to + 1
    BY DEF NextWindow, Backward
  <2>2. to \in Int /\ to <= end
    BY <1>3 DEF Lesser
  <2>3. QED
    BY <1>1, <1>3, <2>1, <2>2
<1>6. RangeOK' /\ RowsExact'
  BY <1>1, <1>4, <1>5 DEF RangeOK, RowsInv, RowsExact
<1>7. QED
  BY <1>1, <1>2, <1>6 DEF RowsInv

\* A reorganisation leaves the final rows what they should be.
LEMMA ReorgRows == ASSUME RowsInv, Reorg PROVE RowsInv'
<1>1. UNCHANGED <<kind, conf, end, floor, pos, pending, scanned, twice, rows, pc>> /\ pc # "done"
  BY DEF Reorg, inputVars, rangeVars
<1>2. DOMAIN chain' = Blocks /\ \A span : FinalDisputes(chain, span)' = FinalDisputes(chain, span)
  BY ReorgFinal DEF RowsInv
<1>3. FinalDisputes(chain, scanned)' = FinalDisputes(chain, scanned)
  <2>1. PICK span : span = scanned
    OBVIOUS
  <2>2. FinalDisputes(chain, scanned)' = FinalDisputes(chain, span)' /\ FinalDisputes(chain, span) = FinalDisputes(chain, scanned)
    BY <1>1, <2>1 DEF FinalDisputes
  <2>3. QED
    BY <1>2, <2>2
<1>4. More' = More
  BY <1>1 DEF More
<1>5. RangeOK' /\ RowsExact'
  BY <1>1, <1>4 DEF RowsInv, RangeOK, RowsExact
<1>6. QED
  BY <1>1, <1>2, <1>3, <1>5 DEF RowsInv
-----------------------------------------------------------------------------
\* Where a scan is over, every dispute of its range is behind the cursor.
LEMMA ScannedAll ==
  ASSUME TileInv, RowsInv, pc = "shape", kind # "tail"
  PROVE  {l \in rows : l[1] <= FinalTip} = {l \in Disputes(chain) : l[1] <= FinalTip /\ l[1] <= end /\ Kept(l)}
<1>1. scanned = 1..(pos - 1) /\ pos \in Int /\ end \in Int /\ pos > end
  <2>1. kind \notin Backward /\ pending = {} /\ pos \in Int /\ end \in Int
    BY DEF Backward, TileInv, CursorOK
  <2>2. scanned = 1..(pos - 1)
    BY <2>1 DEF TileInv, Covered, Behind
  <2>3. ~(pos <= end)
    BY <2>1 DEF RowsInv, RangeOK, More
  <2>4. QED
    BY <2>1, <2>2, <2>3
<1>2. pos = 1 \/ pos = end + 1
  BY <1>1 DEF RowsInv, RangeOK
<1>3. \A b \in Blocks : b \in scanned <=> b <= end
  BY <1>1, <1>2, ScanConstants
<1>4. \A l \in Disputes(chain) : l[1] \in Blocks
  BY DisputeParts DEF RowsInv
<1>5. QED
  BY <1>3, <1>4 DEF RowsInv, FinalDisputes

\* The rounds of the final disputes are counted from final disputes.
LEMMA EarlierFinal ==
  ASSUME RowsInv, NEW l \in rows, l[1] <= FinalTip
  PROVE  Earlier(l, rows) = Earlier(l, {k \in rows : k[1] <= FinalTip})
<1>1. \A k \in rows : k[1] \in Blocks
  BY DEF RowsInv
<1>2. \A k \in rows : k[1] < l[1] => k[1] <= FinalTip
  BY <1>1, ScanConstants
<1>3. QED
  BY <1>2 DEF Earlier

\* What the export, the dispute cache and the NegRisk map return.
LEMMA LayersShaped ==
  ASSUME TileInv, RowsInv, ShapeExport \/ ShapeMap \/ ShapeCache
  PROVE  LayerExact'
<1> DEFINE final == {l \in Disputes(chain) : l[1] <= FinalTip /\ l[1] <= end}
           old == {l \in rows : l[1] <= FinalTip}
<1>1. /\ pc = "shape" /\ kind \in {"export", "map", "cache"}
      /\ UNCHANGED <<kind, chain, end, rows, resolved>>
  BY DEF ShapeExport, ShapeMap, ShapeCache, inputVars, rangeVars
<1>2. old = {l \in final : Kept(l)}
  BY <1>1, ScannedAll
<1>3. \A l \in old : Earlier(l, rows) = Earlier(l, old)
  BY EarlierFinal
<1>4. final' = final
  BY <1>1 DEF FinalTip
<1>5. CASE kind = "export"
  <2>1. answer' = {Row(l, RoundOf(l, rows), resolved) : l \in Labelled(rows, resolved)}
    BY <1>1, <1>5 DEF ShapeExport, ShapeMap, ShapeCache
  <2>2. {r \in answer' : r.block <= FinalTip} = {Row(l, RoundOf(l, rows), resolved) : l \in Labelled(old, resolved)}
    BY <2>1 DEF Row, Labelled
  <2>3. old = final
    BY <1>2, <1>5 DEF Kept
  <2>4. \A l \in Labelled(old, resolved) : RoundOf(l, rows) = RoundOf(l, final)
    BY <1>3, <2>3 DEF Labelled, RoundOf
  <2>5. {r \in answer' : r.block <= FinalTip} = {Row(l, RoundOf(l, final), resolved) : l \in Labelled(final, resolved)}
    BY <2>2, <2>3, <2>4
  <2>6. QED
    BY <1>1, <1>4, <1>5, <2>5 DEF LayerExact, FinalTip
<1>6. CASE kind = "cache"
  <2>1. answer' = {Row(l, -1, Prepared) : l \in rows}
    BY <1>1, <1>6 DEF ShapeExport, ShapeMap, ShapeCache
  <2>2. {r \in answer' : r.block <= FinalTip} = {Row(l, -1, Prepared) : l \in old}
    BY <2>1 DEF Row
  <2>3. old = {k \in final : k[2] \notin NegRisk}
    BY <1>2, <1>6 DEF Kept
  <2>4. QED
    BY <1>1, <1>4, <1>6, <2>2, <2>3 DEF LayerExact, FinalTip
<1>7. CASE kind = "map"
  <2>1. answer' = {Row(l, -1, Prepared) : l \in First(rows)}
    BY <1>1, <1>7 DEF ShapeExport, ShapeMap, ShapeCache
  <2>2. {r \in answer' : r.block <= FinalTip} = {Row(l, -1, Prepared) : l \in {k \in First(rows) : k[1] <= FinalTip}}
    BY <2>1 DEF Row
  <2>3. old = final
    BY <1>2, <1>7 DEF Kept
  <2>4. {k \in First(rows) : k[1] <= FinalTip} = First(final)
    BY <1>3, <2>3 DEF First
  <2>5. QED
    BY <1>1, <1>4, <1>7, <2>2, <2>4 DEF LayerExact, FinalTip
<1>8. QED
  BY <1>1, <1>5, <1>6, <1>7

\* With enough confirmations every row is final, and those of a tail that has met its target
\* are newer than any dispute it did not ask for.
LEMMA TailRows ==
  ASSUME TileInv, RowsInv, pc = "shape", kind = "tail", conf >= MaxReorg, conf >= MaxLag,
         NEW D, D = {l \in Disputes(chain) : l[1] \in floor..end}
  PROVE  /\ rows = {l \in D : l[1] > pos} /\ pos \in Int
         /\ (\A l \in D : l[1] > pos) \/ Cardinality(rows) >= Target
<1>1. pos \in Int /\ end \in Int /\ floor \in Int /\ conf \in Int /\ kind \in Backward /\ pending = {}
  BY DEF TileInv, CursorOK, Backward
<1>2. scanned = (pos + 1)..end
  BY <1>1 DEF TileInv, Covered, Behind
<1>3. end <= FinalTip
  <2>1. FinalTip = Tip - MaxReorg \/ FinalTip = Tip - MaxLag
    BY ScanConstants DEF FinalTip, Greater
  <2>2. end <= Tip - conf
    BY DEF RowsInv, RangeOK
  <2>3. QED
    BY <1>1, <2>1, <2>2, ScanConstants
<1>4. \A l \in Disputes(chain) : l[1] \in Blocks
  BY DisputeParts DEF RowsInv
<1>5. rows = {l \in Disputes(chain) : l[1] \in (pos + 1)..end}
  <2>1. \A b \in scanned : b <= FinalTip
    BY <1>1, <1>2, <1>3, ScanConstants
  <2>2. rows = {l \in rows : l[1] <= FinalTip}
    BY <2>1 DEF RowsInv
  <2>3. FinalDisputes(chain, scanned) = {l \in Disputes(chain) : l[1] \in scanned}
    BY <2>1 DEF FinalDisputes, Kept
  <2>4. QED
    BY <1>2, <2>2, <2>3 DEF RowsInv
<1>6. pos = end \/ pos >= floor - 1
  BY DEF RowsInv, RangeOK
<1>7. rows = {l \in D : l[1] > pos}
  BY <1>1, <1>4, <1>5, <1>6, ScanConstants
<1>8. pos < floor \/ Cardinality(rows) >= Target
  <2>1. \E n \in Nat : n = Cardinality(rows)
    BY <1>5, DisputesFinite, FS_CardinalityType DEF RowsInv
  <2>2. ~(pos >= floor) \/ ~(Cardinality(rows) < Target)
    BY <1>1 DEF RowsInv, RangeOK, More
  <2>3. QED
    BY <1>1, <2>1, <2>2, ScanConstants
<1>9. pos < floor => \A l \in D : l[1] > pos
  BY <1>1, <1>4, ScanConstants
<1>10. QED
  BY <1>1, <1>7, <1>8, <1>9

LEMMA TailNewestRows ==
  ASSUME TileInv, RowsInv, pc = "shape", kind = "tail", conf >= MaxReorg, conf >= MaxLag,
         NEW D, D = {l \in Disputes(chain) : l[1] \in floor..end}
  PROVE  Newest(rows, Target) = Newest(D, Target)
<1>1. /\ rows = {l \in D : l[1] > pos} /\ pos \in Int
      /\ (\A l \in D : l[1] > pos) \/ Cardinality(rows) >= Target
  BY TailRows
<1>2. \A l \in D : l[1] \in Int
  BY DisputeParts, ScanConstants DEF RowsInv
<1>3. CASE \A l \in D : l[1] > pos
  <2>1. rows = D
    BY <1>1, <1>3
  <2>2. QED
    BY <2>1
<1>4. CASE Cardinality(rows) >= Target
  <2>1. ASSUME NEW l \in rows PROVE {k \in rows : k[1] > l[1]} = {k \in D : k[1] > l[1]}
    BY <1>1, <1>2
  <2>2. ASSUME NEW l \in D, l \notin rows
        PROVE  ~(Cardinality({k \in D : k[1] > l[1]}) < Target)
    <3> DEFINE Newer == {k \in D : k[1] > l[1]}
    <3>1. rows \subseteq Newer
      BY <1>1, <1>2, <2>2
    <3>2. IsFiniteSet(Newer)
      <4>1. Newer \in SUBSET Disputes(chain)
        OBVIOUS
      <4>2. QED
        BY <4>1, DisputesFinite DEF RowsInv
    <3>3. Cardinality(rows) <= Cardinality(Newer) /\ Cardinality(Newer) \in Nat /\ Cardinality(rows) \in Nat
      <4> HIDE DEF Newer
      <4>1. QED
        BY <3>1, <3>2, FS_Subset, FS_CardinalityType
    <3> HIDE DEF Newer
    <3>4. ~(Cardinality(Newer) < Target)
      BY <1>4, <3>3, ScanConstants
    <3>5. QED
      BY <3>4 DEF Newer
  <2>3. Newest(rows, Target) = {l \in rows : Cardinality({k \in D : k[1] > l[1]}) < Target}
    BY <2>1 DEF Newest
  <2>4. rows \subseteq D
    BY <1>1
  <2>5. QED
    BY <2>2, <2>3, <2>4 DEF Newest
<1>5. QED
  BY <1>1, <1>3, <1>4

LEMMA TailShaped == ASSUME TileInv, RowsInv, ShapeTail PROVE TailNewest'
<1>1. /\ pc = "shape" /\ kind = "tail" /\ UNCHANGED <<kind, conf, chain, floor, end, rows>>
      /\ answer' = {Row(l, -1, resolved') : l \in Newest(rows, Target)}
  BY DEF ShapeTail, inputVars, rangeVars
<1> DEFINE D == {l \in Disputes(chain) : l[1] \in floor..end}
<1>2. SUFFICES ASSUME conf >= MaxReorg, conf >= MaxLag
               PROVE  {<<r.block, r.question>> : r \in answer'} = Newest(D, Target)
  BY <1>1 DEF TailNewest
<1>3. \A l \in Newest(rows, Target) : l = <<l[1], l[2]>>
  BY DEF Newest, RowsInv
<1>4. {<<r.block, r.question>> : r \in answer'} = {<<l[1], l[2]>> : l \in Newest(rows, Target)}
  <2>1. \A l, n, known : Row(l, n, known).block = l[1] /\ Row(l, n, known).question = l[2]
    BY DEF Row
  <2>2. PICK answers : answers = answer' /\ answers = {Row(l, -1, resolved') : l \in Newest(rows, Target)}
    BY <1>1
  <2>3. {<<r.block, r.question>> : r \in answers} = {<<l[1], l[2]>> : l \in Newest(rows, Target)}
    BY <2>1, <2>2
  <2>4. QED
    BY <2>2, <2>3
<1>5. {<<r.block, r.question>> : r \in answer'} = Newest(rows, Target)
  BY <1>3, <1>4
<1>6. QED
  BY <1>1, <1>2, <1>5, TailNewestRows
-----------------------------------------------------------------------------
LEMMA InitRows == ScanInit => RowsInv
<1> SUFFICES ASSUME ScanInit PROVE RowsInv
  OBVIOUS
<1>1. DOMAIN chain = Blocks
  BY ChainAssumption DEF ScanInit, ChainAssumption
<1>2. rows = {} /\ scanned = {} /\ pos = 1 /\ pc \in {"head", "window"} /\ (kind = "tail" => pc = "head")
  BY DEF ScanInit
<1>3. FinalDisputes(chain, scanned) = {}
  BY <1>2 DEF FinalDisputes
<1>4. RangeOK /\ RowsExact
  BY <1>2 DEF RangeOK, RowsExact
<1>5. QED
  BY <1>1, <1>2, <1>3, <1>4 DEF RowsInv

LEMMA NextRows == ASSUME TileInv, RowsInv, [ScanNext]_scanVars PROVE RowsInv'
<1> USE DEF inputVars
<1>0. CursorOK
  BY DEF TileInv
<1>1. CASE HeadRead
  BY <1>1, HeadRows
<1>2. CASE NextWindow
  BY <1>2, WindowRows
<1>3. CASE Reorg
  BY <1>3, ReorgRows
<1>4. ASSUME NEW r \in pending, LogsRead(r) PROVE RowsInv'
  BY <1>4, ReadRows
<1>5. ASSUME NEW r \in pending, Bisect(r) PROVE RowsInv'
  <2>1. /\ UNCHANGED <<kind, conf, chain, pc, end, floor, pos, scanned, twice, rows>>
        /\ pc = "ask"
    BY <1>5 DEF Bisect, Lowest
  <2>2. FinalDisputes(chain, scanned)' = FinalDisputes(chain, scanned)
    BY <2>1 DEF FinalDisputes, Kept
  <2>3. RangeOK' /\ RowsExact'
    BY <2>1 DEF RowsInv, RangeOK, RowsExact
  <2>4. QED
    BY <2>1, <2>2, <2>3 DEF RowsInv
<1>6. CASE \E r \in pending : AskFails(r)
  BY <1>0, <1>6, KeepRows DEF AskFails, RowsExact
<1>7. CASE RpcNextUrl \/ RpcPause
  BY <1>0, <1>7, KeepRows DEF RpcNextUrl, RpcPause, RowsExact
<1>8. CASE HeadFails \/ StampFails
  BY <1>0, <1>8, KeepRows DEF HeadFails, StampFails, RowsExact
<1>9. CASE WindowDone
  BY <1>0, <1>9, KeepRows DEF WindowDone, RowsExact
<1>10. CASE ScanDone
  BY <1>0, <1>10, KeepRows DEF ScanDone, RowsExact
<1>11. CASE (\E b \in Blocks : Stamp(b)) \/ StampsDone
  BY <1>0, <1>11, KeepRows DEF Stamp, Stamped, StampsDone, RowsExact
<1>12. CASE ShapeExport \/ ShapeMap \/ ShapeCache
  <2>1. /\ UNCHANGED <<kind, conf, chain, rangeVars, rows>> /\ pc = "shape" /\ pc' = "done"
        /\ kind # "tail"
    BY <1>12 DEF ShapeExport, ShapeMap, ShapeCache
  <2>2. RowsExact'
    BY <1>12, <2>1, LayersShaped DEF RowsExact, TailNewest
  <2>3. QED
    BY <1>0, <2>1, <2>2, KeepRows
<1>13. CASE ShapeTail
  <2>1. /\ UNCHANGED <<kind, conf, chain, rangeVars, rows>> /\ pc = "shape" /\ pc' = "done"
        /\ kind = "tail"
    BY <1>13 DEF ShapeTail
  <2>2. RowsExact'
    BY <1>13, <2>1, TailShaped DEF RowsExact, LayerExact
  <2>3. QED
    BY <1>0, <2>1, <2>2, KeepRows
<1>14. CASE UNCHANGED scanVars
  <2>1. UNCHANGED <<kind, conf, chain, pc, rangeVars, rows, resolved, answer>>
    BY <1>14 DEF scanVars
  <2>2. RowsExact' = RowsExact
    BY <2>1 DEF RowsExact, TailNewest, LayerExact, rangeVars
  <2>3. QED
    BY <1>0, <2>1, <2>2, KeepRows DEF RowsInv
<1>15. QED
  BY <1>1, <1>2, <1>3, <1>4, <1>5, <1>6, <1>7, <1>8, <1>9, <1>10, <1>11, <1>12, <1>13, <1>14
  DEF ScanNext, Step

\* For every chain, reorganisation, lag, window, bisection floor and pattern of failures, a
\* scan returns what the final part of the chain holds: the tail the newest disputes, the
\* layers every dispute they can key, with the rounds the chain gives them.
THEOREM RowsAlwaysExact == ScanSpec => []RowsExact
<1>1. TileInv /\ RowsInv /\ [ScanNext]_scanVars => TileInv' /\ RowsInv'
  BY NextTile, NextRows
<1>2. ScanInit => TileInv /\ RowsInv
  BY InitTile, InitRows
<1>3. RowsInv => RowsExact
  BY DEF RowsInv
<1>4. QED
  BY <1>1, <1>2, <1>3, PTL DEF ScanSpec
-----------------------------------------------------------------------------
(* The release.  The snapshot covers its window: it has every market that   *)
(* was disputed by its cutoff, and in the category of any of them, and      *)
(* among the others, some market had resolved.                              *)
Counted(k) == k # "null" /\ k \in DOMAIN ResolvedIn /\ ResolvedIn[k] > 0

SnapshotCovers ==
  /\ \A i \in InWindow : History[i].cid \in InSnapshot
  /\ Counted("other") /\ \A c \in DOMAIN CategoryOf : Counted(CategoryOf[c])

\* The row of a dispute as the chain has it.
ChainRow(i) == DisputeRow(i, History[i].cid, History[i].at)

InRate(list) == {r \in list : r.joinable /\ ~r.post}

\* Rows read from the chain: those of the rate are the joinable ones of the window.
FromChain(list, labelled) ==
  /\ InRate(list) = {ChainRow(i) : i \in Whole(labelled)}
  /\ \A r \in list : \E i \in Layer : r = ChainRow(i)

\* A joinable row, from wherever, is of a dispute there is, and of its market.
Mined(list) == \A r \in list : r.joinable => r.dispute \in Layer /\ r.cid = History[r.dispute].cid

HappenedOK == happened \in Nat /\ happened <= Len(History) /\ InWindow \subseteq 1..happened

\* The cache, and what was loaded from it, is the disputes of the window but the NegRisk ones.
CacheOK ==
  /\ cache.state \in {Absent, "whole"}
  /\ cache.state = "whole" => cache.rows = {ChainRow(i) : i \in Whole({})}
  /\ read = "cache" => numerator = {ChainRow(i) : i \in Whole({})}

RowsMined ==
  /\ Mined(exported) /\ Mined(parquet.rows) /\ Mined(numerator)
  /\ \A r \in numerator : r.joinable

\* What is exported, and then stands in the release, is what the chain gave.
ExportOK ==
  /\ exporter \in {"idle", "read", "copying", "copied"}
  /\ exporter # "idle" /\ origin.source = "rpc" => FromChain(exported, origin.labelled)
  /\ from.source = "rpc" => parquet.state = "whole" /\ FromChain(parquet.rows, from.labelled)
  /\ exporter = "copied" => parquet.rows = exported /\ from = origin

\* stats.json is of an earlier export until the export ends, and then of the rows beside it.
StatsOK ==
  /\ exports \in Nat /\ stats.run \in Nat /\ stats.run <= exports
  /\ exporter # "idle" => stats.run < exports
  /\ stats.run = exports /\ exporter = "idle" /\ from.source = "rpc" =>
       stats.in_window_disputes = Cardinality({r \in parquet.rows : ~r.post})

ReleaseInv == HappenedOK /\ CacheOK /\ RowsMined /\ ExportOK /\ StatsOK
-----------------------------------------------------------------------------
LEMMA LayerFacts ==
  /\ Len(History) \in Nat /\ IsFiniteSet(Layer)
  /\ \A i \in Layer : /\ i \in Nat \ {0} /\ i <= Len(History) /\ History[i].cid \in Nat \ {0}
                      /\ History[i].asked \in Nat /\ History[i].at \in Nat
  /\ \A i, j \in Layer : i < j => History[i].at < History[j].at
  /\ Cutoff \in Nat /\ InSnapshot \subseteq Nat \ {0}
<1> DEFINE Dispute == [cid : Nat \ {0}, negrisk : BOOLEAN, asked : Nat, at : Nat]
<1>1. History \in Seq(Dispute)
  BY HistoryAssumption DEF HistoryAssumption
<1>2. Len(History) \in Nat /\ \A i \in Layer : History[i] \in Dispute
  <2> HIDE DEF Dispute
  <2> QED
    BY <1>1 DEF Layer
<1>3. IsFiniteSet(Layer)
  <2>1. 1 \in Int /\ Len(History) \in Int
    BY <1>2
  <2>2. QED
    BY <2>1, FS_Interval DEF Layer
<1>4. \A i \in Layer : i \in Nat \ {0} /\ i <= Len(History)
  BY <1>2 DEF Layer
<1>5. \A i \in Layer : History[i].cid \in Nat \ {0} /\ History[i].asked \in Nat /\ History[i].at \in Nat
  BY <1>2
<1>6. QED
  BY <1>2, <1>3, <1>4, <1>5, HistoryAssumption, SnapshotAssumption
  DEF HistoryAssumption, SnapshotAssumption, Layer

\* The window is the beginning of the history.
LEMMA WindowFirst ==
  /\ IsFiniteSet(InWindow) /\ Cardinality(InWindow) \in Nat /\ Cardinality(InWindow) <= Len(History)
  /\ InWindow \subseteq 1..Cardinality(InWindow)
<1>1. InWindow \in SUBSET Layer
  BY DEF InWindow
<1>2. Cardinality(Layer) = Len(History)
  <2>1. 1 \in Int /\ Len(History) \in Nat /\ Len(History) \in Int
    BY LayerFacts
  <2>2. Cardinality(1..Len(History)) = IF 1 > Len(History) THEN 0 ELSE Len(History) - 1 + 1
    BY <2>1, FS_Interval
  <2>3. QED
    BY <2>1, <2>2 DEF Layer
<1>3. IsFiniteSet(InWindow) /\ Cardinality(InWindow) \in Nat /\ Cardinality(InWindow) <= Len(History)
  <2>1. IsFiniteSet(InWindow) /\ Cardinality(InWindow) <= Cardinality(Layer)
    BY <1>1, LayerFacts, FS_Subset
  <2>2. QED
    BY <1>2, <2>1, FS_CardinalityType
<1>4. ASSUME NEW i \in InWindow PROVE i \in 1..Cardinality(InWindow)
  <2>1. i \in Layer /\ i \in Nat \ {0} /\ History[i].at <= Cutoff
    BY LayerFacts DEF InWindow
  <2>2. ASSUME NEW j \in 1..i PROVE j \in InWindow
    <3>1. j \in Layer /\ j \in Nat /\ (j < i \/ j = i)
      BY <2>1, LayerFacts DEF Layer
    <3>2. History[j].at <= Cutoff
      BY <2>1, <3>1, LayerFacts
    <3>3. QED
      BY <3>1, <3>2 DEF InWindow
  <2>3. 1..i \in SUBSET InWindow
    BY <2>2
  <2>4. Cardinality(1..i) = i
    <3>1. Cardinality(1..i) = IF 1 > i THEN 0 ELSE i - 1 + 1
      BY <2>1, FS_Interval
    <3>2. QED
      BY <2>1, <3>1
  <2>5. Cardinality(1..i) <= Cardinality(InWindow)
    BY <1>3, <2>3, FS_Subset
  <2>6. QED
    BY <1>3, <2>1, <2>4, <2>5
<1>5. QED
  BY <1>3, <1>4

LEMMA RowOf ==
  ASSUME NEW i \in Layer
  PROVE  /\ ChainRow(i).dispute = i /\ ChainRow(i).cid = History[i].cid
         /\ ChainRow(i).joinable <=> History[i].cid \in InSnapshot
         /\ ~ChainRow(i).post <=> i \in InWindow
<1>1. ChainRow(i).dispute = i /\ ChainRow(i).cid = History[i].cid
  BY DEF ChainRow, DisputeRow
<1>2. ChainRow(i).joinable = (History[i].cid \in InSnapshot)
  BY DEF ChainRow, DisputeRow
<1>3. ChainRow(i).post = (History[i].at > Cutoff)
  BY DEF ChainRow, DisputeRow
<1>4. (i \in InWindow) = ~(History[i].at > Cutoff)
  <2>1. History[i].at \in Int /\ Cutoff \in Int
    BY LayerFacts
  <2>2. (i \in InWindow) <=> History[i].at <= Cutoff
    BY DEF InWindow
  <2>3. QED
    BY <2>1, <2>2
<1>5. QED
  BY <1>1, <1>2, <1>3, <1>4

\* What happened holds the window, so the chain has the disputes of the rate.
LEMMA ChainGives ==
  ASSUME HappenedOK, NEW labelled
  PROVE  FromChain(RpcRows(labelled), labelled) /\ Mined(RpcRows(labelled))
<1> DEFINE S == {j \in 1..happened : j \notin NegRiskDisputes \/ j \in labelled}
<1>1. RpcRows(labelled) = {ChainRow(i) : i \in S}
  BY DEF RpcRows, ChainRow
<1>2. S \subseteq Layer /\ InWindow \subseteq 1..happened
  BY LayerFacts DEF HappenedOK, Layer
<1>3. ASSUME NEW i \in S PROVE ChainRow(i).joinable /\ ~ChainRow(i).post <=> i \in Whole(labelled)
  BY <1>2, RowOf DEF Whole
<1>4. Whole(labelled) \subseteq S
  BY <1>2 DEF Whole
<1>5. InRate(RpcRows(labelled)) = {ChainRow(i) : i \in Whole(labelled)}
  <2> HIDE DEF S
  <2> QED
    BY <1>1, <1>3, <1>4 DEF InRate
<1>6. QED
  BY <1>1, <1>2, <1>5, RowOf DEF FromChain, Mined

\* A row of the index that joins has no condition of its own making.
LEMMA IndexGives ==
  ASSUME HappenedOK, NEW upto \in 1..happened
  PROVE  Mined(IndexerRows(upto))
<1> DEFINE Named(i) == IF i \in NegRiskDisputes /\ ~negrisk_map THEN -History[i].cid ELSE History[i].cid
<1> SUFFICES ASSUME NEW i \in 1..upto, NEW ts, DisputeRow(i, Named(i), ts).joinable
             PROVE  /\ DisputeRow(i, Named(i), ts).dispute \in Layer
                    /\ DisputeRow(i, Named(i), ts).cid = History[DisputeRow(i, Named(i), ts).dispute].cid
  BY DEF Mined, IndexerRows
<1>1. i \in Layer
  BY LayerFacts DEF HappenedOK, Layer
<1>2. Named(i) \in InSnapshot
  BY DEF DisputeRow
<1>3. Named(i) = History[i].cid
  <2>1. History[i].cid \in Nat \ {0} /\ -History[i].cid \notin InSnapshot
    BY <1>1, LayerFacts
  <2>2. QED
    BY <1>2, <2>1
<1>4. DisputeRow(i, Named(i), ts).dispute = i /\ DisputeRow(i, Named(i), ts).cid = Named(i)
  BY DEF DisputeRow
<1>5. QED
  BY <1>1, <1>3, <1>4

LEMMA InitRelease == ReleaseInit => ReleaseInv
<1> SUFFICES ASSUME ReleaseInit PROVE ReleaseInv
  OBVIOUS
<1> USE DEF ReleaseInit
<1>1. HappenedOK
  BY WindowFirst, LayerFacts DEF HappenedOK
<1>2. CacheOK
  BY DEF CacheOK, Absent
<1>3. RowsMined
  BY DEF RowsMined, Mined
<1>4. ExportOK
  BY DEF ExportOK, Nowhere
<1>5. StatsOK
  BY DEF StatsOK, Nowhere
<1>6. QED
  BY <1>1, <1>2, <1>3, <1>4, <1>5 DEF ReleaseInv

\* A dispute more on the chain, or more of what the index's readers know, is in no file yet.
LEMMA WorldRelease ==
  ASSUME ReleaseInv, DisputeHappens \/ MapBuilt \/ BlockTimesRead
  PROVE  ReleaseInv'
<1> USE DEF ReleaseInv, fileVars, exportVars
<1>1. UNCHANGED <<exportVars, fileVars, numerator, read>> /\ happened' \in {happened, happened + 1}
  BY DEF DisputeHappens, MapBuilt, BlockTimesRead
<1>2. HappenedOK'
  <2>1. happened' <= Len(History)
    BY LayerFacts DEF HappenedOK, DisputeHappens, MapBuilt, BlockTimesRead
  <2>2. QED
    BY <1>1, <2>1, LayerFacts DEF HappenedOK
<1>3. CacheOK'
  BY <1>1 DEF CacheOK
<1>4. RowsMined'
  BY <1>1 DEF RowsMined
<1>5. ExportOK'
  BY <1>1 DEF ExportOK
<1>6. StatsOK'
  BY <1>1 DEF StatsOK
<1>7. QED
  BY <1>2, <1>3, <1>4, <1>5, <1>6

LEMMA ExportsRelease ==
  ASSUME ReleaseInv, NEW list, NEW where, Exporting(list, where), Mined(list),
         where.source = "rpc" => FromChain(list, where.labelled)
  PROVE  ReleaseInv'
<1> USE DEF ReleaseInv, Exporting, fileVars
<1>1. HappenedOK' /\ CacheOK'
  BY DEF HappenedOK, CacheOK
<1>2. RowsMined'
  BY DEF RowsMined
<1>3. ExportOK'
  BY DEF ExportOK
<1>4. StatsOK'
  BY DEF StatsOK
<1>5. QED
  BY <1>1, <1>2, <1>3, <1>4

LEMMA CopyingRelease == ASSUME ReleaseInv, Copying PROVE ReleaseInv'
<1> USE DEF ReleaseInv, Copying
<1>1. HappenedOK' /\ CacheOK'
  BY DEF HappenedOK, CacheOK
<1>2. from.source = "rpc" => parquet' = parquet
  BY DEF ExportOK, Absent
<1>3. RowsMined'
  BY DEF RowsMined, Mined
<1>4. ExportOK'
  BY <1>2 DEF ExportOK
<1>5. StatsOK'
  BY <1>2 DEF StatsOK
<1>6. QED
  BY <1>1, <1>3, <1>4, <1>5

LEMMA CopiedRelease == ASSUME ReleaseInv, Copied PROVE ReleaseInv'
<1> USE DEF ReleaseInv, Copied
<1>1. HappenedOK' /\ CacheOK'
  BY DEF HappenedOK, CacheOK
<1>2. RowsMined'
  BY DEF RowsMined
<1>3. ExportOK'
  BY DEF ExportOK
<1>4. StatsOK'
  BY DEF StatsOK
<1>5. QED
  BY <1>1, <1>2, <1>3, <1>4

LEMMA DescribedRelease == ASSUME ReleaseInv, Described PROVE ReleaseInv'
<1> USE DEF ReleaseInv, Described
<1>1. HappenedOK' /\ CacheOK'
  BY DEF HappenedOK, CacheOK
<1>2. RowsMined'
  BY DEF RowsMined, Mined
<1>3. ExportOK'
  BY DEF ExportOK
<1>4. StatsOK'
  BY DEF StatsOK, ExportOK, _stats
<1>5. QED
  BY <1>1, <1>2, <1>3, <1>4

LEMMA DiesRelease == ASSUME ReleaseInv, ExportDies PROVE ReleaseInv'
<1> USE DEF ReleaseInv, ExportDies, fileVars
<1>1. HappenedOK' /\ CacheOK'
  BY DEF HappenedOK, CacheOK
<1>2. RowsMined'
  BY DEF RowsMined, Mined
<1>3. ExportOK'
  BY DEF ExportOK
<1>4. StatsOK'
  BY DEF StatsOK
<1>5. QED
  BY <1>1, <1>2, <1>3, <1>4

\* A load changes what was loaded, and the cache where it was built.
LEMMA LoadsKeep ==
  ASSUME ReleaseInv, NEW list, NEW where, Loaded(list, where), CacheOK', Mined(list), \A r \in list : r.joinable
  PROVE  ReleaseInv'
<1> USE DEF ReleaseInv, Loaded, exportVars
<1>1. HappenedOK' /\ ExportOK' /\ StatsOK'
  BY DEF HappenedOK, ExportOK, StatsOK
<1>2. RowsMined'
  BY DEF RowsMined
<1>3. QED
  BY <1>1, <1>2

LEMMA WholeMined ==
  ASSUME NEW labelled
  PROVE  LET list == {ChainRow(i) : i \in Whole(labelled)} IN Mined(list) /\ \A r \in list : r.joinable
<1>1. \A i \in Whole(labelled) : i \in Layer /\ History[i].cid \in InSnapshot
  BY DEF Whole, InWindow
<1>2. QED
  BY <1>1, RowOf DEF Mined

LEMMA LoadRelease == ASSUME ReleaseInv, LoadsIndex \/ LoadsRelease PROVE ReleaseInv'
<1> USE DEF ReleaseInv
<1>1. CASE LoadsIndex
  <2>1. PICK upto \in 1..happened : Loaded({r \in IndexerRows(upto) : r.joinable}, "index")
    BY <1>1 DEF LoadsIndex
  <2>2. Mined({r \in IndexerRows(upto) : r.joinable})
    BY IndexGives DEF Mined
  <2>3. CacheOK'
    BY <1>1, <2>1 DEF CacheOK, LoadsIndex, Loaded
  <2>4. QED
    BY <2>1, <2>2, <2>3, LoadsKeep
<1>2. CASE LoadsRelease
  <2>1. Loaded(Released, "release") /\ \A r \in Released : r.joinable
    BY <1>2 DEF LoadsRelease, Released
  <2>2. Mined(Released)
    BY DEF RowsMined, Mined, Released
  <2>3. CacheOK'
    BY <1>2, <2>1 DEF CacheOK, LoadsRelease, Loaded
  <2>4. QED
    BY <2>1, <2>2, <2>3, LoadsKeep
<1>3. QED
  BY <1>1, <1>2

LEMMA CacheRelease == ASSUME ReleaseInv, build_dispute_cache PROVE ReleaseInv'
<1> USE DEF ReleaseInv
<1> DEFINE whole == {ChainRow(i) : i \in Whole({})}
<1>1. CacheRows = whole
  BY ChainGives DEF FromChain, InRate, CacheRows
<1>2. cache'.state = "whole" /\ cache'.rows = whole
  BY <1>1 DEF build_dispute_cache, CacheOK
<1>3. Loaded(whole, "cache")
  BY <1>2 DEF build_dispute_cache
<1>4. CacheOK'
  BY <1>2, <1>3 DEF CacheOK, Loaded
<1>5. Mined(whole) /\ \A r \in whole : r.joinable
  BY WholeMined
<1>6. QED
  BY <1>3, <1>4, <1>5, LoadsKeep

LEMMA NextRelease == ReleaseInv /\ [ReleaseNext]_releaseVars => ReleaseInv'
<1> SUFFICES ASSUME ReleaseInv, [ReleaseNext]_releaseVars PROVE ReleaseInv'
  OBVIOUS
<1>1. CASE DisputeHappens \/ MapBuilt \/ BlockTimesRead
  BY <1>1, WorldRelease
<1>2. CASE ExportsIndex
  <2>1. PICK upto \in 1..happened : Exporting(IndexerRows(upto), [source |-> "indexer", labelled |-> {}])
    BY <1>2 DEF ExportsIndex
  <2>2. Mined(IndexerRows(upto))
    BY IndexGives DEF ReleaseInv
  <2>3. QED
    BY <2>1, <2>2, ExportsRelease
<1>3. CASE ExportsChain
  <2>1. PICK labelled \in SUBSET (NegRiskDisputes \cap 1..happened) :
          Exporting(RpcRows(labelled), [source |-> "rpc", labelled |-> labelled])
    BY <1>3 DEF ExportsChain
  <2>2. FromChain(RpcRows(labelled), labelled) /\ Mined(RpcRows(labelled))
    BY ChainGives DEF ReleaseInv
  <2>3. QED
    BY <2>1, <2>2, ExportsRelease
<1>4. CASE Copying
  BY <1>4, CopyingRelease
<1>5. CASE Copied
  BY <1>5, CopiedRelease
<1>6. CASE Described
  BY <1>6, DescribedRelease
<1>7. CASE ExportDies
  BY <1>7, DiesRelease
<1>8. CASE LoadsIndex \/ LoadsRelease
  BY <1>8, LoadRelease
<1>9. CASE build_dispute_cache
  BY <1>9, CacheRelease
<1>10. CASE UNCHANGED releaseVars
  <2> USE <1>10 DEF releaseVars, exportVars, fileVars, ReleaseInv
  <2>1. HappenedOK' /\ CacheOK'
    BY DEF HappenedOK, CacheOK
  <2>2. RowsMined' /\ ExportOK' /\ StatsOK'
    BY DEF RowsMined, ExportOK, StatsOK
  <2>3. QED
    BY <2>1, <2>2
<1>11. QED
  BY <1>1, <1>2, <1>3, <1>4, <1>5, <1>6, <1>7, <1>8, <1>9, <1>10 DEF ReleaseNext

LEMMA ReleaseAlways == ReleaseSpec => []ReleaseInv
  BY InitRelease, NextRelease, PTL DEF ReleaseSpec

LEMMA FrozenLayer == ReleaseInv => LayerFrozen
<1> SUFFICES ASSUME ReleaseInv PROVE LayerFrozen
  OBVIOUS
<1>1. ASSUME NEW labelled PROVE {r.dispute : r \in {ChainRow(i) : i \in Whole(labelled)}} = Whole(labelled)
  <2>1. \A i \in Whole(labelled) : ChainRow(i).dispute = i
    BY DEF ChainRow, DisputeRow
  <2>2. QED
    BY <2>1
<1>2. read = "cache" => {r.dispute : r \in numerator} = Whole({})
  BY <1>1 DEF ReleaseInv, CacheOK
<1>3. from.source = "rpc" => {r.dispute : r \in Released} = Whole(from.labelled)
  BY <1>1 DEF ReleaseInv, ExportOK, FromChain, InRate, Released
<1>4. QED
  BY <1>2, <1>3 DEF LayerFrozen

\* Every dispute of the window joins, so the two counts are of the same rows.
LEMMA FrozenStats == SnapshotCovers /\ ReleaseInv => StatsCount
<1> SUFFICES ASSUME SnapshotCovers, ReleaseInv, from.source = "rpc"
             PROVE  {r \in parquet.rows : ~r.post} = Released
  BY DEF StatsCount, ReleaseInv, StatsOK
<1>1. ASSUME NEW r \in parquet.rows, ~r.post PROVE r.joinable
  <2>1. PICK i \in Layer : r = ChainRow(i)
    BY DEF ReleaseInv, ExportOK, FromChain
  <2>2. i \in InWindow
    BY <1>1, <2>1, RowOf
  <2>3. History[i].cid \in InSnapshot
    BY <2>2 DEF SnapshotCovers
  <2>4. QED
    BY <2>1, <2>3, RowOf
<1>2. QED
  BY <1>1 DEF Released

Keyed(S, key, k) == {c \in S : key[c] = k}

KeyedIn(S, key, K) == {c \in S : key[c] \in K}

\* What is counted key by key adds up to what has one of the keys.
LEMMA CountByKey ==
  ASSUME NEW S, IsFiniteSet(S), NEW key, NEW K, IsFiniteSet(K), NEW w,
         \A k \in K : w[k] = Cardinality(Keyed(S, key, k))
  PROVE  SumFunctionOnSet(w, K) = Cardinality(KeyedIn(S, key, K))
<1> USE DEF Keyed, KeyedIn
<1> DEFINE Of(s) == {c \in S : key[c] \in s}
           G == {s \in SUBSET K : SumFunctionOnSet(w, s) = Cardinality(Of(s))}
<1>1. ASSUME NEW s \in SUBSET K, \A t \in SUBSET s : t # s => t \in G
      PROVE  s \in G
  <2>1. CASE s = {}
    <3>1. Of(s) = {}
      BY <2>1
    <3>2. QED
      BY <2>1, <3>1, SumEmpty, FS_EmptySet
  <2>2. CASE s # {}
    <3> DEFINE k == Pick(s)
               t == s \ {k}
               One == {c \in S : key[c] = k}
    <3>1. k \in s /\ k \in K /\ t \in SUBSET s /\ t # s
      BY <2>2, PickIn
    <3>2. SumFunctionOnSet(w, t) = Cardinality(Of(t))
      BY <1>1, <3>1
    <3>3. IsFiniteSet(s) /\ SumFunctionOnSet(w, s) = w[k] + SumFunctionOnSet(w, t)
      BY <2>2, SumPicked, FS_Subset
    <3>4. w[k] = Cardinality(One)
      BY <3>1
    <3>5. Of(s) = One \cup Of(t) /\ One \cap Of(t) = {}
      BY <3>1
    <3>6. IsFiniteSet(One) /\ IsFiniteSet(Of(t)) /\ Cardinality(One) \in Nat /\ Cardinality(Of(t)) \in Nat
      BY FS_Subset, FS_CardinalityType
    <3> HIDE DEF k, t, One, Of
    <3>7. Cardinality(Of(s)) = Cardinality(One) + Cardinality(Of(t)) - Cardinality({})
      BY <3>5, <3>6, FS_Union
    <3>8. SumFunctionOnSet(w, s) = Cardinality(Of(s))
      BY <3>2, <3>3, <3>4, <3>6, <3>7, FS_EmptySet
    <3>9. QED
      BY <3>8
  <2>3. QED
    BY <2>1, <2>2
<1> HIDE DEF G
<1>2. \A s \in SUBSET K : s \in G
  BY <1>1, SubsetsAll
<1>3. QED
  BY <1>2 DEF G

\* The disputed conditions are finitely many.
LEMMA CidsFinite == RowsMined => IsFiniteSet({r.cid : r \in numerator})
<1> SUFFICES ASSUME RowsMined PROVE IsFiniteSet({r.cid : r \in numerator})
  OBVIOUS
<1> DEFINE cids == {r.cid : r \in numerator}
           all == {History[i].cid : i \in Layer}
           f == [i \in Layer |-> History[i].cid]
<1>1. f \in Surjection(Layer, all)
  BY DEF Surjection
<1>2. IsFiniteSet(all)
  <2> HIDE DEF f, all
  <2> QED
    BY <1>1, LayerFacts, FS_Surjection
<1>3. cids \in SUBSET all
  BY DEF RowsMined, Mined
<1>4. QED
  <2> HIDE DEF all, cids
  <2>1. IsFiniteSet(cids)
    BY <1>2, <1>3, FS_Subset
  <2>2. QED
    BY <2>1 DEF cids

LEMMA FrozenRates == SnapshotCovers /\ ReleaseInv => RatesCount
<1> SUFFICES ASSUME SnapshotCovers, ReleaseInv, NEW readable \in BOOLEAN,
                    base_rates(dispute_counts_by_category(readable)) # {}
             PROVE  LET rates == base_rates(dispute_counts_by_category(readable))
                    IN  SumFunction([r \in rates |-> r.disputes]) = Cardinality({r.cid : r \in numerator})
  BY DEF RatesCount
<1> DEFINE cids == {r.cid : r \in numerator}
           cat(c) == IF readable /\ c \in DOMAIN CategoryOf THEN CategoryOf[c] ELSE "other"
           counts == [k \in {cat(c) : c \in cids} |-> Cardinality({c \in cids : cat(c) = k})]
           keys == (DOMAIN ResolvedIn \cup DOMAIN counts) \ {"null"}
           rates == {r \in {category_base_rate(k, counts) : k \in keys} : r.resolved > 0}
           w == [r \in rates |-> r.disputes]
           key == [c \in cids |-> category_base_rate(cat(c), counts)]
<1>1. dispute_counts_by_category(readable) = counts
  BY DEF dispute_counts_by_category
<1>2. base_rates(counts) = rates
  BY <1>1 DEF base_rates
<1>3. IsFiniteSet(cids)
  BY CidsFinite DEF ReleaseInv
<1>4. ASSUME NEW c PROVE Counted(cat(c))
  BY DEF SnapshotCovers
<1>5. ASSUME NEW k PROVE /\ category_base_rate(k, counts).category = k
                         /\ category_base_rate(k, counts).disputes = IF k \in DOMAIN counts THEN counts[k] ELSE 0
                         /\ category_base_rate(k, counts).resolved = IF k \in DOMAIN ResolvedIn THEN ResolvedIn[k] ELSE 0
  BY DEF category_base_rate
<1> HIDE DEF cat
<1>6. ASSUME NEW k PROVE IF k \in DOMAIN counts THEN counts[k] = Cardinality({c \in cids : cat(c) = k})
                         ELSE {c \in cids : cat(c) = k} = {}
  OBVIOUS
<1> HIDE DEF counts
<1>7. ASSUME NEW c \in cids PROVE key[c] \in rates
  <2>1. cat(c) \in keys
    BY <1>4 DEF Counted
  <2>2. key[c].resolved > 0
    BY <1>4, <1>5 DEF Counted
  <2>3. QED
    BY <2>1, <2>2
<1>8. ASSUME NEW r \in rates
      PROVE  /\ r = category_base_rate(r.category, counts)
             /\ r.category \in DOMAIN ResolvedIn
             /\ r.disputes = Cardinality({c \in cids : key[c] = r})
  <2>1. PICK k \in keys : r = category_base_rate(k, counts)
    OBVIOUS
  <2>2. r.category = k /\ k \in DOMAIN ResolvedIn
    <3>1. r.category = k
      BY <2>1, <1>5
    <3>2. k \in DOMAIN ResolvedIn
      <4>1. SUFFICES ASSUME k \notin DOMAIN ResolvedIn PROVE FALSE
        OBVIOUS
      <4>2. r.resolved = 0
        BY <2>1, <4>1, <1>5
      <4>3. QED
        BY <4>2
    <3>3. QED
      BY <3>1, <3>2
  <2>3. \A c \in cids : key[c] = r <=> cat(c) = k
    <3>1. ASSUME NEW c \in cids, key[c] = r PROVE cat(c) = k
      BY <1>5, <2>2, <3>1
    <3>2. ASSUME NEW c \in cids, cat(c) = k PROVE key[c] = r
      BY <2>1, <3>2
    <3>3. QED
      BY <3>1, <3>2
  <2>4. {c \in cids : key[c] = r} = {c \in cids : cat(c) = k}
    BY <2>3
  <2> HIDE DEF cids, key, rates, keys
  <2>5. r.disputes = Cardinality({c \in cids : cat(c) = k})
    <3>1. CASE k \in DOMAIN counts
      BY <2>1, <3>1, <1>5, <1>6
    <3>2. CASE k \notin DOMAIN counts
      BY <2>1, <3>2, <1>5, <1>6, FS_EmptySet
    <3>3. QED
      BY <3>1, <3>2
  <2>6. QED
    BY <2>1, <2>2, <2>4, <2>5
<1>9. IsFiniteSet(rates)
  <2> DEFINE f == [r \in rates |-> r.category]
  <2> HIDE DEF rates, keys, cids, key, w
  <2>1. f \in Injection(rates, DOMAIN ResolvedIn)
    <3>1. f \in [rates -> DOMAIN ResolvedIn]
      BY <1>8
    <3>2. \A a, b \in rates : f[a] = f[b] => a = b
      BY <1>8
    <3>3. QED
      BY <3>1, <3>2 DEF Injection, IsInjective
  <2>2. IsFiniteSet(DOMAIN ResolvedIn)
    BY SnapshotAssumption DEF SnapshotAssumption
  <2> HIDE DEF f
  <2>3. QED
    BY <2>1, <2>2, FS_Injection
<1>10. KeyedIn(cids, key, rates) = cids
  BY <1>7 DEF KeyedIn
<1>11. ASSUME NEW r \in rates PROVE w[r] = Cardinality(Keyed(cids, key, r))
  BY <1>8 DEF Keyed
<1>12. DOMAIN w = rates
  OBVIOUS
<1> HIDE DEF rates, keys, cids, key, w
<1>13. SumFunctionOnSet(w, rates) = Cardinality(KeyedIn(cids, key, rates))
  BY <1>3, <1>9, <1>11, CountByKey
<1>14. SumFunction(w) = Cardinality(cids)
  BY <1>10, <1>12, <1>13 DEF SumFunction
<1>15. QED
  BY <1>1, <1>2, <1>14 DEF w, cids

\* The released layer is frozen: however far it is extended, through exports that died and
\* files torn, a release of the chain, and the cache, hold the disputes of the window.
THEOREM LayerStaysFrozen == ReleaseSpec => []LayerFrozen
  BY ReleaseAlways, FrozenLayer, PTL

\* Where the snapshot covers its window, stats.json and the table of rates count those
\* disputes, each market of them once.
THEOREM RateStaysFrozen == ASSUME SnapshotCovers PROVE ReleaseSpec => []RateFrozen
<1>1. ReleaseInv => RateFrozen
  BY FrozenLayer, FrozenStats, FrozenRates DEF RateFrozen
<1>2. QED
  BY <1>1, ReleaseAlways, PTL
-----------------------------------------------------------------------------
(* The same window by construction, as load_disputes has it, when nothing   *)
(* is exported or loaded from the index: all rows then have the times and   *)
(* markets of the chain.                                                   *)
ChainSpec == ReleaseInit /\ [][ReleaseNext /\ ~ExportsIndex /\ ~LoadsIndex]_releaseVars

OfChain(list) == \A r \in list : \E i \in Layer : r = ChainRow(i)

ChainInv == HappenedOK /\ CacheOK /\ OfChain(exported) /\ OfChain(parquet.rows) /\ NumeratorInWindow

LEMMA ChainNext == ReleaseInv /\ ChainInv /\ [ReleaseNext /\ ~ExportsIndex /\ ~LoadsIndex]_releaseVars => ChainInv'
<1> SUFFICES ASSUME ReleaseInv, ChainInv, [ReleaseNext /\ ~ExportsIndex /\ ~LoadsIndex]_releaseVars
             PROVE  ChainInv'
  OBVIOUS
<1>1. HappenedOK' /\ CacheOK'
  BY NextRelease DEF ReleaseInv
<1>2. OfChain(exported')
  <2>1. CASE ExportsChain
    <3>1. PICK labelled : exported' = RpcRows(labelled)
      BY <2>1 DEF ExportsChain, Exporting
    <3>2. OfChain(RpcRows(labelled))
      BY ChainGives DEF ReleaseInv, FromChain, OfChain
    <3>3. QED
      BY <3>1, <3>2
  <2>2. CASE ~ExportsChain
    <3>1. exported' \in {exported, {}}
      BY <2>2 DEF ReleaseNext, DisputeHappens, MapBuilt, BlockTimesRead, Copying, Copied, Described, ExportDies,
                  LoadsRelease, build_dispute_cache, Loaded, releaseVars, exportVars
    <3>2. QED
      BY <3>1 DEF ChainInv, OfChain
  <2>3. QED
    BY <2>1, <2>2
<1>3. OfChain(parquet'.rows)
  <2>1. parquet'.rows \in {parquet.rows, exported, {}}
    BY DEF ReleaseNext, DisputeHappens, MapBuilt, BlockTimesRead, ExportsChain, Exporting, Copying, Copied, Described,
           ExportDies, LoadsRelease, build_dispute_cache, Loaded, releaseVars, fileVars
  <2>2. QED
    BY <2>1 DEF ChainInv, OfChain
<1>4. NumeratorInWindow'
  <2>1. CASE LoadsRelease
    <3>1. ASSUME NEW r \in Released PROVE r.dispute \in InWindow
      <4>1. PICK i \in Layer : r = ChainRow(i)
        BY DEF ChainInv, OfChain, Released
      <4>2. QED
        BY <4>1, RowOf DEF Released
    <3>2. numerator' = Released
      BY <2>1 DEF LoadsRelease, Loaded
    <3>3. QED
      BY <3>1, <3>2 DEF NumeratorInWindow
  <2>2. CASE build_dispute_cache
    <3>1. numerator' = {ChainRow(i) : i \in Whole({})}
      BY <1>1, <2>2 DEF build_dispute_cache, Loaded, CacheOK
    <3>2. \A i \in Whole({}) : i \in Layer /\ i \in InWindow
      BY DEF Whole, InWindow
    <3>3. QED
      BY <3>1, <3>2, RowOf DEF NumeratorInWindow
  <2>3. CASE UNCHANGED numerator
    BY <2>3 DEF ChainInv, NumeratorInWindow
  <2>4. QED
    BY <2>1, <2>2, <2>3
    DEF ReleaseNext, DisputeHappens, MapBuilt, BlockTimesRead, ExportsChain, Exporting, Copying, Copied, Described,
        ExportDies, releaseVars
<1>5. QED
  BY <1>1, <1>2, <1>3, <1>4 DEF ChainInv

\* "keeping both sides on the same window BY CONSTRUCTION" (disputes.py, load_disputes) is
\* so of what comes from the chain: however the layer is extended, whatever exports die and
\* whichever file the numerator is read from, each of its disputes happened by the cutoff.
THEOREM ChainKeepsWindow == ChainSpec => []NumeratorInWindow
<1>1. ReleaseInit => ReleaseInv /\ ChainInv
  BY InitRelease DEF ReleaseInv, ChainInv, ReleaseInit, OfChain, NumeratorInWindow
<1>2. ReleaseInv /\ [ReleaseNext /\ ~ExportsIndex /\ ~LoadsIndex]_releaseVars => ReleaseInv'
  BY NextRelease
<1>3. ChainInv => NumeratorInWindow
  BY DEF ChainInv
<1>4. QED
  BY <1>1, <1>2, <1>3, ChainNext, PTL DEF ChainSpec
=============================================================================
