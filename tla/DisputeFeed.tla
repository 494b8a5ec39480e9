------------------------------ MODULE DisputeFeed ------------------------------
(***************************************************************************)
(* What the disputes explorer of the web application shows: the released    *)
(* layer with the live feed behind it (webapp/backend/services.py), the     *)
(* feed from an Envio index while that is fresh, else from the tail scanned *)
(* from the chain, with a cache at every stage (webapp/backend/live.py).    *)
(* The threads of the tail's scan are in LiveTail.                         *)
(***************************************************************************)
EXTENDS Integers, FiniteSets, Sequences

CONSTANTS
  Feed,             \* the disputes in order: [cid, negrisk, asked, at], the last two days
  Horizon,          \* bounds the days
  FreshFor,         \* ENVIO_FRESH_MAX_S
  Target,           \* _TAIL_TARGET
  Readers           \* requests of the explorer

ASSUME FeedAssumption ==
  /\ FreshFor \in Nat /\ Target \in Nat \ {0} /\ Horizon \in Nat
  /\ \A i \in 1..Len(Feed) : /\ Feed[i].asked \in Nat /\ Feed[i].at \in Nat
                              /\ Feed[i].asked <= Feed[i].at /\ Feed[i].asked + FreshFor < Horizon
  /\ \A i, j \in 1..Len(Feed) : i < j => Feed[i].at <= Feed[j].at

NoCid == "None"
Nothing == "nothing"
Uncached == [cached |-> FALSE, rows |-> {}]

VARIABLES
  today, indexed, released,     \* the day, disputes the index has, disputes in the layer
  tail, tail_until, scanning,   \* _tail["rows"], whether they are fresh, _tail["refreshing"]
  refused,                      \* the system refused the thread of a scan, and the flag stays set
  status,                       \* the cached head of the index: what it says, or Nothing
  envio,                        \* the cached rows of the index, none after a failure
  merged, merged_until,         \* _merged_cache
  reader                        \* the requests: [at, base, rows]

tailCacheVars == <<tail, tail_until, scanning, refused>>
envioCacheVars == <<status, envio>>
mergedVars == <<merged, merged_until>>
feedVars == <<today, indexed, released, tailCacheVars, envioCacheVars, mergedVars, reader>>

Happened == {i \in 1..Len(Feed) : Feed[i].at <= today}
Shown(rows) == {r.dispute : r \in rows}
Away == [at |-> "away", base |-> {}, rows |-> {}]

\* The layer ships with the first dispute, or is missing.
FeedInit ==
  /\ today = 0 /\ indexed = 0 /\ released \in {0} \cup (Happened \cap {1})
  /\ tail = {} /\ tail_until = FALSE /\ scanning = FALSE /\ refused = FALSE
  /\ status = Nothing /\ envio = Uncached
  /\ merged = {} /\ merged_until = FALSE
  /\ reader = [r \in Readers |-> Away]
-----------------------------------------------------------------------------
(* The world: days pass, the index follows or stalls, the layer is extended *)
(* and the refresh of the caches picks it up.                              *)
DayPasses ==
  /\ today < Horizon /\ today' = today + 1
  /\ UNCHANGED <<indexed, released, tailCacheVars, envioCacheVars, mergedVars, reader>>

EnvioIndexes ==
  /\ indexed + 1 \in Happened /\ indexed' = indexed + 1
  /\ UNCHANGED <<today, released, tailCacheVars, envioCacheVars, mergedVars, reader>>

LayerExtended ==
  /\ released + 1 \in Happened /\ released' = released + 1
  /\ UNCHANGED <<today, indexed, tailCacheVars, envioCacheVars, mergedVars, reader>>

FeedRow(i, cid, ts) == [dispute |-> i, conditionId |-> cid, disputeTs |-> ts]
LayerRows == {FeedRow(i, Feed[i].cid, Feed[i].at) : i \in 1..released}
-----------------------------------------------------------------------------
(* The index, and the cache of its two queries.  A head that is not reached, *)
(* too old, or whose mark was popped does not count.                       *)
\* A NegRisk market has a condition of the index's own, and a dispute the time at which
\* its price was asked for.
EnvioRows ==
  {FeedRow(i, IF Feed[i].negrisk THEN "phantom" ELSE Feed[i].cid, Feed[i].asked) : i \in 1..indexed}

Fresh == \E i \in 1..indexed : today - Feed[i].asked <= FreshFor

\* What _envio_status and _envio_disputes may find: the cached answer, or a new one.
StatusNow == IF status # Nothing THEN {status} ELSE {"unfit", IF Fresh THEN "fresh" ELSE "unfit"}
RowsNow == IF envio.cached THEN {envio} ELSE {[cached |-> TRUE, rows |-> rows] : rows \in {{}, EnvioRows}}

StatusExpires ==
  /\ status # Nothing /\ status' = Nothing
  /\ UNCHANGED <<today, indexed, released, tailCacheVars, envio, mergedVars, reader>>

RowsExpire ==
  /\ envio.cached /\ envio' = Uncached
  /\ UNCHANGED <<today, indexed, released, tailCacheVars, status, mergedVars, reader>>
-----------------------------------------------------------------------------
(* The tail: a scan is wanted when the last is out of date; NegRisk         *)
(* conditions are looked up as far as that succeeds.                       *)
Wanted == scanning \/ ~tail_until
Latest == {i \in Happened : Cardinality({j \in Happened : j > i}) < Target}

ScanLands(labelled) ==
  /\ scanning /\ ~refused /\ scanning' = FALSE /\ tail_until' = TRUE
  /\ tail' = {FeedRow(i, IF i \in labelled THEN Feed[i].cid ELSE NoCid, Feed[i].at) : i \in Latest}
  /\ UNCHANGED <<today, indexed, released, refused, envioCacheVars, mergedVars, reader>>

TailScanFails ==
  /\ scanning /\ ~refused /\ scanning' = FALSE /\ tail_until' = TRUE
  /\ UNCHANGED <<today, indexed, released, tail, refused, envioCacheVars, mergedVars, reader>>

TailAges ==
  /\ tail_until /\ tail_until' = FALSE
  /\ UNCHANGED <<today, indexed, released, tail, scanning, refused, envioCacheVars, mergedVars, reader>>

\* _refresh_tail_async: a wanted scan is flagged, and then its thread starts or raises.
TailAsked == scanning' = Wanted /\ UNCHANGED refused
TailRefused == ~scanning /\ ~tail_until /\ scanning' = TRUE /\ refused' = TRUE

\* GET /live/status: the freshness mark is popped from the answer, which is the cached one.
indexer_status ==
  /\ status' = "unfit"
  /\ \/ "fresh" \in StatusNow /\ (TailAsked \/ TailRefused)
     \/ "unfit" \in StatusNow /\ UNCHANGED <<scanning, refused>>
  /\ UNCHANGED <<today, indexed, released, tail, tail_until, envio, mergedVars, reader>>
-----------------------------------------------------------------------------
(* The explorer.                                                           *)
\* An empty layer is served as it is, a fresh union as it was.
Opened(r) ==
  /\ reader[r].at = "away" /\ released > 0 /\ ~merged_until
  /\ reader' = [reader EXCEPT ![r] = [at |-> "fetch", base |-> LayerRows, rows |-> {}]]
  /\ UNCHANGED <<today, indexed, released, tailCacheVars, envioCacheVars, mergedVars>>

Fetched(r, rows) == reader' = [reader EXCEPT ![r].at = "merge", ![r].rows = rows]

FromEnvio(r) ==
  /\ reader[r].at = "fetch"
  /\ status' \in StatusNow /\ status' = "fresh"
  /\ envio' \in RowsNow /\ envio'.rows # {}
  /\ Fetched(r, envio'.rows)
  /\ UNCHANGED <<today, indexed, released, tailCacheVars, mergedVars>>

\* A refused thread raises through the request, which goes on with the layer alone.
FromTail(r) ==
  /\ reader[r].at = "fetch"
  /\ status' \in StatusNow
  /\ envio' \in IF status' = "fresh" THEN {e \in RowsNow : e.rows = {}} ELSE {envio}
  /\ (TailAsked /\ Fetched(r, tail)) \/ (TailRefused /\ Fetched(r, {}))
  /\ UNCHANGED <<today, indexed, released, tail, tail_until, mergedVars>>

Alike_market(a, b) == a.conditionId = b.conditionId         \* a market's second dispute is dropped

\* drop_duplicates: of two rows alike the first, and the layer's come before the feed's.
Alike(a, b) == a.conditionId = b.conditionId /\ a.disputeTs = b.disputeTs

_merged_disputes_df(base, rows) ==
  base \cup {x \in rows : /\ ~\E y \in base : Alike(x, y)
                          /\ ~\E y \in rows : y.dispute > x.dispute /\ Alike(x, y)}

Merged(r) ==
  /\ reader[r].at = "merge"
  /\ merged' = _merged_disputes_df(reader[r].base, reader[r].rows) /\ merged_until' = TRUE
  /\ reader' = [reader EXCEPT ![r] = Away]
  /\ UNCHANGED <<today, indexed, released, tailCacheVars, envioCacheVars>>

MergeRaises(r) ==
  /\ reader[r].at = "merge"
  /\ merged' = reader[r].base /\ merged_until' = TRUE
  /\ reader' = [reader EXCEPT ![r] = Away]
  /\ UNCHANGED <<today, indexed, released, tailCacheVars, envioCacheVars>>

MergedExpires ==
  /\ merged_until /\ merged_until' = FALSE
  /\ UNCHANGED <<today, indexed, released, tailCacheVars, envioCacheVars, merged, reader>>

FeedNext ==
  \/ DayPasses \/ EnvioIndexes \/ LayerExtended
  \/ StatusExpires \/ RowsExpire \/ TailScanFails \/ TailAges \/ indexer_status \/ MergedExpires
  \/ \E labelled \in SUBSET Latest :
       (\A i \in Latest : ~Feed[i].negrisk => i \in labelled) /\ ScanLands(labelled)
  \/ \E r \in Readers : Opened(r) \/ FromEnvio(r) \/ FromTail(r) \/ Merged(r) \/ MergeRaises(r)

FeedSpec == FeedInit /\ [][FeedNext]_feedVars
-----------------------------------------------------------------------------
\* What the explorer shows has happened, and a dispute stands in it twice only when the
\* index, or a row whose condition was not found, gave it another name than the layer has.
Renamed(x) == x.conditionId \in {NoCid, "phantom"} \/ x.disputeTs = Feed[x.dispute].asked

ShownOnce ==
  /\ Shown(merged) \subseteq Happened
  /\ \A x, y \in merged : (x # y /\ x.dispute = y.dispute) => Renamed(x) \/ Renamed(y)

\* "self-heal as the indexer catches up" (services.py:18-21), and when it never does: a
\* dispute appears in the explorer, through an index that stalls, failed scans, expired
\* and marked caches and requests that overtake each other, unless Target later ones
\* push it out of the tail first, or the system refused the thread of a scan: the flag
\* stays set, and the tail is never scanned again.
ExplorerHeals ==
  /\ []ShownOnce
  /\ \A i \in 1..Len(Feed) :
       (i \in Happened /\ released > 0) ~> (i \in Shown(merged) \/ i \notin Latest \/ refused)
=============================================================================
