--------------------------- MODULE DisputeRelease ---------------------------
(***************************************************************************)
(* The released dispute layer and the dispute rate.  export_disputes.py     *)
(* writes the layer from an index or from the chain, three files one after  *)
(* the other; load_disputes of data/disputes.py reads the numerator of the  *)
(* rate from it, from the index, or from a cache of its own; base_rates.py  *)
(* divides by what HF's snapshot, frozen at a cutoff, says was resolved.    *)
(*                                                                         *)
(* How a scan pages and bisects is IndexerReaders and DisputeScan; here it  *)
(* is one step, and a row is [dispute, cid, post, joinable].               *)
(***************************************************************************)
EXTENDS Integers, Sequences, FiniteSets, FiniteSetsExt

CONSTANTS
  History,          \* the disputes as they happen: [cid, negrisk, asked, at]
  Cutoff,           \* HF_CUTOFF_TS
  InSnapshot,       \* conditions HF has
  CategoryOf,       \* the category of those market_data has a row of
  ResolvedIn,       \* category_counts_hf: markets resolved, by category
  DataSources,      \* values of DATA_SOURCE
  MaxExports        \* bounds the exports

ASSUME HistoryAssumption ==
  /\ History \in Seq([cid : Nat \ {0}, negrisk : BOOLEAN, asked : Nat, at : Nat])
  /\ \A i \in 1..Len(History) : History[i].asked < History[i].at
  /\ \A i, j \in 1..Len(History) : i < j => History[i].at < History[j].at
ASSUME SnapshotAssumption ==
  /\ Cutoff \in Nat /\ MaxExports \in Nat /\ DataSources \subseteq {"hf", "graphql"}
  /\ DOMAIN CategoryOf \subseteq InSnapshot /\ InSnapshot \subseteq Nat \ {0}
  /\ IsFiniteSet(DOMAIN ResolvedIn) /\ \A k \in DOMAIN ResolvedIn : ResolvedIn[k] \in Nat

Layer == 1..Len(History)
InWindow == {i \in Layer : History[i].at <= Cutoff}
NegRiskDisputes == {i \in Layer : History[i].negrisk}

VARIABLES
  happened,         \* disputes on the chain: the first so many
  negrisk_map,      \* the NegRisk map is built
  block_ts,         \* disputes whose block time the index's readers have in their cache
  exporter,         \* "idle", "read", "copying" or "copied"
  exported, origin, \* the rows of the export under way, and where they are from
  exports,
  parquet, from,    \* disputes.parquet, and the origin of its rows
  stats,            \* stats.json, [run, total_disputes, in_window_disputes]
  cache,            \* disputes.json
  numerator, read   \* what load_disputes returned last, and from where

fileVars == <<parquet, from, stats, cache>>
exportVars == <<exporter, exported, origin, exports>>
releaseVars == <<happened, negrisk_map, block_ts, exportVars, fileVars, numerator, read>>

Absent == "absent"
Torn == "torn"
Nowhere == [source |-> "none", labelled |-> {}]

\* The snapshot is years old: what it covers has happened.
ReleaseInit ==
  /\ happened = Cardinality(InWindow) /\ negrisk_map = FALSE /\ block_ts = {}
  /\ exporter = "idle" /\ exported = {} /\ origin = Nowhere /\ exports = 0
  /\ parquet = [state |-> Absent, rows |-> {}] /\ from = Nowhere
  /\ stats = [run |-> 0, total_disputes |-> 0, in_window_disputes |-> 0]
  /\ cache = [state |-> Absent, rows |-> {}]
  /\ numerator = {} /\ read = "nothing"

DisputeHappens ==
  /\ happened < Len(History) /\ happened' = happened + 1
  /\ UNCHANGED <<negrisk_map, block_ts, exportVars, fileVars, numerator, read>>

MapBuilt ==
  /\ negrisk_map' = TRUE
  /\ UNCHANGED <<happened, block_ts, exportVars, fileVars, numerator, read>>

\* dispute_block_timestamps: the disputes whose receipt or block an endpoint that lags does
\* not have yet are left for next time.
BlockTimesRead ==
  /\ \E upto \in 1..happened : block_ts' = block_ts \cup 1..upto
  /\ UNCHANGED <<happened, negrisk_map, exportVars, fileVars, numerator, read>>
-----------------------------------------------------------------------------
(* The sources.                                                            *)
\* post_hf_cutoff and hf_joinable of a row: the one is about time, the other is not.
DisputeRow(i, cid, ts) ==
  [dispute |-> i, cid |-> cid, post |-> ts > Cutoff, joinable |-> cid \in InSnapshot]

\* A NegRisk market stands in the index under a condition that exists nowhere, -cid,
\* unless the map knows better; and a dispute at the time its price was asked for.
IndexerRows(upto) ==
  {DisputeRow(i, IF i \in NegRiskDisputes /\ ~negrisk_map THEN -History[i].cid ELSE History[i].cid,
          IF i \in block_ts THEN History[i].at ELSE History[i].asked) : i \in 1..upto}

\* From the chain: a NegRisk dispute without a label is dropped.
RpcRows(labelled) ==
  {DisputeRow(i, History[i].cid, History[i].at) : i \in {j \in 1..happened : j \notin NegRiskDisputes \/ j \in labelled}}

\* The cache is scanned to the cutoff, and without NegRisk.
CacheRows == {r \in RpcRows({}) : r.joinable /\ ~r.post}
-----------------------------------------------------------------------------
(* The export.  "auto" asks the index first; a scan that raises leaves      *)
(* nothing behind.                                                         *)
Exporting(rows, where) ==
  /\ exporter = "idle" /\ exports < MaxExports /\ rows # {}
  /\ exporter' = "read" /\ exports' = exports + 1
  /\ exported' = rows /\ origin' = where
  /\ UNCHANGED <<happened, negrisk_map, block_ts, fileVars, numerator, read>>

\* An index may be behind, or stop at its cap.
ExportsIndex ==
  \E upto \in 1..happened : Exporting(IndexerRows(upto), [source |-> "indexer", labelled |-> {}])

ExportsChain ==
  \E labelled \in SUBSET (NegRiskDisputes \cap 1..happened) :
     Exporting(RpcRows(labelled), [source |-> "rpc", labelled |-> labelled])

\* The first copy grows in place; one that replaces a file is moved over it when done.
Copying ==
  /\ exporter = "read" /\ exporter' = "copying"
  /\ parquet' = IF parquet.state = Absent THEN [state |-> Torn, rows |-> {}] ELSE parquet
  /\ UNCHANGED <<happened, negrisk_map, block_ts, exported, origin, exports, from, stats, cache, numerator, read>>

Copied ==
  /\ exporter = "copying" /\ exporter' = "copied"
  /\ parquet' = [state |-> "whole", rows |-> exported] /\ from' = origin
  /\ UNCHANGED <<happened, negrisk_map, block_ts, exported, origin, exports, stats, cache, numerator, read>>

_stats(rows) ==
  [run |-> exports, total_disputes |-> Cardinality(rows),
   in_window_disputes |-> Cardinality({r \in rows : ~r.post})]

Described ==
  /\ exporter = "copied" /\ exporter' = "idle"
  /\ stats' = _stats(exported) /\ exported' = {} /\ origin' = Nowhere
  /\ UNCHANGED <<happened, negrisk_map, block_ts, exports, parquet, from, cache, numerator, read>>

ExportDies ==
  /\ exporter # "idle" /\ exporter' = "idle" /\ exported' = {} /\ origin' = Nowhere
  /\ UNCHANGED <<happened, negrisk_map, block_ts, exports, fileVars, numerator, read>>
-----------------------------------------------------------------------------
(* load_disputes: the index if DATA_SOURCE says so and it answers, then the *)
(* release, then the cache, which is built once.                           *)
Loaded(rows, where) ==
  /\ numerator' = rows /\ read' = where
  /\ UNCHANGED <<happened, negrisk_map, block_ts, exportVars, parquet, from, stats>>

Released_unbounded == {r \in parquet.rows : r.joinable}      \* the window is not applied

Released == {r \in parquet.rows : r.joinable /\ ~r.post}

LoadsIndex ==
  /\ "graphql" \in DataSources
  /\ \E upto \in 1..happened :
       LET rows == {r \in IndexerRows(upto) : r.joinable}
       IN  rows # {} /\ Loaded(rows, "index")
  /\ UNCHANGED cache

LoadsRelease ==
  /\ parquet.state = "whole" /\ Released # {}
  /\ Loaded(Released, "release")
  /\ UNCHANGED cache

build_dispute_cache ==
  /\ parquet.state # "whole" \/ Released = {}
  /\ cache' = IF cache.state = Absent THEN [state |-> "whole", rows |-> CacheRows] ELSE cache
  /\ Loaded(cache'.rows, "cache")

ReleaseNext ==
  \/ DisputeHappens \/ MapBuilt \/ BlockTimesRead
  \/ ExportsIndex \/ ExportsChain \/ Copying \/ Copied \/ Described \/ ExportDies
  \/ LoadsIndex \/ LoadsRelease \/ build_dispute_cache

ReleaseSpec == ReleaseInit /\ [][ReleaseNext]_releaseVars
-----------------------------------------------------------------------------
(* The rate: disputed markets of a category over its resolved markets.      *)
\* While market_data cannot be read every market is "other".
dispute_counts_by_category(readable) ==
  LET cids == {r.cid : r \in numerator}
      cat(c) == IF readable /\ c \in DOMAIN CategoryOf THEN CategoryOf[c] ELSE "other"
  IN  [k \in {cat(c) : c \in cids} |-> Cardinality({c \in cids : cat(c) = k})]

category_base_rate(k, counts) ==
  [category |-> k,
   disputes |-> IF k \in DOMAIN counts THEN counts[k] ELSE 0,
   resolved |-> IF k \in DOMAIN ResolvedIn THEN ResolvedIn[k] ELSE 0]

\* A table without a positive rate gives way to the published one.
base_rates(counts) ==
  LET rows == {r \in {category_base_rate(k, counts) : k \in (DOMAIN ResolvedIn \cup DOMAIN counts) \ {"null"}} :
                 r.resolved > 0}
  IN  IF \A r \in rows : r.disputes = 0 THEN {} ELSE rows
-----------------------------------------------------------------------------
\* "keeping both sides on the same window BY CONSTRUCTION" (disputes.py, load_disputes):
\* every dispute of the numerator happened within the window of the snapshot.
NumeratorInWindow == \A r \in numerator : r.dispute \in InWindow

\* The rate stays what it was however far the layer is extended, through exports that
\* died and files torn: a numerator from a release of the chain, or from the cache, is
\* the joinable disputes of the window with the NegRisk ones that had a label, stats.json
\* counts them, and the table of rates counts each of their markets once.
Whole(labelled) ==
  {i \in InWindow : History[i].cid \in InSnapshot /\ (i \in NegRiskDisputes => i \in labelled)}

LayerFrozen ==
  /\ read = "cache" => {r.dispute : r \in numerator} = Whole({})
  /\ (parquet.state = "whole" /\ from.source = "rpc") =>
        {r.dispute : r \in Released} = Whole(from.labelled)

StatsCount ==
  (stats.run = exports /\ exporter = "idle" /\ from.source = "rpc") =>
     stats.in_window_disputes = Cardinality(Released)

RatesCount ==
  \A readable \in BOOLEAN :
     LET rates == base_rates(dispute_counts_by_category(readable))
     IN  rates # {} => SumFunction([r \in rates |-> r.disputes]) = Cardinality({r.cid : r \in numerator})

RateFrozen == LayerFrozen /\ StatsCount /\ RatesCount
=============================================================================
