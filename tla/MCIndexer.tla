----------------------------- MODULE MCIndexer -----------------------------
(* Two questions of one adapter, and enough blocks for every request of    *)
(* both to have its own.                                                   *)
EXTENDS Indexer

MCAdapter == [q \in Questions |-> "v2"]
=============================================================================
