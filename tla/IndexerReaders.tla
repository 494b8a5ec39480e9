--------------------------- MODULE IndexerReaders ---------------------------
(***************************************************************************)
(* The readers of the index: they pull an entity page by page, with limit   *)
(* and offset, while the indexer goes on inserting rows.  Three of them:    *)
(*   Market             recon/check.py, which compares outcomes             *)
(*   Dispute            data/disputes.py, the labels of the dispute rate    *)
(*   ResolutionRequest  estimators/hazard.py, the controls: round-0         *)
(*                      requests that settled                               *)
(* A page is one query, answered from the index as it stands.               *)
(***************************************************************************)
EXTENDS Indexer

CONSTANTS
  IdOrder,          \* the order of the market ids, which are hashes
  NegRiskMarkets,   \* indexed under a phantom conditionId
  InHF,             \* markets whose tradeable conditionId HF has
  PageSize,
  PageAttempts,     \* requests for one page of a reader that retries
  ScanCap           \* rows after which the controls are enough

ASSUME ReadersAssumption ==
  /\ IdOrder \in [Questions -> Nat] /\ \A p, q \in Questions : IdOrder[p] = IdOrder[q] => p = q
  /\ \A p, q \in Questions : Adapter[p] = Adapter[q] => (p \in NegRiskMarkets <=> q \in NegRiskMarkets)
  /\ NegRiskMarkets \subseteq Questions /\ InHF \subseteq Questions
  /\ {PageSize, PageAttempts, ScanCap} \subseteq Nat \ {0}

Entities == {"Market", "Dispute", "ResolutionRequest"}

VARIABLES
  reader,           \* "idle", "paging", "done" or "raised"
  query,            \* the entity it pulls
  nmap,             \* NegRisk markets in the map cache, which may not be built
  offset, tries,
  pulled,           \* rows so far, each copy with the offset of its page
  short,            \* it stopped before the last page
  present           \* history: what was on the chain for it when it began

readerVars == <<reader, query, nmap, offset, tries, pulled, short, present>>

ReaderInit ==
  /\ reader = "idle" /\ query = "Market" /\ nmap = {}
  /\ offset = 0 /\ tries = 0 /\ pulled = {} /\ short = FALSE /\ present = {}
-----------------------------------------------------------------------------
(* The rows of an entity, each with the key it is ordered by: markets have  *)
(* one each, while requests of two adapters may share a timestamp.          *)
Table(e) ==
  CASE e = "Market" ->
         {[key |-> IdOrder[q], question |-> q, status |-> db.Market[q].status] :
            q \in {p \in Questions : Known(db, p)}}
    [] e = "Dispute" ->
         {[key |-> asked[d.question][d.round], question |-> d.question, dispute |-> d] : d \in db.Dispute}
    [] e = "ResolutionRequest" ->
         {[key |-> -db.ResolutionRequest[q][0].requestTimestamp, question |-> q] :
            q \in {p \in Questions :
                     /\ Known(db, p) /\ db.Market[p].status = "RESOLVED"
                     /\ db.ResolutionRequest[p][0] # None
                     /\ db.ResolutionRequest[p][0].status = "RESOLVED"}}

\* A query skips `offset` rows and takes the next: rows with the same key come in any
\* order, and in another one for the next query.
Initial(part, table) == \A r \in part, s \in table : s.key < r.key => s \in part

Fewer(m, n) == IF m <= n THEN m ELSE n
Passed(table) == Fewer(offset, Cardinality(table))

\* A query without order_by: any rows, as many.
Pages_unordered(table) ==
  {page \in SUBSET table : Cardinality(page) = Fewer(PageSize, Cardinality(table) - Passed(table))}

Pages(table) ==
  {page \in SUBSET table :
     /\ Cardinality(page) = Fewer(PageSize, Cardinality(table) - Passed(table))
     /\ \E before \in SUBSET (table \ page) :
          /\ Cardinality(before) = Passed(table)
          /\ Initial(before, table) /\ Initial(before \cup page, table)}

\* The join key: natively the market's own, for NegRisk what the map recovers.
effective(q) == IF q \in NegRiskMarkets /\ q \notin nmap THEN None ELSE q
hf_joinable(q) == effective(q) \in InHF

ReadBegins(e) ==
  /\ reader = "idle" /\ reader' = "paging" /\ query' = e
  /\ nmap' \in IF e = "Market" THEN {{}} ELSE {{}, NegRiskMarkets}
  /\ present' = CASE e = "Market" -> {q \in Questions : stage[q] # "none"}
                  [] e = "Dispute" -> disputed
                  [] e = "ResolutionRequest" -> {q \in Questions : stage[q] = "resolved" /\ strikes[q] = 0}
  /\ UNCHANGED <<vars, offset, tries, pulled, short>>

PageRead ==
  /\ reader = "paging"
  /\ \E page \in Pages(Table(query)) :
       LET capped == query = "ResolutionRequest" /\ offset + Cardinality(page) >= ScanCap
       IN  /\ pulled' = pulled \cup {[at |-> offset, row |-> r] : r \in page}
           /\ reader' = IF capped \/ Cardinality(page) < PageSize THEN "done" ELSE "paging"
           /\ offset' = IF reader' = "done" THEN 0 ELSE offset + Cardinality(page)
           /\ short' = (capped /\ Cardinality(page) = PageSize)
  /\ tries' = 0
  /\ UNCHANGED <<vars, query, nmap, present>>

PageRetried ==
  /\ reader = "paging" /\ query # "Dispute" /\ tries + 1 < PageAttempts
  /\ tries' = tries + 1
  /\ UNCHANGED <<vars, reader, query, nmap, offset, pulled, short, present>>

\* The labels are not retried; of the others, recon raises after the last attempt, and
\* its rows are lost, while the controls make do with those they have.
PageGivenUp ==
  /\ reader = "paging" /\ (query = "Dispute" \/ tries + 1 = PageAttempts)
  /\ short' = TRUE /\ offset' = 0 /\ tries' = 0
  /\ IF query = "ResolutionRequest" THEN reader' = "done" /\ UNCHANGED <<pulled, present>>
     ELSE reader' = "raised" /\ pulled' = {} /\ present' = {}
  /\ UNCHANGED <<vars, query, nmap>>

ReaderNext == (\E e \in Entities : ReadBegins(e)) \/ PageRead \/ PageRetried \/ PageGivenUp
IndexerStep == Next /\ UNCHANGED readerVars

ReaderSpec == Init /\ ReaderInit /\ [][IndexerStep \/ ReaderNext]_<<vars, readerVars>>
-----------------------------------------------------------------------------
(* What they make of the rows.                                             *)
Rows == {copy.row : copy \in pulled}

\* run_recon: the bucket a market is counted in.
Bucket(row) ==
  CASE row.status = "DISPUTED" -> "dispute"
    [] row.status \in {"OPEN", "REQUESTED", "PROPOSED", "RESET"} -> "pending"
    [] row.status = "RESOLVED" -> IF row.question \in InHF \ NegRiskMarkets THEN "eligible" ELSE "no_ground_truth"

\* load_disputes: the joinable disputes, under their effective key and at the time of
\* their block if the cache has it.
Labels == {[cid |-> effective(r.question), dispute |-> r.dispute] : r \in {s \in Rows : hf_joinable(s.question)}}

\* load_controls_from_indexer: one row for each effective key.
Controls == {effective(r.question) : r \in {s \in Rows : hf_joinable(s.question)}}

Done(e) == reader = "done" /\ query = e
-----------------------------------------------------------------------------
\* A reader that came to the last page has every row that was there when it began and
\* shares its key with no other, however rows were inserted before, behind and in the page
\* it was reading: every market is in a bucket of the reconciliation, every dispute of the
\* chain with a joinable market is a label, every joinable market that settled undisputed
\* can be a control.  Of rows with one key, some can be missed.
Untied(e) == {row \in Table(e) : \A s \in Table(e) : s.key = row.key => s = row}

NothingMissed ==
  ~short =>
    /\ Done("Market") => present \subseteq {r.question : r \in Rows}
    /\ Done("Dispute") => \A r \in Untied("Dispute") :
         r.dispute \in present /\ hf_joinable(r.question) => \E l \in Labels : l.dispute = r.dispute
    /\ Done("ResolutionRequest") => \A r \in Untied("ResolutionRequest") :
         r.question \in present /\ hf_joinable(r.question) => r.question \in Controls

\* Rows are counted twice when others are inserted before the page, and recon counts each
\* copy: but there are never more copies than rows in the index, nor, once the reader came
\* to the last page, fewer than there were when it began.  So a row that was missed, or was
\* inserted too late, is made up for by one that was read twice, and no more.
CopiesCounted ==
  /\ reader \in {"paging", "done"} => Cardinality(pulled) <= Cardinality(Table(query))
  /\ reader = "done" /\ ~short => Cardinality(present) <= Cardinality(pulled)

\* What a reader takes for settled is so on the chain, and stays: a market whose outcome
\* recon compares is resolved, a label is a dispute there was, and a control is a market
\* that nobody ever disputed, though a reset market settles its first request as well.
ReadersAgree ==
  /\ Done("Market") => \A r \in Rows : Bucket(r) = "eligible" => stage[r.question] = "resolved"
  /\ Done("Dispute") => \A l \in Labels : l.dispute \in disputed /\ l.cid = l.dispute.question
  /\ Done("ResolutionRequest") => \A d \in disputed : d.question \notin Controls

\* What the readers pull matches the chain: of rows with keys of their own all, of rows at
\* all as many, and nothing that is not there.
ReadersMatchChain == NothingMissed /\ CopiesCounted /\ ReadersAgree
=============================================================================
