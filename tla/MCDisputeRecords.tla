-------------------------- MODULE MCDisputeRecords --------------------------
(***************************************************************************)
(* The programs that write and read dispute records: the indexer, without   *)
(* and with a reader, the block scans, the release, the session log, the    *)
(* two replays.  Each runs by itself and they meet in files only, so a      *)
(* behaviour follows one of them and leaves the others as they began.       *)
(***************************************************************************)
EXTENDS IndexerReaders, DisputeScan, DisputeRelease, SessionLog, ReplayAblation, ReplaySim

CONSTANTS q1, q2, q3, n1, n2

VARIABLE part       \* which of them this behaviour is about

recordVars == <<part, vars, readerVars, scanVars, releaseVars, logVars, replayVars, simVars>>

\* Rounds of one question apart and close, resolvable and unresolvable NegRisk
\* questions, disputes on window and bisection boundaries and at the tip.
Chain(q) == [b \in Blocks |-> IF b \in DOMAIN q THEN q[b] ELSE NoLog]
MCChains ==
  { Chain((1 :> q1) @@ (4 :> n1) @@ (5 :> q1) @@ (8 :> n2) @@ (9 :> q1) @@ (12 :> n1)),
    Chain((3 :> n2) @@ (4 :> q2) @@ (6 :> q1) @@ (8 :> q2) @@ (9 :> n1) @@ (11 :> q2)),
    Chain((2 :> n1) @@ (6 :> n1) @@ (7 :> q1) @@ (10 :> q2)) }

\* Two questions of one adapter, and one of another that may ask in the same blocks.
MCAdapter == (q1 :> "v2") @@ (q2 :> "negrisk") @@ (q3 :> "v2")
MCIdOrder == (q1 :> 2) @@ (q2 :> 1) @@ (q3 :> 3)

\* A dispute in the window; one at its end, in a NegRisk market that market_data has no
\* row of; one asked for in the window and disputed after it.
MCHistory ==
  << [cid |-> 1, negrisk |-> FALSE, asked |-> 1, at |-> 2],
     [cid |-> 2, negrisk |-> TRUE, asked |-> 2, at |-> 3],
     [cid |-> 1, negrisk |-> FALSE, asked |-> 3, at |-> 4] >>
MCCategoryOf == [c \in {1} |-> "politics"]
MCResolvedIn == [k \in {"politics", "other"} |-> 2]

\* One market in each arm.
MCFleet == <<"m1", "m2">>
MCEquities == {1}

\* A market disputed twice, a NegRisk dispute that joins the market people trade, both.
MCGrid == <<1, 2, 3>>
L(c, t, ts) == [cid |-> c, tradeable |-> t, ts |-> ts]
MCLabelLists ==
  { <<L("a", "null", 1), L("a", "null", 2)>>,
    <<L("p", "b", 1)>>,
    <<L("a", "null", 1), L("p", "b", 2)>> }

\* How a part that the behaviour is not about stands.
ScanAside ==
  /\ kind = "cache" /\ conf = 0 /\ chain = (CHOOSE c \in Chains : TRUE) /\ pc = "failed"
  /\ end = Tip /\ floor = 1 /\ pos = 1 /\ pending = {} /\ scanned = {} /\ twice = {} /\ rows = {}
  /\ rpc = NewCall /\ saved = {} /\ mem = {} /\ fetched = 0 /\ warned = FALSE
  /\ resolved = {} /\ answer = {}
ReplayAside ==
  /\ labels = <<>> /\ controls = {}
  /\ fills = [c \in Cids |-> CHOOSE f \in FillInputs : TRUE]
SimAside == lambda = 0 /\ star = 0

RecordInit ==
  /\ part \in {"indexer", "readers", "scan", "release", "log", "ablation", "sim"}
  /\ Init /\ ReaderInit /\ LogInit /\ ReleaseInit
  /\ IF part = "scan" THEN ScanInit ELSE ScanAside
  /\ ReplayInit /\ (part # "ablation" => ReplayAside)
  /\ SimInit /\ (part # "sim" => SimAside)

IndexerOnly == UNCHANGED <<part, scanVars, releaseVars, logVars, replayVars, simVars>>
IndexerPart(A) == part = "indexer" /\ A /\ UNCHANGED readerVars /\ IndexerOnly

\* With a reader, over the two questions whose requests may share a timestamp.
ReaderTime == 3
ReadersPart(A) == part = "readers" /\ A /\ now' <= ReaderTime /\ stage'[q3] = "none" /\ IndexerOnly

ScanPart(A) == part = "scan" /\ A /\ UNCHANGED <<part, vars, readerVars, releaseVars, logVars, replayVars, simVars>>
ReleasePart(A) == part = "release" /\ A /\ UNCHANGED <<part, vars, readerVars, scanVars, logVars, replayVars, simVars>>
LogPart(A) == part = "log" /\ A /\ UNCHANGED <<part, vars, readerVars, scanVars, releaseVars, replayVars, simVars>>
AblationPart(A) == part = "ablation" /\ A /\ UNCHANGED <<part, vars, readerVars, scanVars, releaseVars, logVars, simVars>>
SimPart(A) == part = "sim" /\ A /\ UNCHANGED <<part, vars, readerVars, scanVars, releaseVars, logVars, replayVars>>

RecordNext ==
  \/ IndexerPart(Next) \/ ReadersPart(IndexerStep \/ ReaderNext) \/ ScanPart(ScanNext) \/ ReleasePart(ReleaseNext) \/ LogPart(LogNext)
  \/ AblationPart(ReplayNext) \/ SimPart(SimNext)

\* Every request of a scan has a timeout and every pause an end.
RecordSpec == RecordInit /\ [][RecordNext]_recordVars /\ WF_recordVars(ScanPart(Step))
=============================================================================
