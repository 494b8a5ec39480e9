---------------------------- MODULE ProposalFeed ----------------------------
(***************************************************************************)
(* The keeper's proposal detector (execution/proposal_feed.py).  A call     *)
(* sets the flag under the lock and then starts the thread that alone       *)
(* clears it.  A scan (data/disputes.py, recent_disputes_rpc) is one step   *)
(* that may fail, its windows are DisputeScan: it answers the newest        *)
(* disputes of its lookback, and the markets of NegRisk among them need a   *)
(* label (data/negrisk_map.py).  Time is left out: a fresh cache may stop   *)
(* being so, the lookback may pass a dispute.                              *)
(***************************************************************************)
EXTENDS Integers, FiniteSets, Sequences

CONSTANTS
  Disputes,         \* conditions that may be disputed, all watched by the fleet
  NegRiskMarkets,   \* those whose condition the log of a dispute does not give
  Newest            \* target of the scan

ASSUME DetectorAssumption == NegRiskMarkets \subseteq Disputes /\ Newest \in Nat \ {0}

VARIABLES
  unburied, final,  \* disputed conditions: short of the confirmations, and those beyond in order
  bygone,           \* how many of these the lookback has passed
  caller,           \* the tick, in the detector: "idle" or about to start its thread
  cids, fresh, refreshing,        \* self._cids, clock < self._until, self._refreshing
  scan, seen,       \* the detector's thread, and what its scan found
  labels, labelless,              \* the cache of labels: found, and remembered as None
  exhausted         \* the system refused to start a thread

detectedVars == <<unburied, final, bygone>>
labelVars == <<labels, labelless>>
scanVars == <<caller, cids, fresh, refreshing, scan, seen, labelVars, exhausted>>
detectorVars == <<detectedVars, scanVars>>

DetectorInit ==
  /\ unburied = {} /\ final = << >> /\ bygone = 0
  /\ caller = "idle" /\ cids = {} /\ fresh = FALSE /\ refreshing = FALSE
  /\ scan = "none" /\ seen = {} /\ labels = {} /\ labelless = {} /\ exhausted = FALSE

Confirmed == {final[i] : i \in 1..Len(final)}

\* What a scan answers: rows[:target] of the lookback.
Recent == {final[i] : i \in {j \in 1..Len(final) : j > bygone /\ j + Newest > Len(final)}}
-----------------------------------------------------------------------------
(* The chain: a dispute is final once it is buried by the confirmations.    *)
Dispute(c) ==
  /\ c \notin unburied \cup Confirmed /\ unburied' = unburied \cup {c}
  /\ UNCHANGED <<final, bygone, scanVars>>

BuriedDispute(c) ==
  /\ c \in unburied /\ unburied' = unburied \ {c} /\ final' = Append(final, c)
  /\ UNCHANGED <<bygone, scanVars>>

Displaced ==
  /\ unburied # {} /\ unburied' = {}
  /\ UNCHANGED <<final, bygone, scanVars>>

LookbackPasses ==
  /\ bygone < Len(final) /\ bygone' = bygone + 1
  /\ UNCHANGED <<unburied, final, scanVars>>
-----------------------------------------------------------------------------
(* The detector.  The operator's file answers first and starts no scan.     *)
_maybe_refresh_async ==
  /\ caller = "idle" /\ ~refreshing /\ ~fresh
  /\ refreshing' = TRUE /\ caller' = "spawn"
  /\ UNCHANGED <<detectedVars, cids, fresh, scan, seen, labelVars, exhausted>>

Spawned ==
  /\ caller = "spawn" /\ caller' = "idle" /\ scan' = "scanning"
  /\ UNCHANGED <<detectedVars, cids, fresh, refreshing, seen, labelVars, exhausted>>

\* The tick raises, with the flag set.
SpawnFails ==
  /\ caller = "spawn" /\ caller' = "idle" /\ exhausted' = TRUE
  /\ UNCHANGED <<detectedVars, cids, fresh, refreshing, scan, seen, labelVars>>

\* resolve_negrisk_cids: what the batch does not find is remembered as None, and not asked
\* for again; a batch that fails remembers nothing.
Unresolved == (Recent \cap NegRiskMarkets) \ (labels \cup labelless)

BatchAnswers ==
  \E found \in SUBSET Unresolved :
    labels' = labels \cup found /\ labelless' = labelless \cup (Unresolved \ found)

ScanAnswers ==
  /\ scan = "scanning" /\ scan' = "read"
  /\ BatchAnswers \/ UNCHANGED labelVars
  /\ seen' = {c \in Recent : c \in NegRiskMarkets => c \in labels'}
  /\ UNCHANGED <<detectedVars, caller, cids, fresh, refreshing, exhausted>>

Refreshed ==
  /\ scan = "read" /\ scan' = "ended" /\ cids' = seen
  /\ UNCHANGED <<detectedVars, caller, fresh, refreshing, seen, labelVars, exhausted>>

\* A failed scan leaves what the last one found.
RefreshFails ==
  /\ scan = "scanning" /\ scan' = "ended"
  /\ UNCHANGED <<detectedVars, caller, cids, fresh, refreshing, seen, labelVars, exhausted>>

RefreshEnds_once ==                 \* the flag stays when the first scan has failed
  /\ scan = "ended" /\ scan' = "none"
  /\ fresh' = TRUE /\ refreshing' = (cids = {})
  /\ UNCHANGED <<detectedVars, caller, cids, seen, labelVars, exhausted>>

RefreshEnds ==
  /\ scan = "ended" /\ scan' = "none"
  /\ fresh' = TRUE /\ refreshing' = FALSE
  /\ UNCHANGED <<detectedVars, caller, cids, seen, labelVars, exhausted>>

Expires ==
  /\ fresh /\ fresh' = FALSE
  /\ UNCHANGED <<detectedVars, caller, cids, refreshing, scan, seen, labelVars, exhausted>>

DetectorNext ==
  \/ (\E c \in Disputes : Dispute(c) \/ BuriedDispute(c)) \/ Displaced \/ LookbackPasses
  \/ _maybe_refresh_async \/ Spawned \/ SpawnFails
  \/ ScanAnswers \/ Refreshed \/ RefreshFails \/ RefreshEnds \/ Expires

DetectorSpec == DetectorInit /\ [][DetectorNext]_detectorVars

SpawnReturns == Spawned \/ SpawnFails
ScanReturns == ScanAnswers \/ RefreshFails
-----------------------------------------------------------------------------

\* A dispute that is final reaches the detector in the end, over any failed scans and label
\* lookups, unless Newest later ones or the lookback pass it first, the lookup once answered
\* without its label, which is then not asked for again, or the system refused a thread:
\* the flag would stay set.
DisputeNoticed ==
  \A c \in Disputes : c \in Confirmed ~> (c \in cids \/ c \notin Recent \/ c \in labelless \/ exhausted)
=============================================================================
