------------------------------- MODULE LiveTail -------------------------------
(***************************************************************************)
(* The live dispute tail of the web application (webapp/backend/live.py):   *)
(* a request checks and flags under the lock, then makes the thread that    *)
(* scans the chain and alone clears the flag, while stop_tail and           *)
(* resume_tail come from the application's lifespan.                        *)
(***************************************************************************)
EXTENDS Integers, FiniteSets

CONSTANTS
  Requests,         \* threads of the web server that serve a request
  MaxScans          \* bound: tail scans ever created

ASSUME TailAssumption == MaxScans \in Nat

Scans == 1..MaxScans
NoScan == 0

VARIABLES
  req, mine,        \* where a request is in _refresh_tail_async, and its thread
  tail_fresh, tail_refreshing,    \* _tail["until"] > now, _tail["refreshing"]
  scans_made, scan_at, tail_threads,         \* threads created, where each is, _tail_threads
  stopping, joining, tail_stop    \* where stop_tail is, what it joins, the event

tailStopVars == <<stopping, joining, tail_stop>>
tailVars == <<req, mine, tail_fresh, tail_refreshing, scans_made, scan_at, tail_threads, tailStopVars>>

TailInit ==
  /\ req = [r \in Requests |-> "idle"] /\ mine = [r \in Requests |-> NoScan]
  /\ tail_fresh = FALSE /\ tail_refreshing = FALSE
  /\ scans_made = 0 /\ scan_at = [s \in Scans |-> "new"] /\ tail_threads = {}
  /\ stopping = "idle" /\ joining = {} /\ tail_stop = FALSE
-----------------------------------------------------------------------------
(* The tail: a request checks and flags under the lock, adds its thread to  *)
(* the set, and starts it.                                                  *)
_refresh_tail_async(r) ==
  /\ req[r] = "idle" /\ scans_made < MaxScans
  /\ ~tail_stop /\ ~tail_refreshing /\ ~tail_fresh
  /\ tail_refreshing' = TRUE /\ req' = [req EXCEPT ![r] = "add"]
  /\ UNCHANGED <<mine, tail_fresh, scans_made, scan_at, tail_threads, tailStopVars>>

Added(r) ==
  /\ req[r] = "add" /\ req' = [req EXCEPT ![r] = "start"]
  /\ scans_made' = scans_made + 1 /\ mine' = [mine EXCEPT ![r] = scans_made']
  /\ tail_threads' = tail_threads \cup {scans_made'}
  /\ UNCHANGED <<tail_fresh, tail_refreshing, scan_at, tailStopVars>>

Started(r) ==
  /\ req[r] = "start" /\ req' = [req EXCEPT ![r] = "idle"]
  /\ scan_at' = [scan_at EXCEPT ![mine[r]] = "scanning"]
  /\ UNCHANGED <<mine, tail_fresh, tail_refreshing, scans_made, tail_threads, tailStopVars>>

\* The system refuses the thread: the request raises, and the flag stays set.
StartFails(r) ==
  /\ req[r] = "start" /\ req' = [req EXCEPT ![r] = "idle"]
  /\ UNCHANGED <<mine, tail_fresh, tail_refreshing, scans_made, scan_at, tail_threads, tailStopVars>>

\* The scan lands or fails, with a longer or shorter time to the next.
Landed(s) ==
  /\ scan_at[s] = "scanning" /\ scan_at' = [scan_at EXCEPT ![s] = "landed"] /\ tail_fresh' = TRUE
  /\ UNCHANGED <<req, mine, tail_refreshing, scans_made, tail_threads, tailStopVars>>

Unflagged(s) ==
  /\ scan_at[s] = "landed" /\ scan_at' = [scan_at EXCEPT ![s] = "unflagged"] /\ tail_refreshing' = FALSE
  /\ UNCHANGED <<req, mine, tail_fresh, scans_made, tail_threads, tailStopVars>>

Discarded(s) ==
  /\ scan_at[s] = "unflagged" /\ scan_at' = [scan_at EXCEPT ![s] = "done"]
  /\ tail_threads' = tail_threads \ {s}
  /\ UNCHANGED <<req, mine, tail_fresh, tail_refreshing, scans_made, tailStopVars>>

TailExpires ==
  /\ tail_fresh /\ tail_fresh' = FALSE
  /\ UNCHANGED <<req, mine, tail_refreshing, scans_made, scan_at, tail_threads, tailStopVars>>
-----------------------------------------------------------------------------
(* stop_tail: set the event, join what is in the set for some seconds each, *)
(* clear the set; and resume_tail.                                          *)
TailStopSet ==
  /\ stopping = "idle" /\ tail_stop' = TRUE /\ stopping' = "list"
  /\ UNCHANGED <<req, mine, tail_fresh, tail_refreshing, scans_made, scan_at, tail_threads, joining>>

StopLists ==
  /\ stopping = "list" /\ stopping' = "join" /\ joining' = tail_threads
  /\ UNCHANGED <<req, mine, tail_fresh, tail_refreshing, scans_made, scan_at, tail_threads, tail_stop>>

\* Over, or out of patience.
Joined(s) ==
  /\ stopping = "join" /\ s \in joining /\ scan_at[s] # "new" /\ joining' = joining \ {s}
  /\ UNCHANGED <<req, mine, tail_fresh, tail_refreshing, scans_made, scan_at, tail_threads, stopping, tail_stop>>

\* A thread that is in the set and was not started cannot be joined.
JoinRaises(s) ==
  /\ stopping = "join" /\ s \in joining /\ scan_at[s] = "new" /\ joining' = {} /\ stopping' = "idle"
  /\ UNCHANGED <<req, mine, tail_fresh, tail_refreshing, scans_made, scan_at, tail_threads, tail_stop>>

StopClears_unflags ==               \* forgets the scan it was out of patience with
  /\ stopping = "join" /\ joining = {} /\ stopping' = "idle" /\ tail_threads' = {}
  /\ tail_refreshing' = FALSE
  /\ UNCHANGED <<req, mine, tail_fresh, scans_made, scan_at, joining, tail_stop>>

StopClears ==
  /\ stopping = "join" /\ joining = {} /\ stopping' = "idle" /\ tail_threads' = {}
  /\ UNCHANGED <<req, mine, tail_fresh, tail_refreshing, scans_made, scan_at, joining, tail_stop>>

resume_tail ==
  /\ stopping = "idle" /\ tail_stop /\ tail_stop' = FALSE
  /\ UNCHANGED <<req, mine, tail_fresh, tail_refreshing, scans_made, scan_at, tail_threads, stopping, joining>>

TailNext ==
  \/ \E r \in Requests : _refresh_tail_async(r) \/ Added(r) \/ Started(r) \/ StartFails(r)
  \/ \E s \in Scans : Landed(s) \/ Unflagged(s) \/ Discarded(s) \/ Joined(s) \/ JoinRaises(s)
  \/ TailExpires \/ TailStopSet \/ StopLists \/ StopClears \/ resume_tail

TailSpec == TailInit /\ [][TailNext]_tailVars
-----------------------------------------------------------------------------
\* One scan of the chain at a time, through expiries, failures, and stops and resumes
\* that overtake a request or a scan.
Running == {s \in Scans : scan_at[s] = "scanning"}
OneScan == Cardinality(Running \cup {mine[r] : r \in {r \in Requests : req[r] = "start"}}) <= 1
=============================================================================
