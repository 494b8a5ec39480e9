------------------------------- MODULE WebCaches -------------------------------
(***************************************************************************)
(* The artifacts of the web application: the disk of its server, which a    *)
(* deploy replaces by what the daily workflow committed and a batch run on  *)
(* the server rewrites (precompute.py), the loaders that keep what they     *)
(* read in an lru_cache until a refresh (cache.py), the denominators        *)
(* injected into the estimator, and the live rebuild of the HF overview by  *)
(* a request (services.py).                                                *)
(*                                                                         *)
(* Artifacts share nothing but the disk, so a behaviour follows one of      *)
(* them: its file, and the loaders that read it.  What is read is the       *)
(* version of the data it was made from: of the HF overview, of its counts  *)
(* by category, which a live rebuild takes from the injected denominators.  *)
(***************************************************************************)
EXTENDS Integers, Sequences, FiniteSets

CONSTANTS
  Requesters,       \* threads that serve requests
  MaxReleases,      \* bounds the versions of the layer
  MaxCrashes,       \* bounds the crashes of the batch, and the starts of the process
  MaxRebuilds       \* bounds the live rebuilds

ASSUME CachesAssumption == MaxReleases \in Nat \ {0} /\ MaxCrashes \in Nat /\ MaxRebuilds \in Nat

_ARTIFACT_LOADERS_short == <<"base_rate_counts", "dispute_names", "hf_overview">>   \* one is forgotten

\* The loaders that refresh() clears, in its order, and the artifact behind each.
_ARTIFACT_LOADERS == <<"base_rate_counts", "dispute_names", "disputes_df", "hf_overview">>
Loaders == {"base_rate_counts", "dispute_names", "disputes_df", "hf_overview"}
Behind(l) == IF l = "disputes_df" THEN "dispute_names" ELSE l

Fallback == 0                       \* what a loader answers without its file
Torn == -1
Missing == -2
NotCached == << >>
Idle == [at |-> "idle", loader |-> "none", got |-> << >>]
precompute == "precompute"

VARIABLES
  artifact,         \* which this behaviour is about
  release,          \* disputes.parquet
  file, writers,    \* the artifact's file, and who is writing it
  spoilt,           \* two have been writing it at once
  batch, crashes,   \* "idle", "step", "forced" or "writing"
  cached,           \* what each lru_cache holds
  injected,         \* what category_counts_hf returns
  clearing,         \* the next loader refresh() clears, 0 when idle
  web, rebuilds     \* the requests, [at, loader, got]

diskVars == <<artifact, release, file, writers, spoilt, batch, crashes>>
servedVars == <<cached, injected, clearing, web, rebuilds>>
cacheVars == <<diskVars, servedVars>>

\* A file that does not parse is no file.
_load_json == IF file \in {Missing, Torn} THEN Fallback ELSE file

\* What install_offline_di may find at the start: its own file is another than the overview's.
Denominators == IF artifact = "hf_overview" THEN Fallback..release ELSE {_load_json}
Fresh_caches == [l \in Loaders |-> IF l = "base_rate_counts" /\ l = artifact THEN <<_load_json>> ELSE NotCached]

\* Shipped with the image or not; install_offline_di has run.
CachesInit ==
  /\ artifact \in {Behind(l) : l \in Loaders} /\ release = 1 /\ file \in {Missing, 1}
  /\ writers = {} /\ spoilt = FALSE /\ batch = "idle" /\ crashes = 0 /\ rebuilds = 0
  /\ injected \in Denominators /\ cached = Fresh_caches
  /\ clearing = 0 /\ web = [r \in Requesters |-> Idle]
-----------------------------------------------------------------------------
(* The process starts again: on its own disk, or on the one of a new image, *)
(* with what the workflow of that day committed of the layer and the file.  *)
Starts ==
  /\ crashes < MaxCrashes /\ crashes' = crashes + 1 /\ UNCHANGED <<artifact, rebuilds>>
  /\ injected' \in Denominators' /\ cached' = Fresh_caches'
  /\ clearing' = 0 /\ web' = [r \in Requesters |-> Idle]

Restarted ==
  /\ UNCHANGED <<release, file, batch>>
  /\ writers' = writers \cap {precompute} /\ spoilt' = (spoilt /\ writers' # {})
  /\ Starts

Redeployed ==
  /\ release' \in release..MaxReleases /\ file' \in {Missing} \cup 1..release'
  /\ writers' = {} /\ spoilt' = FALSE /\ batch' = "idle"
  /\ Starts
-----------------------------------------------------------------------------
(* The batch, run on the server's own disk.  A file is opened, which    *)
(* empties it, and filled; a step that raises is passed over; without       *)
(* --force a file that exists stays.                                       *)
BatchBegins(force) ==
  /\ batch = "idle" /\ batch' = IF force THEN "forced" ELSE "step"
  /\ release' \in {release, release + 1} \cap 1..MaxReleases
  /\ UNCHANGED <<artifact, file, writers, spoilt, crashes, servedVars>>

StepPassed ==
  /\ batch \in {"step", "forced"} /\ batch' = "idle"
  /\ UNCHANGED <<artifact, release, file, writers, spoilt, crashes, servedVars>>

Opens(who) == file' = Torn /\ writers' = writers \cup {who} /\ spoilt' = (spoilt \/ writers # {})

\* Two that wrote at once may leave the end of the longer behind the shorter.
Closes(who, version) ==
  /\ writers' = writers \ {who} /\ spoilt' = (spoilt /\ writers' # {})
  /\ file' \in IF ~spoilt THEN {version} ELSE IF writers' = {} THEN {version, Torn} ELSE {Torn}

StepOpens ==
  /\ batch = "forced" \/ (batch = "step" /\ file = Missing)
  /\ Opens(precompute) /\ batch' = "writing"
  /\ UNCHANGED <<artifact, release, crashes, servedVars>>

_write ==
  /\ batch = "writing" /\ Closes(precompute, release) /\ batch' = "idle"
  /\ UNCHANGED <<artifact, release, crashes, servedVars>>

BatchDies ==
  /\ batch # "idle" /\ crashes < MaxCrashes /\ crashes' = crashes + 1 /\ batch' = "idle"
  /\ writers' = writers \ {precompute} /\ spoilt' = (spoilt /\ writers' # {})
  /\ UNCHANGED <<artifact, release, file, servedVars>>
-----------------------------------------------------------------------------
(* A loader: a thread that misses reads the file without a lock, and the    *)
(* first to come back is kept, a fallback like any other answer.           *)
Missed(r, l) ==
  web' = [web EXCEPT ![r] =
    IF l = "disputes_df" THEN [at |-> "names", loader |-> l, got |-> <<release>>]
                         ELSE [at |-> "loaded", loader |-> l, got |-> <<_load_json>>]]

Called(r, l) ==
  /\ web[r].at = "idle" /\ Behind(l) = artifact /\ cached[l] = NotCached /\ Missed(r, l)
  /\ UNCHANGED <<diskVars, cached, injected, clearing, rebuilds>>

\* disputes_df puts names on its rows with another loader.
Named(r) ==
  /\ web[r].at = "names"
  /\ LET hit == cached["dispute_names"] # NotCached
         names == IF hit THEN cached["dispute_names"] ELSE <<_load_json>>
     IN  web' = [web EXCEPT ![r].at = IF hit THEN "loaded" ELSE "named", ![r].got = @ \o names]
  /\ UNCHANGED <<diskVars, cached, injected, clearing, rebuilds>>

Kept(l, value) == cached' = [cached EXCEPT ![l] = IF @ = NotCached THEN value ELSE @]

NamesKept(r) ==
  /\ web[r].at = "named" /\ Kept("dispute_names", <<web[r].got[2]>>)
  /\ web' = [web EXCEPT ![r].at = "loaded"]
  /\ UNCHANGED <<diskVars, injected, clearing, rebuilds>>

LoadKept(r) ==
  /\ web[r].at = "loaded" /\ Kept(web[r].loader, web[r].got)
  /\ web' = [web EXCEPT ![r] = IF web[r].loader = "base_rate_counts" THEN [@ EXCEPT !.at = "inject"] ELSE Idle]
  /\ UNCHANGED <<diskVars, injected, clearing, rebuilds>>

\* score_market and quote_curve inject the denominators in every request.
install_offline_di(r) ==
  /\ web[r].at = "idle" /\ artifact = "base_rate_counts" /\ cached[artifact] # NotCached
  /\ web' = [web EXCEPT ![r] = [at |-> "inject", loader |-> artifact, got |-> cached[artifact]]]
  /\ UNCHANGED <<diskVars, cached, injected, clearing, rebuilds>>

Injected(r) ==
  /\ web[r].at = "inject" /\ injected' = web[r].got[1]
  /\ web' = [web EXCEPT ![r] = Idle]
  /\ UNCHANGED <<diskVars, cached, clearing, rebuilds>>
\* For the overview the denominators are another artifact's: injected by a request at any time.
OthersInject ==
  /\ artifact = "hf_overview" /\ injected' \in Denominators
  /\ UNCHANGED <<diskVars, cached, clearing, web, rebuilds>>
-----------------------------------------------------------------------------
(* refresh() clears one loader after the other, among the requests.         *)
RefreshBegins ==
  /\ clearing = 0 /\ clearing' = 1
  /\ UNCHANGED <<diskVars, cached, injected, web, rebuilds>>

Cleared ==
  /\ clearing > 0
  /\ cached' = [cached EXCEPT ![_ARTIFACT_LOADERS[clearing]] = NotCached]
  /\ clearing' = (clearing + 1) % (Len(_ARTIFACT_LOADERS) + 1)
  /\ UNCHANGED <<diskVars, injected, web, rebuilds>>

(* hf_overview(live=True): scan, with the injected counts, write, clear,    *)
(* load.                                                                   *)
RebuildScans(r) ==
  /\ web[r].at = "idle" /\ artifact = "hf_overview"
  /\ rebuilds < MaxRebuilds /\ rebuilds' = rebuilds + 1
  /\ web' = [web EXCEPT ![r] = [at |-> "scanned", loader |-> artifact, got |-> <<injected>>]]
  /\ UNCHANGED <<diskVars, cached, injected, clearing>>

RebuildOpens(r) ==
  /\ web[r].at = "scanned" /\ Opens(r)
  /\ web' = [web EXCEPT ![r].at = "writing"]
  /\ UNCHANGED <<artifact, release, batch, crashes, cached, injected, clearing, rebuilds>>

RebuildCloses(r) ==
  /\ web[r].at = "writing" /\ Closes(r, web[r].got[1])
  /\ web' = [web EXCEPT ![r].at = "written"]
  /\ UNCHANGED <<artifact, release, batch, crashes, cached, injected, clearing, rebuilds>>

RebuildClears(r) ==
  /\ web[r].at = "written" /\ cached' = [cached EXCEPT !["hf_overview"] = NotCached]
  /\ web' = [web EXCEPT ![r].at = "reload"]
  /\ UNCHANGED <<diskVars, injected, clearing, rebuilds>>

RebuildLoads(r) ==
  /\ web[r].at = "reload"
  /\ IF cached["hf_overview"] = NotCached THEN Missed(r, "hf_overview") ELSE web' = [web EXCEPT ![r] = Idle]
  /\ UNCHANGED <<diskVars, cached, injected, clearing, rebuilds>>

\* A request, after its first step.
Serving(r) ==
  \/ Named(r) \/ NamesKept(r) \/ LoadKept(r) \/ Injected(r)
  \/ RebuildOpens(r) \/ RebuildCloses(r) \/ RebuildClears(r) \/ RebuildLoads(r)

CachesNext ==
  \/ Restarted \/ Redeployed
  \/ (\E force \in BOOLEAN : BatchBegins(force)) \/ StepPassed \/ StepOpens \/ _write \/ BatchDies
  \/ \E r \in Requesters : \/ \E l \in Loaders : Called(r, l)
                           \/ install_offline_di(r) \/ RebuildScans(r) \/ Serving(r)
  \/ OthersInject \/ RefreshBegins \/ Cleared

CachesSpec == CachesInit /\ [][CachesNext]_cacheVars
-----------------------------------------------------------------------------
\* What a loader would read now.
OnDisk(l) == IF l = "disputes_df" THEN <<release, _load_json>> ELSE <<_load_json>>

\* "the next access re-reads from disk" (cache.py:181-184): once the disk is left alone,
\* refreshes that go on leave nothing older in the caches, nor among the denominators if
\* requests go on injecting them; through loads in flight over a refresh, names and rows
\* cleared one after the other, a rebuild during a batch, restarts and deploys.
CachesHeal ==
  (<>[][FALSE]_diskVars /\ []<>(clearing # 0)) =>
    /\ <>[](\A l \in Loaders : cached[l] \in {NotCached, OnDisk(l)})
    /\ (artifact = "base_rate_counts" /\ []<>(\E r \in Requesters : web[r].at = "inject"))
         => <>[](injected = _load_json)
=============================================================================
