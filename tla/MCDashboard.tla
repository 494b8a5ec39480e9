----------------------------- MODULE MCDashboard -----------------------------
(***************************************************************************)
(* What the dashboard shows: the disputes explorer over its feeds, and the  *)
(* artifacts behind the other routes.  A refresh of the caches reaches the  *)
(* explorer as a longer layer, so a behaviour follows one of the two and    *)
(* leaves the other as it began.                                           *)
(***************************************************************************)
EXTENDS DisputeFeed, WebCaches

\* One market disputed twice: in the layer as the index opens, and a day after its price
\* was asked for.
MCFeed ==
  << [cid |-> "m", negrisk |-> FALSE, asked |-> 0, at |-> 0],
     [cid |-> "m", negrisk |-> FALSE, asked |-> 0, at |-> 1] >>

VARIABLE part       \* which of them this behaviour is about

dashboardVars == <<part, feedVars, cacheVars>>

DashboardInit ==
  /\ part \in {"feed", "caches"} /\ FeedInit /\ CachesInit
  /\ part # "feed" => released = 0
  /\ part # "caches" => artifact = "hf_overview" /\ file = 1 /\ injected = 1

ExplorerPart(A) == part = "feed" /\ A /\ UNCHANGED <<part, cacheVars>>
CachesPart(A) == part = "caches" /\ A /\ UNCHANGED <<part, feedVars>>

DashboardNext == ExplorerPart(FeedNext) \/ CachesPart(CachesNext)

\* Days pass, what a cache keeps expires, and somebody looks: requests are served, and
\* come again.  A scan that is tried again and again succeeds some time, names included,
\* and so does a merge.  Of the artifacts only what a thread has begun goes on: deploys,
\* batches, refreshes and new requests come or do not.
DashboardSpec ==
  /\ DashboardInit /\ [][DashboardNext]_dashboardVars
  /\ WF_dashboardVars(ExplorerPart(DayPasses))
  /\ WF_dashboardVars(ExplorerPart(StatusExpires)) /\ WF_dashboardVars(ExplorerPart(RowsExpire))
  /\ WF_dashboardVars(ExplorerPart(TailAges)) /\ WF_dashboardVars(ExplorerPart(MergedExpires))
  /\ SF_dashboardVars(ExplorerPart(ScanLands(Latest)))
  /\ \A r \in Readers : /\ WF_dashboardVars(ExplorerPart(Opened(r)))
                        /\ WF_dashboardVars(ExplorerPart(FromEnvio(r) \/ FromTail(r)))
                        /\ SF_dashboardVars(ExplorerPart(Merged(r)))
  /\ WF_dashboardVars(CachesPart(Cleared)) /\ \A r \in Requesters : WF_dashboardVars(CachesPart(Serving(r)))
=============================================================================
