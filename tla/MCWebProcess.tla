---------------------------- MODULE MCWebProcess ----------------------------
(***************************************************************************)
(* What the web process does in the background: the keeper's life, its fill *)
(* poll, its dispute detector, and the tail of the live disputes.  They     *)
(* share no state, so a behaviour follows one of them and leaves the others *)
(* as they began.                                                           *)
(***************************************************************************)
EXTENDS KeeperLifecycle, FillScan, ProposalFeed, LiveTail

CONSTANTS a, b, t1, t2

\* Two markets, one deployed at an unknown height and one at block 2, with a trade on each.
MCFleet == <<a, b>>
MCMarketOf == [t \in Trades |-> IF t = t2 THEN b ELSE a]
MCDeployed == [m \in Markets |-> IF m = a THEN 0 ELSE 2]

VARIABLE part       \* which of them this behaviour is about

webVars == <<part, lifecycleVars, fillVars, detectorVars, tailVars>>

WebInit ==
  /\ part \in {"keeper", "fills", "detector", "tail"}
  /\ LifecycleInit /\ FillInit /\ DetectorInit /\ TailInit

KeeperPart(A) == part = "keeper" /\ A /\ UNCHANGED <<part, fillVars, detectorVars, tailVars>>
FillPart(A) == part = "fills" /\ A /\ UNCHANGED <<part, lifecycleVars, detectorVars, tailVars>>
DetectorPart(A) == part = "detector" /\ A /\ UNCHANGED <<part, lifecycleVars, fillVars, tailVars>>
TailPart(A) == part = "tail" /\ A /\ UNCHANGED <<part, lifecycleVars, fillVars, detectorVars>>

WebNext ==
  \/ KeeperPart(LifecycleNext) \/ FillPart(FillNext)
  \/ DetectorPart(DetectorNext) \/ TailPart(TailNext)

\* A keeper thread is scheduled, and every call in a tick has a timeout; a caller
\* finishes the method it is in; nothing makes anyone call.  The keeper ticks for ever,
\* and now and then a head is read from a node that is up with the chain and a market's
\* logs are answered.  Its ticks go on asking the detector, threads run and time passes;
\* a scan that is tried again and again succeeds some time, with the lookup of its labels.
WebSpec ==
  /\ WebInit /\ [][WebNext]_webVars
  /\ \A t \in Threads : WF_webVars(KeeperPart(run(t)))
  /\ \A c \in Callers : WF_webVars(KeeperPart(start_background(c) \/ stop_keeper(c)))
  /\ WF_webVars(FillPart(PollStep))
  /\ SF_webVars(FillPart(head_block /\ safe_head' = Len(chain) - Confirmations))
  /\ \A m \in Markets : SF_webVars(FillPart(Scan(m)))
  /\ WF_webVars(DetectorPart(_maybe_refresh_async)) /\ WF_webVars(DetectorPart(SpawnReturns))
  /\ SF_webVars(DetectorPart(ScanAnswers /\ BatchAnswers)) /\ WF_webVars(DetectorPart(ScanReturns))
  /\ WF_webVars(DetectorPart(Refreshed)) /\ WF_webVars(DetectorPart(RefreshEnds))
  /\ WF_webVars(DetectorPart(Expires))
=============================================================================
