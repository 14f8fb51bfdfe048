--------------------------- MODULE MCCollectLive ---------------------------
(* Two collectors that read what another program writes, as in             *)
(* MCCollectors, under the fairness of their own timers: the session files *)
(* of Codex and the cache of Claude Desktop.                               *)
EXTENDS MCRollout

VARIABLES
  scene,
  \* DesktopChat
  offer, cache, granted, gone, died, arrived, known, sweep, records, shown

INSTANCE MCOffers

D == INSTANCE DesktopChat WITH
  Offers <- {FolderOffer, LinkOffer}, OrgOf <- ChatOrg,
  MaxGone <- 1, MaxDied <- 1, LinkWindow <- 1

chat == <<offer, cache, granted, gone, died, arrived, known, sweep, records, shown>>

collectVars == <<scene, rolloutVars, chat>>

CollectInit ==
  /\ scene \in {"rollout", "chat"}
  /\ RolloutInit /\ D!DesktopInit
  /\ scene # "rollout" => quiet
  /\ scene # "chat" => offer = LinkOffer

CollectNext ==
  \/ scene = "rollout" /\ RolloutNext /\ UNCHANGED <<scene, chat>>
  \/ scene = "chat" /\ D!DesktopNext /\ UNCHANGED <<scene, rolloutVars>>

(* The step of the rollout's collector.                                    *)
Step(A) == scene = "rollout" /\ A /\ UNCHANGED <<scene, chat>>

(* A step of one collector leaves the other alone, so that each has the    *)
(* fairness of FairRolloutSpec and of DesktopFairSpec.                     *)
CollectSpec ==
  /\ CollectInit
  /\ [][CollectNext]_collectVars
  /\ WF_collectVars(Step(Tick)) /\ WF_collectVars(Step(Commit)) /\ WF_collectVars(Step(Checkpoint))
  /\ \A p \in Paths :
       /\ WF_collectVars(Step(Defer(p) \/ SkipDone(p))) /\ SF_collectVars(Step(DrainWhole(p)))
       /\ WF_collectVars(Step(LagElapses(p)))
       /\ WF_collectVars(Step(length[p] < packed[p] /\ Write(p)))
  /\ WF_collectVars(scene = "chat" /\ D!DesktopScan /\ UNCHANGED <<scene, rolloutVars>>)

(* What is written to its end is recorded in the end: every line of a      *)
(* session that never rests, that is compressed or unpacked in between,    *)
(* that cannot be read for a while (codex_tailer.rs); and the use of a     *)
(* response the plugin measured, though the cache of Claude Desktop can     *)
(* never be read and scans die in between (claude_desktop_tailer.rs).      *)
EverythingRecorded ==
  /\ [](scene = "rollout") => EveryLineRecorded
  /\ [](scene = "chat") => D!UploadsRecorded
============================================================================
