----------------------------- MODULE MCHubDeploy -----------------------------
(* Small instances of HubDeploy for TLC.                                    *)
EXTENDS HubDeploy, TLC

CONSTANTS d1, d2, t1, t2

MainStages == Stage \ LogStage
OneDir     == t1 :> d1
TwoDirs    == (t1 :> d1) @@ (t2 :> d2)
SharedDir  == (t1 :> d1) @@ (t2 :> d1)
=============================================================================
