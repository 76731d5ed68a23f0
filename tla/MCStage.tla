------------------------------ MODULE MCStage ------------------------------
(***************************************************************************)
(* The stage environment for TLC: the rollout of its bundles, the life of  *)
(* a sample in its ingesters and stores, and the rounds of its ruler.  The *)
(* three share no state, so a behaviour is of one of them: their states    *)
(* add up and are not multiplied.                                          *)
(***************************************************************************)
EXTENDS Retention, RuleGroup, Rollout

VARIABLE part

StageInit ==
    /\ part \in {"rollout", "sample", "rules"}
    /\ Init /\ ClusterInit /\ RulerInit
    /\ part # "sample" => ring = "default"
    /\ part # "rollout" => env = "local"

SampleLives   == part = "sample" /\ Next /\ UNCHANGED <<part, clusterVars, rulerVars>>
RulesEvaluate == part = "rules" /\ RulerNext /\ UNCHANGED <<part, vars, clusterVars>>
Rolls         == part = "rollout" /\ RolloutNext /\ UNCHANGED <<part, vars, rulerVars>>
ClusterMoves  == part = "rollout" /\ ClusterNext /\ UNCHANGED <<part, vars, rulerVars>>

StageNext == SampleLives \/ RulesEvaluate \/ Rolls

StageVars == <<part, vars, clusterVars, rulerVars>>
StageSpec == StageInit /\ [][StageNext]_StageVars /\ WF_StageVars(ClusterMoves)

(* The types of the three parts.                                            *)
StageTypeOK == TypeOK /\ ClusterTypeOK /\ RulerTypeOK
=============================================================================
