----------------------------- MODULE MCPipeline -----------------------------
(***************************************************************************)
(* From the sources to a tested commit, for TLC: the RBAC generator, the   *)
(* SLO generator, the build job and the tests job of CI.  The four share   *)
(* no state, so a behaviour is of one of them: their states add up and are *)
(* not multiplied.                                                         *)
(***************************************************************************)
EXTENDS MCRbac, SLOs, CiScript, Generation

VARIABLE part

MCNS   == <<"minio", "observatorium">>
MCSts  == [minio |-> {}, observatorium |-> {"thanos"}]
MCDep  == [minio |-> {"minio"}, observatorium |-> {"api"}]

ASSUME TestsAssumption == ScriptAssumption

PipelineInit ==
    /\ part \in {"rbac", "slos", "build", "tests"}
    /\ Init /\ SLOInit /\ GenInit /\ ScriptInit
    /\ part # "rbac" => table = [rows |-> << >>, admin |-> 1]

RbacRuns  == part = "rbac" /\ Next /\ UNCHANGED <<part, sloVars, genVars, scriptVars>>
SloRuns   == part = "slos" /\ SLONext /\ UNCHANGED <<part, vars, genVars, scriptVars>>
BuildRuns == part = "build" /\ GenNext /\ UNCHANGED <<part, vars, sloVars, scriptVars>>
TestsRun  == part = "tests" /\ ScriptNext /\ UNCHANGED <<part, vars, sloVars, genVars>>
TestsStep == part = "tests" /\ ScriptStep /\ UNCHANGED <<part, vars, sloVars, genVars>>

PipelineNext == RbacRuns \/ SloRuns \/ BuildRuns \/ TestsRun

PipelineVars == <<part, vars, sloVars, genVars, scriptVars>>
PipelineSpec == PipelineInit /\ [][PipelineNext]_PipelineVars /\ WF_PipelineVars(TestsStep)

(* The types of the parts.                                                  *)
PipelineTypeOK == TypeOK /\ GenTypeOK /\ ScriptTypeOK

(* The job that runs ends: see CiScript.                                    *)
TestsJobEnds == part = "tests" => JobEnds
=============================================================================
