\* The source's RBAC table with one more row, and all tables of up to two rows;
\* three edits of the sources; three workloads under test.
CONSTANTS
    Segment <- MCSegment
    Tenant <- MCTenant
    Tables <- MCTables
    Objectives = {"a", "b"}
    MaxEdits = 3
    NS <- MCNS
    Apps <- MCNS
    Sts <- MCSts
    Dep <- MCDep
    API = "api"
SPECIFICATION PipelineSpec
INVARIANTS
    GrantsAsAsked
    SourceTableIsAccepted
    PipelineTypeOK
    EveryObjectiveHasItsFile
    EveryAlertIsRouted
    AlertsTellInstancesApart
    GreenIsCurrent
    MadeIsCurrent
    NoFailureIsLost
    GreenMeansRolledOut
    UndisturbedGatheringIsComplete
PROPERTY TestsJobEnds
CHECK_DEADLOCK FALSE
