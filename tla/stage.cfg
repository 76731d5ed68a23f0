\* Two releases of each image; ages on both sides of every window's edge; ten
\* rounds of rules.  Everything may come to rest.
CONSTANTS
    MaxTag = 1
    Ages = {1, 2, 3, 4, 5, 21, 22, 23, 24, 25, 336, 337, 338, 2160, 2161, 2162, 9000}
    SyncWithin = 1
    Lookback = 5
    LastMinute = 40
SPECIFICATION StageSpec
INVARIANTS
    StageTypeOK
    OnlyTheCacheGoesDark
    NothingElseDangles
    EverythingIsScraped
    NothingIsMissing
    UploadedInTimeIsServed
    OneRoundBehindAtMost
PROPERTY RolloutCompletes
CHECK_DEADLOCK FALSE
