\* The names of the tiers against their windows: a sample of ten days, and the
\* ages on both sides of the windows' edges.
CONSTANTS
    Ages = {240, 336, 2160, 2161, 9000}
    SyncWithin = 1
SPECIFICATION Spec
INVARIANT TiersAsNamed
CHECK_DEADLOCK FALSE
