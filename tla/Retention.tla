------------------------------ MODULE Retention ------------------------------
(***************************************************************************)
(* The life of one sample on stage: an ingester of receiveCR keeps it for  *)
(* the retention of its hashring and uploads its block, and each store of  *)
(* storeCR loads the block while it lies in the store's window of time.    *)
(* Ages and durations are in hours.  When a block is uploaded and how soon *)
(* a store loads what has come into its window is external.                *)
(***************************************************************************)
EXTENDS Integers

CONSTANTS
    Ages,           \* the ages at which the sample is looked at
    SyncWithin      \* how long a store may take to load a block

(* What the overlap of the default hashring and its store leaves for it.    *)
ASSUME RetentionAssumption ==
    /\ Ages \subseteq Nat
    /\ SyncWithin \in 0 .. 2

VARIABLES
    ring,           \* the hashring of the sample's tenant
    age,
    local,          \* whether an ingester still has the sample
    uploadedAt,     \* the age at which its block was uploaded, or Never
    loaded          \* the stores that have loaded the block

vars == <<ring, age, local, uploadedAt, loaded>>

-----------------------------------------------------------------------------
Never == -1
Unset == -1
Day   == 24
Week  == 7 * Day

Rings == {"telemeter", "default"}

(* The TSDB retention of the ingesters of each hashring.                    *)
IngesterRetention == [r \in Rings |-> IF r = "telemeter" THEN 4 ELSE Day]

(* MinTime -90d leaves out what is older than 90 days, and MaxTime -2w what *)
(* is younger than two weeks.                                               *)
Window(minTime, maxTime) == [oldest |-> minTime, youngest |-> maxTime]

Stores == [r \in Rings |->
    IF r = "telemeter" THEN {"telemeter-0to2w", "telemeter-2wto90d", "telemeter-90dplus"}
                       ELSE {"default"}]

(* Mutant: the youngest tier is given the window of its name, and nothing   *)
(* else is changed.                                                         *)
WindowOfRenamed(s) ==
    CASE s = "telemeter-0to2w"   -> Window(2 * Week, Unset)
      [] s = "telemeter-2wto90d" -> Window(90 * Day, 2 * Week)
      [] s = "telemeter-90dplus" -> Window(90 * Day, Unset)
      [] s = "default"           -> Window(Unset, 22)
WindowOf(s) ==
    CASE s = "telemeter-0to2w"   -> Window(Unset, 2 * Week)
      [] s = "telemeter-2wto90d" -> Window(90 * Day, 2 * Week)
      [] s = "telemeter-90dplus" -> Window(90 * Day, Unset)
      [] s = "default"           -> Window(Unset, 22)

TooOld(s, a)   == WindowOf(s).oldest # Unset /\ a > WindowOf(s).oldest
TooYoung(s, a) == WindowOf(s).youngest # Unset /\ a < WindowOf(s).youngest
InWindow(s, a) == ~ TooOld(s, a) /\ ~ TooYoung(s, a)

(* The age at which the block, uploaded at age u, comes into the window.    *)
Enters(s, u) == IF TooYoung(s, u) THEN WindowOf(s).youngest ELSE u

(* By the age a the store has loaded the block, unless it is out of reach.  *)
DueBy(s, a) == ~ TooOld(s, a) => a <= Enters(s, uploadedAt) + SyncWithin

-----------------------------------------------------------------------------
Init ==
    /\ ring \in Rings
    /\ age = 0 /\ local = TRUE
    /\ uploadedAt = Never /\ loaded = {}

(* Time passes, but not beyond the moment at which a store must have loaded *)
(* the block.                                                               *)
Grow(a) ==
    /\ a > age
    /\ uploadedAt # Never => \A s \in Stores[ring] \ loaded : DueBy(s, a)
    /\ age' = a
    /\ UNCHANGED <<ring, local, uploadedAt, loaded>>

Upload ==
    /\ local /\ uploadedAt = Never
    /\ uploadedAt' = age
    /\ UNCHANGED <<ring, age, local, loaded>>

Load(s) ==
    /\ uploadedAt # Never /\ s \notin loaded /\ InWindow(s, age)
    /\ loaded' = loaded \cup {s}
    /\ UNCHANGED <<ring, age, local, uploadedAt>>

(* The ingester deletes what is beyond its retention, uploaded or not.      *)
DropLocal ==
    /\ local /\ age > IngesterRetention[ring]
    /\ local' = FALSE
    /\ UNCHANGED <<ring, age, uploadedAt, loaded>>

Next ==
    \/ \E a \in Ages : Grow(a)
    \/ Upload
    \/ \E s \in Stores[ring] : Load(s)
    \/ DropLocal

Spec == Init /\ [][Next]_vars

-----------------------------------------------------------------------------
TypeOK ==
    /\ ring \in Rings
    /\ age \in Ages \cup {0}
    /\ local \in BOOLEAN
    /\ uploadedAt \in Ages \cup {0, Never}
    /\ loaded \subseteq Stores[ring]

Served(a) == local \/ \E s \in loaded : InWindow(s, a)

UploadedInTime ==
    uploadedAt # Never /\ uploadedAt + SyncWithin <= IngesterRetention[ring]

(* A sample whose block is uploaded while the ingesters keep it can be      *)
(* queried at every age: one window opens before the ingesters drop it      *)
(* (cr.go:505, 536 against 351, 412) and the next before that one closes,   *)
(* although the tiers of telemeter do not cover the ages in their names.    *)
UploadedInTimeIsServed == UploadedInTime => Served(age)

(* The ages in the names of the tiers.                                      *)
NamedAges(s) ==
    CASE s = "telemeter-0to2w"   -> 0 .. 2 * Week
      [] s = "telemeter-2wto90d" -> 2 * Week .. 90 * Day
      [] s = "telemeter-90dplus" -> {a \in Ages : a >= 90 * Day}
      [] s = "default"           -> {}

(* What the names of the stores say (cr.go:192, 253, 318): once a sample    *)
(* that was uploaded has left the ingesters, it is in the window of the     *)
(* store named for its age.  The first tier has MaxTime -2w (cr.go:225) and *)
(* so leaves out all that it is named for.                                  *)
TiersAsNamed ==
    ~ local /\ UploadedInTime =>
        \A s \in Stores[ring] : age \in NamedAges(s) => InWindow(s, age)
=============================================================================
