----------------------------- MODULE Generation -----------------------------
(***************************************************************************)
(* A maintainer's working copy, and the build job of CI that is to tell    *)
(* whether what is committed is what the sources generate.  The Makefile   *)
(* decides by modification times what to build again, and its targets      *)
(* share one Go program, mimic.go, which writes the files of three         *)
(* generators only when main returns or panics.                            *)
(*                                                                         *)
(* A source is the number of the edit it was left by, and a file the part  *)
(* of the sources it was made of.  rows are the objectives of slo.go, each *)
(* of which has a file; lib stands for the jsonnet files a template        *)
(* imports that are not among its prerequisites.                           *)
(***************************************************************************)
EXTENDS Naturals, Functions

CONSTANTS
    Objectives,     \* the names of objectives
    MaxEdits        \* bound on the edits

ASSUME GenerationAssumption == Objectives # {} /\ MaxEdits \in Nat

VARIABLES
    src,            \* the sources of the working copy
    tree,           \* its generated files
    jsonOld,        \* whether rbac.go is newer than rbac.json
    templateOld,    \* whether a prerequisite is newer than the template
    libOld,         \* whether lib is newer than the template
    edits,
    made,           \* the targets made without an error since the last edit
    committed,      \* sources and tracked files of the commit
    build           \* CI's verdict on it: "none", "passed" or "failed"

genVars == <<src, tree, jsonOld, templateOld, libOld, edits, made, committed, build>>

-----------------------------------------------------------------------------
(* The files, of which an objective has one.                                *)
Pyrra(row) == <<"pyrra", row>>
RuleFile     == <<"rules">>
ManifestFile == <<"manifests">>
TemplateFile == <<"template">>
RbacJson     == <<"rbac.json">>

Generators == <<"slo", "rbac", "services">>

(* What the sources generate: the files of each generator, and what is in   *)
(* them.  A file of an objective has the objective's name for its content.  *)
SloFiles(s) == {Pyrra(row) : row \in s.rows} \cup {RuleFile}
Added(s, generator) ==
    CASE generator = "slo"      -> SloFiles(s)
      [] generator = "rbac"     -> {RbacJson}
      [] generator = "services" -> {ManifestFile}
Template(s, rbac) == [jsonnet |-> s.jsonnet, lib |-> s.lib, rbac |-> rbac]
Content(s, f) ==
    CASE f = RuleFile     -> s.rows
      [] f = RbacJson     -> s.rbac
      [] f = ManifestFile -> s.services
      [] f = TemplateFile -> Template(s, s.rbac)
      [] OTHER            -> f
Expected(s) == [f \in {TemplateFile, ManifestFile} \cup SloFiles(s) |-> Content(s, f)]

(* mimic.go: the generators in order.  The files that were added are        *)
(* written by a deferred call, also when a generator panics, which may have *)
(* added some of its own by then.  The rules count among them, since slo    *)
(* goes through several environments; rbac adds its one file at its end.    *)
Panics(s) == s.broken \in Range(Generators)
Returned(s) ==
    {Generators[i] : i \in {j \in DOMAIN Generators :
        \A k \in 1 .. j : Generators[k] # s.broken}}
PartlyAdded(s) ==
    CASE s.broken = "slo"      -> SloFiles(s)
      [] s.broken = "services" -> {ManifestFile}
      [] OTHER                 -> {}
Mimic(s, files, some) ==
    LET added == some \cup UNION {Added(s, g) : g \in Returned(s)}
    IN  [f \in DOMAIN files \cup added |-> IF f \in added THEN Content(s, f) ELSE files[f]]

(* make prometheusrules: the rules are removed first.                       *)
MakeRules(s, files, some) ==
    Mimic(s, [f \in DOMAIN files \ {RuleFile} |-> files[f]], some)

(* An evaluation error of jsonnet is lost in the pipe to the template.      *)
Garbage == [jsonnet |-> MaxEdits + 1, lib |-> 0, rbac |-> 0]
Jsonnet(s, files) ==
    IF s.broken = "jsonnet" THEN Garbage ELSE Template(s, files[RbacJson])

(* make manifests, when rbac.json and the template are to be made or not.   *)
JsonMade(s, files, old, some) == IF old THEN Mimic(s, files, some) ELSE files
MakeTemplate(s, files) ==
    [f \in DOMAIN files \cup {TemplateFile} |->
        IF f = TemplateFile THEN Jsonnet(s, files) ELSE files[f]]
MakeManifests(s, files, old, templOld, some) ==
    LET got == JsonMade(s, files, old, some)
    IN  IF (old /\ Panics(s)) \/ ~ (old \/ templOld) THEN got ELSE MakeTemplate(s, got)

-----------------------------------------------------------------------------
GenInit ==
    /\ src = [rbac |-> 0, jsonnet |-> 0, lib |-> 0, services |-> 0,
              rows |-> {CHOOSE o \in Objectives : TRUE}, broken |-> "nothing"]
    /\ tree = Expected(src)
    /\ jsonOld = TRUE /\ templateOld = FALSE /\ libOld = FALSE
    /\ edits = 0 /\ made = {}
    /\ committed = [src |-> src, files |-> tree] /\ build = "none"

Edited(s) ==
    /\ edits < MaxEdits
    /\ src' = s /\ edits' = edits + 1 /\ made' = {}
    /\ UNCHANGED <<tree, committed, build>>

EditRbac ==
    /\ Edited([src EXCEPT !.rbac = edits + 1])
    /\ jsonOld' = TRUE /\ UNCHANGED <<templateOld, libOld>>
EditJsonnet ==
    /\ Edited([src EXCEPT !.jsonnet = edits + 1])
    /\ templateOld' = TRUE /\ UNCHANGED <<jsonOld, libOld>>
EditLib ==
    /\ Edited([src EXCEPT !.lib = edits + 1])
    /\ libOld' = TRUE /\ UNCHANGED <<jsonOld, templateOld>>
EditServices ==
    /\ Edited([src EXCEPT !.services = edits + 1])
    /\ UNCHANGED <<jsonOld, templateOld, libOld>>
EditRows ==
    /\ \E rows \in SUBSET Objectives \ {src.rows} : Edited([src EXCEPT !.rows = rows])
    /\ UNCHANGED <<jsonOld, templateOld, libOld>>

(* An edit that breaks a generator, or mends what was broken.  Either may   *)
(* be in a file make does not look at.                                      *)
BreakOrMend ==
    /\ \E b \in Range(Generators) \cup {"jsonnet", "nothing"} :
          /\ b # src.broken
          /\ Edited([src EXCEPT !.broken = b])
          /\ jsonOld' = (jsonOld \/ "rbac" \in {b, src.broken})
          /\ templateOld' = templateOld
          /\ libOld' = (libOld \/ "jsonnet" \in {b, src.broken})

Made(target) == made' = IF Panics(src) THEN made ELSE made \cup {target}

(* Mutant: rbac.json has no prerequisite.                                   *)
RbacJsonMissing == RbacJson \notin DOMAIN tree
RbacJsonDue == RbacJson \notin DOMAIN tree \/ jsonOld

(* make prometheusrules: mimic in any case.                                 *)
PrometheusRules ==
    /\ \E some \in SUBSET PartlyAdded(src) : tree' = MakeRules(src, tree, some)
    /\ jsonOld' = (jsonOld /\ "rbac" \notin Returned(src))
    /\ templateOld' = (templateOld \/ "rbac" \in Returned(src))
    /\ Made("rules")
    /\ UNCHANGED <<src, libOld, edits, committed, build>>

Manifests ==
    /\ \E some \in SUBSET PartlyAdded(src) :
          tree' = MakeManifests(src, tree, RbacJsonDue, templateOld, some)
    /\ IF RbacJsonDue /\ Panics(src)
       THEN /\ jsonOld' = (jsonOld /\ "rbac" \notin Returned(src))
            /\ templateOld' = (templateOld \/ "rbac" \in Returned(src))
            /\ UNCHANGED <<libOld, made>>
       ELSE /\ jsonOld' = (jsonOld /\ ~ RbacJsonDue)
            /\ templateOld' = FALSE
            /\ libOld' = (libOld /\ ~ (RbacJsonDue \/ templateOld))
            /\ made' = made \cup {"manifests"}
    /\ UNCHANGED <<src, edits, committed, build>>

(* git commit -a, with or without git add.  resources/.tmp is ignored.      *)
(* Mutant: it is not ignored.                                               *)
TrackedAll(addNew) == {f \in DOMAIN tree : addNew \/ f \in DOMAIN committed.files}
Tracked(addNew) ==
    {f \in DOMAIN tree \ {RbacJson} : addNew \/ f \in DOMAIN committed.files}
Commit ==
    \E addNew \in BOOLEAN :
        /\ committed' = [src |-> src, files |-> [f \in Tracked(addNew) |-> tree[f]]]
        /\ committed' # committed
        /\ build' = "none"
        /\ UNCHANGED <<src, tree, jsonOld, templateOld, libOld, edits, made>>

-----------------------------------------------------------------------------
(* The build job: a checkout in which the tools are newer than any file,    *)
(* make manifests prometheusrules, make validate, git diff --exit-code.     *)
(* Its make grafana, format and lint are left out.  What a panicking        *)
(* generator had added is of no account here: a panic fails the job.        *)

(* Mutant: rbac.json is committed too, and no older than rbac.go.           *)
CheckedOutTracked(c) ==
    LET files == [f \in DOMAIN c.files \cup {RbacJson} |->
                    IF f = RbacJson THEN c.files[TemplateFile].rbac ELSE c.files[f]]
    IN  MakeManifests(c.src, files, FALSE, TRUE, {})
CheckedOut(c) == MakeManifests(c.src, c.files, TRUE, TRUE, {})
Rebuilt(c)   == MakeRules(c.src, CheckedOut(c), {})
Valid(files) == TemplateFile \in DOMAIN files /\ files[TemplateFile] # Garbage
DiffIsEmpty(c) ==
    \A f \in DOMAIN c.files : f \in DOMAIN Rebuilt(c) /\ Rebuilt(c)[f] = c.files[f]

Build ==
    /\ build = "none"
    /\ build' = IF ~ Panics(committed.src) /\ Valid(Rebuilt(committed)) /\ DiffIsEmpty(committed)
                THEN "passed" ELSE "failed"
    /\ UNCHANGED <<src, tree, jsonOld, templateOld, libOld, edits, made, committed>>

GenNext ==
    \/ EditRbac \/ EditJsonnet \/ EditLib \/ EditServices \/ EditRows \/ BreakOrMend
    \/ PrometheusRules \/ Manifests \/ Commit \/ Build

GenSpec == GenInit /\ [][GenNext]_genVars

-----------------------------------------------------------------------------
GenTypeOK ==
    /\ src.rows \subseteq Objectives
    /\ src.broken \in Range(Generators) \cup {"jsonnet", "nothing"}
    /\ DOMAIN tree \subseteq {TemplateFile, RuleFile, ManifestFile, RbacJson}
                                 \cup {Pyrra(o) : o \in Objectives}
    /\ DOMAIN committed.files \subseteq (DOMAIN tree \cup {RuleFile}) \ {RbacJson}
    /\ made \subseteq {"rules", "manifests"}
    /\ build \in {"none", "passed", "failed"}

(* A commit that passes has no broken generator and no stale file: each     *)
(* tracked file has the content its own sources generate, whatever the      *)
(* maintainer's working copy had made it of.  What the job does not see,    *)
(* since git diff leaves out what is not tracked (config.yml, ci.yml), is   *)
(* a file of a retired objective that is still there, one of a new          *)
(* objective that was never added, and rules that a failed run of make      *)
(* prometheusrules had removed when they were committed (Makefile:83).      *)
(* The files meant are those of mimic.go and the one template.  What mage   *)
(* build writes and observatorium-tenants-template.yaml (Makefile:154) are  *)
(* tracked as well, but config.yml:9 has neither built again: git diff      *)
(* finds them as they were committed, and they may be stale on green.       *)
GreenIsCurrent ==
    build = "passed" =>
        LET c == committed
            want == Expected(c.src)
            pyrra == {Pyrra(o) : o \in Objectives}
        IN  /\ c.src.broken = "nothing"
            /\ \A f \in DOMAIN c.files :
                  IF f \in DOMAIN want THEN c.files[f] = want[f] ELSE f \in pyrra
            /\ DOMAIN want \ DOMAIN c.files \subseteq pyrra \cup {RuleFile}

(* In a working copy in which both targets have been made without an error  *)
(* since the last edit, only the template may be out of date, and only when *)
(* a file it imports is newer which make does not look at (Makefile:158):   *)
(* no order of the two, no failed run before and no partly written set of   *)
(* files of a panicking generator leaves anything else behind.              *)
MadeIsCurrent ==
    made = {"rules", "manifests"} =>
        \A f \in DOMAIN Expected(src) :
            /\ f \in DOMAIN tree
            /\ tree[f] # Expected(src)[f] => f = TemplateFile /\ (libOld \/ src.broken = "jsonnet")
=============================================================================
