-------------------------------- MODULE SLOs --------------------------------
(***************************************************************************)
(* The service level objectives of configuration/observatorium/slo.go: the *)
(* tables by environment, the rows, the calls of GenSLO that expand them,  *)
(* and the rule files made of what the imported pyrra library returns.     *)
(*                                                                         *)
(* A selector is the function of its equality matchers; which metric, and  *)
(* which matchers tell errors or fast requests from the total, is data no  *)
(* property here tells apart and is left out.  A hyphenated name that is   *)
(* joined to others is the sequence of its segments.                       *)
(***************************************************************************)
EXTENDS Naturals, FiniteSets, Sequences

VARIABLES
    call,       \* the call of envSLOs being run
    added,      \* how many of its objectives have been added
    sloStatus,  \* "generating", "done" or "panicked"
    pyrraFiles, \* the objectives' files: name |-> the objective and its environment
    ruleFiles   \* the rule files: name |-> [env, alerts]

sloVars == <<call, added, sloStatus, pyrraFiles, ruleFiles>>

telemeterProduction   == <<"telemeter", "production">>
telemeterStaging      == <<"telemeter", "staging">>
rhelemeterProduction  == <<"rhelemeter", "production">>
rhelemeterStaging     == <<"rhelemeter", "stage">>
mstProduction         == <<"mst", "production">>
mstStage              == <<"mst", "stage">>
rhobsp02ue1Production == <<"rhobsp02ue1", "production">>

-----------------------------------------------------------------------------
(* Tables by environment.  The rhelemeter environments are in none.         *)

Tabled == {telemeterProduction, telemeterStaging, mstProduction, mstStage,
           rhobsp02ue1Production}

dashboardIDs ==
    [e \in Tabled |-> CASE e = telemeterProduction -> "f9fa"
                       [] e = telemeterStaging -> "080e"
                       [] e = mstProduction -> "283e"
                       [] e = mstStage -> "9252"
                       [] e = rhobsp02ue1Production -> "7f4d"]

dashboardDataSource ==
    [e \in Tabled |-> CASE e \in {telemeterProduction, mstProduction} ->
                              "telemeter-prod-01-prometheus"
                       [] e \in {telemeterStaging, mstStage} ->
                              "app-sre-stage-01-prometheus"
                       [] e = rhobsp02ue1Production -> "rhobsp02ue1-prometheus"]

(* Mutant: the selector of the mst instances is a copy of the other one.    *)
apiJobSelectorCopied == [e \in Tabled |-> "observatorium-observatorium-api"]
apiJobSelector ==
    [e \in Tabled |-> IF e \in {telemeterProduction, telemeterStaging}
                      THEN "observatorium-observatorium-api"
                      ELSE "observatorium-observatorium-mst-api"]

metricsNS ==
    [e \in Tabled |-> CASE e = telemeterProduction -> "observatorium-metrics-production"
                       [] e = telemeterStaging -> "observatorium-metrics-stage"
                       [] e \in {mstProduction, rhobsp02ue1Production} ->
                              "observatorium-mst-production"
                       [] e = mstStage -> "observatorium-mst-stage"]

upNS ==
    [e \in Tabled |-> CASE e = telemeterProduction -> "observatorium-production"
                       [] e = telemeterStaging -> "observatorium-stage"
                       [] e \in {mstProduction, rhobsp02ue1Production} ->
                              "observatorium-mst-production"
                       [] e = mstStage -> "observatorium-mst-stage"]

(* Indexing a Go map: an absent key gives the empty string.                 *)
At(table, env) == IF env \in DOMAIN table THEN table[env] ELSE ""

-----------------------------------------------------------------------------
(* Rows.  A label whose key has pyrra's prefix is propagated to the alerts. *)

SLORow(name, alert, type, service, match) ==
    [name |-> name, alertName |-> alert, sloType |-> type,
     propagated |-> service, match |-> match]

(* The labels of one and of the other; of a key in both, those of the one.  *)
Merged(one, other) ==
    [k \in DOMAIN one \cup DOMAIN other |-> IF k \in DOMAIN one THEN one[k] ELSE other[k]]

propagatedService(s) == [service |-> s]
notPropagated        == [k \in {} |-> ""]

(* What is formatted with the name of the instance.                         *)
Telemeter ==
    [segment |-> "telemeter", route |-> "telemeter-server-metrics-v1-receive",
     job |-> "telemeter-server",
     availability |-> "TelemeterServerMetricsReceiveWriteAvailabilityErrorBudgetBurning",
     latency |-> "TelemeterServerMetricsReceiveWriteLatencyErrorBudgetBurning"]
Rhelemeter ==
    [segment |-> "rhelemeter", route |-> "rhelemeter-server-metrics-v1-receive",
     job |-> "rhelemeter-server",
     availability |-> "RhelemeterServerMetricsReceiveWriteAvailabilityErrorBudgetBurning",
     latency |-> "RhelemeterServerMetricsReceiveWriteLatencyErrorBudgetBurning"]

(* The remote write path, which both instances run.                         *)
TelemeterReceiveRows(instance) ==
    LET svc == propagatedService("telemeter")
    IN  << SLORow(<<"rhobs", instance.segment, "server", "metrics", "receive",
                    "availability", "slo">>,
                  instance.availability, "availability", svc, [route |-> instance.route]),
           SLORow(<<"rhobs", instance.segment, "server", "metrics", "receive",
                    "latency", "slo">>,
                  instance.latency, "latency", svc,
                  [job |-> instance.job, handler |-> "receive"]) >>

TelemeterUploadRows ==
    LET svc == propagatedService("telemeter")
    IN  << SLORow(<<"rhobs", "telemeter", "server", "metrics", "upload", "availability", "slo">>,
                  "TelemeterServerMetricsUploadWriteAvailabilityErrorBudgetBurning",
                  "availability", svc, [route |-> "telemeter-server-upload"]),
           SLORow(<<"rhobs", "telemeter", "server", "metrics", "upload", "latency", "slo">>,
                  "TelemeterServerMetricsUploadWriteLatencyErrorBudgetBurning",
                  "latency", svc, [job |-> "telemeter-server", handler |-> "upload"]) >>

ObservatoriumAvailabilityRows(env) ==
    LET svc == propagatedService("observatorium-api")
        api(handler) == [job |-> At(apiJobSelector, env), handler |-> handler,
                         group |-> "metricsv1"]
        avail(name, alert, match) == SLORow(name, alert, "availability", svc, match)
    IN  << avail(<<"api", "metrics", "write", "availability", "slo">>,
                 "APIMetricsWriteAvailabilityErrorBudgetBurning", api("receive")),
           avail(<<"api", "metrics", "rule", "query", "availability", "slo">>,
                 "APIMetricsRulerQueryAvailabilityErrorBudgetBurning",
                 [job |-> "observatorium-ruler-query", handler |-> "query"]),
           avail(<<"api", "metrics", "query", "availability", "slo">>,
                 "APIMetricsQueryAvailabilityErrorBudgetBurning", api("query")),
           avail(<<"api", "metrics", "query", "range", "availability", "slo">>,
                 "APIMetricsQueryRangeAvailabilityErrorBudgetBurning", api("query_range")),
           avail(<<"api", "rules", "raw", "write", "availability", "slo">>,
                 "APIRulesRawWriteAvailabilityErrorBudgetBurning",
                 Merged(api("rules-raw"), [method |-> "PUT"])),
           avail(<<"api", "rules", "read", "availability", "slo">>,
                 "APIRulesReadAvailabilityErrorBudgetBurning",
                 Merged(api("rules"), [method |-> "GET"])),
           avail(<<"api", "rules", "sync", "availability", "slo">>,
                 "APIRulesSyncAvailabilityErrorBudgetBurning",
                 [client |-> "reload", container |-> "thanos-rule-syncer",
                  namespace |-> At(metricsNS, env)]),
           avail(<<"api", "alerting", "availability", "slo">>,
                 "APIAlertmanagerAvailabilityErrorBudgetBurning",
                 [container |-> "thanos-rule", namespace |-> At(metricsNS, env)]),
           SLORow(<<"api", "alerting", "notif", "availability", "slo">>,
               "APIAlertmanagerNotificationsAvailabilityErrorBudgetBurning",
               "availability", notPropagated,
               [service |-> "observatorium-alertmanager",
                namespace |-> At(metricsNS, env)]) >>

ObservatoriumLatencyRows(env) ==
    LET svc == propagatedService("observatorium-api")
        (* The 100M rows query the 1M probe with a longer bucket.           *)
        probe(query) == [query |-> query, namespace |-> At(upNS, env)]
        lat(name, alert, match) == SLORow(name, alert, "latency", svc, match)
    IN  << lat(<<"api", "metrics", "write", "latency", "slo">>,
               "APIMetricsWriteLatencyErrorBudgetBurning",
               [job |-> At(apiJobSelector, env), handler |-> "receive", group |-> "metricsv1"]),
           lat(<<"api", "metrics", "rule", "read", "1M", "latency", "slo">>,
               "APIMetricsRuleReadLatency1MErrorBudgetBurning",
               probe("rule-query-path-sli-1M-samples")),
           lat(<<"api", "metrics", "rule", "read", "10M", "latency", "slo">>,
               "APIMetricsRuleReadLatency10MErrorBudgetBurning",
               probe("rule-query-path-sli-10M-samples")),
           lat(<<"api", "metrics", "rule", "read", "100M", "latency", "slo">>,
               "APIMetricsRulenReadLatency100MErrorBudgetBurning",
               probe("rule-query-path-sli-1M-samples")),
           lat(<<"api", "metrics", "read", "1M", "latency", "slo">>,
               "APIMetricsReadLatency1MErrorBudgetBurning",
               probe("query-path-sli-1M-samples")),
           lat(<<"api", "metrics", "read", "10M", "latency", "slo">>,
               "APIMetricsReadLatency10MErrorBudgetBurning",
               probe("query-path-sli-10M-samples")),
           lat(<<"api", "metrics", "read", "100M", "latency", "slo">>,
               "APIMetricsReadLatency100MErrorBudgetBurning",
               probe("query-path-sli-1M-samples")) >>

ObservatoriumSLOs(env) == ObservatoriumAvailabilityRows(env) \o ObservatoriumLatencyRows(env)
TelemeterSLOs(env)     == TelemeterUploadRows \o TelemeterReceiveRows(Telemeter)
RhelemeterSLOs(env)    == TelemeterReceiveRows(Rhelemeter)

(* GetObjectives: a row with its target and the links of its alerts.        *)
Objective(env, row) ==
    Merged(row, [target    |-> IF row.sloType = "availability" THEN 99 ELSE 90,
                 dashboard |-> <<At(dashboardIDs, env), At(dashboardDataSource, env)>>,
                 runbook   |-> row.alertName])

GetObjectives(env, rows) == [i \in DOMAIN rows |-> Objective(env, rows[i])]

-----------------------------------------------------------------------------
(* What GenSLO asks for, in order: one call of envSLOs per environment.     *)

Call(env, rows, file) == [env |-> env, objs |-> GetObjectives(env, rows), file |-> file]

EnvCalls ==
    << Call(rhelemeterProduction, RhelemeterSLOs(rhelemeterProduction),
            <<"rhobs", "slos", "rhelemeter", "production">>),
       Call(rhelemeterStaging, RhelemeterSLOs(rhelemeterStaging),
            <<"rhobs", "slos", "rhelemeter", "stage">>),
       Call(telemeterProduction,
            TelemeterSLOs(telemeterProduction) \o ObservatoriumSLOs(telemeterProduction),
            <<"rhobs", "slos", "telemeter", "production">>),
       Call(telemeterStaging,
            TelemeterSLOs(telemeterStaging) \o ObservatoriumSLOs(telemeterStaging),
            <<"rhobs", "slos", "telemeter", "stage">>),
       Call(mstProduction, ObservatoriumSLOs(mstProduction),
            <<"rhobs", "slos", "mst", "production">>),
       Call(mstStage, ObservatoriumSLOs(mstStage), <<"rhobs", "slos", "mst", "stage">>) >>

(* Files, without the ending that those of a kind share.                    *)
(* Mutant: the file is named for the objective alone.                       *)
PyrraFileOfName(c, i) == c.objs[i].name
PyrraFile(c, i)       == c.env \o c.objs[i].name
PrometheusRuleFile(c) == c.file

-----------------------------------------------------------------------------
(* What pyrra makes of an objective: an alert for each metric that is       *)
(* absent, and one for each pair of burn rate windows.  Their labels are    *)
(* the equality matchers, the propagated labels and the objective's name.   *)

Windows == { [short |-> "5m",  long |-> "1h", exhaustion |-> "2d", severity |-> "critical"],
             [short |-> "30m", long |-> "6h", exhaustion |-> "4d", severity |-> "critical"],
             [short |-> "2h",  long |-> "1d", exhaustion |-> "2w", severity |-> "warning"],
             [short |-> "6h",  long |-> "4d", exhaustion |-> "4w", severity |-> "warning"] }

BaseLabels(obj) == Merged(obj.propagated, Merged(obj.match, [slo |-> obj.name]))

AbsentAlerts(obj) ==
    LET labels == Merged(BaseLabels(obj), [severity |-> "critical"])
    IN  { [alert |-> "SLOMetricAbsent", labels |-> l] :
            l \in IF obj.sloType = "latency" THEN {labels, Merged(labels, [le |-> "5"])}
                  ELSE {labels} }

BurnRateAlerts(obj) ==
    { [alert |-> obj.alertName, labels |-> Merged(BaseLabels(obj), w)] : w \in Windows }

PyrraAlerts(obj) == AbsentAlerts(obj) \cup BurnRateAlerts(obj)

-----------------------------------------------------------------------------
(* makePrometheusRule: the labels of an alert, pruned, renamed, demoted.    *)

Without(labels, keys) == [k \in DOMAIN labels \ keys |-> labels[k]]

(* Mutant: the service of the Alertmanager's alerts is left as it is.       *)
PrunedOnly(labels) == Without(labels, {"le", "client", "container"})
Pruned(labels) ==
    LET kept == Without(labels, {"le", "client", "container"})
    IN  [k \in DOMAIN kept |->
            IF k = "service" /\ kept[k] = "observatorium-alertmanager"
            THEN "observatorium-api" ELSE kept[k]]

Renamed(labels) ==
    LET long  == IF "long" \in DOMAIN labels
                 THEN [long_burnrate_window |-> labels["long"]] ELSE notPropagated
        short == IF "short" \in DOMAIN labels
                 THEN [short_burnrate_window |-> labels["short"]] ELSE notPropagated
    IN  Merged(Without(labels, {"long", "short"}), Merged(long, short))

Demoted(alert, labels) ==
    LET severity == IF alert = "SLOMetricAbsent" THEN "medium"
                    ELSE CASE labels["severity"] = "critical" -> "high"
                           [] labels["severity"] = "warning"  -> "medium"
                           [] OTHER -> labels["severity"]
    IN  [labels EXCEPT !["severity"] = severity]

Relabelled(a) ==
    [alert |-> a.alert, labels |-> Demoted(a.alert, Renamed(Pruned(a.labels)))]

(* The alerts of the rule file of one call.  The library refuses none of    *)
(* the tables' objectives; the panics of its errors (slo.go:604) are the    *)
(* broken "slo" of Generation.                                              *)
MakePrometheusRule(c) ==
    UNION { { Relabelled(a) : a \in PyrraAlerts(c.objs[i]) } : i \in DOMAIN c.objs }

-----------------------------------------------------------------------------
(* GenSLO: the calls one after the other, file by file.  The generator it   *)
(* adds the files to panics at a name it already has.                       *)

SLOInit ==
    /\ call = 1 /\ added = 0
    /\ sloStatus = "generating"
    /\ pyrraFiles = [f \in {} |-> << >>] /\ ruleFiles = [f \in {} |-> << >>]

Calling == EnvCalls[call]

AddObjective ==
    /\ sloStatus = "generating" /\ added < Len(Calling.objs)
    /\ LET file == PyrraFile(Calling, added + 1)
       IN  IF file \in DOMAIN pyrraFiles
           THEN sloStatus' = "panicked" /\ UNCHANGED <<added, pyrraFiles>>
           ELSE /\ pyrraFiles' = Merged(pyrraFiles,
                       [f \in {file} |-> <<Calling.env, Calling.objs[added + 1].name>>])
                /\ added' = added + 1
                /\ UNCHANGED sloStatus
    /\ UNCHANGED <<call, ruleFiles>>

AddRules ==
    /\ sloStatus = "generating" /\ added = Len(Calling.objs)
    /\ IF PrometheusRuleFile(Calling) \in DOMAIN ruleFiles
       THEN sloStatus' = "panicked" /\ UNCHANGED <<call, added, ruleFiles>>
       ELSE /\ ruleFiles' = Merged(ruleFiles,
                   [f \in {PrometheusRuleFile(Calling)} |->
                        [env |-> Calling.env, alerts |-> MakePrometheusRule(Calling)]])
            /\ IF call = Len(EnvCalls)
               THEN sloStatus' = "done" /\ UNCHANGED <<call, added>>
               ELSE call' = call + 1 /\ added' = 0 /\ UNCHANGED sloStatus
    /\ UNCHANGED pyrraFiles

SLONext == AddObjective \/ AddRules

-----------------------------------------------------------------------------
(* Every objective asked for so far has a file of its own, and every call   *)
(* that has returned its rule file: names made of environment and objective *)
(* never clash, which would panic and lose all files (slo.go:582, 588).     *)
EveryObjectiveHasItsFile ==
    /\ sloStatus # "panicked"
    /\ \A c \in 1 .. call : \A i \in DOMAIN EnvCalls[c].objs :
          c < call \/ i <= added =>
              /\ PyrraFile(EnvCalls[c], i) \in DOMAIN pyrraFiles
              /\ pyrraFiles[PyrraFile(EnvCalls[c], i)] =
                     <<EnvCalls[c].env, EnvCalls[c].objs[i].name>>

(* Every alert can be routed: whichever row and environment it comes from,  *)
(* and whatever labels its selector and pyrra put on it, it ends up with a  *)
(* service and a severity the receivers know, with none of the labels that  *)
(* are pruned or renamed, and no matcher was left empty by a lookup of an   *)
(* environment that is not in a table (slo.go:56-107, 625-675).             *)
EveryAlertIsRouted ==
    \A f \in DOMAIN ruleFiles : \A a \in ruleFiles[f].alerts :
        /\ {"service", "severity", "slo"} \subseteq DOMAIN a.labels
        /\ a.labels["service"] \in {"telemeter", "observatorium-api"}
        /\ a.labels["severity"] \in {"high", "medium"}
        /\ DOMAIN a.labels \cap {"le", "client", "container", "long", "short"} = {}
        /\ a.labels["slo"] # << >>
        /\ \A k \in DOMAIN a.labels \ {"slo"} : a.labels[k] # ""

(* The cluster of an environment, as the comments of the constants say.     *)
ClusterOf(env) ==
    IF env \in {telemeterProduction, rhelemeterProduction, mstProduction}
    THEN "telemeter-prod-01" ELSE "app-sre-stage-01"

(* Two instances on one cluster raise the same alert, with the same labels, *)
(* for one objective only, the one whose selector names no instance         *)
(* (slo.go:326-327); and within a file each objective has four alerts that tell *)
(* its windows apart and one for absent metrics, although labels have been  *)
(* pruned and renamed.                                                      *)
AlertsTellInstancesApart ==
    /\ \A f, g \in DOMAIN ruleFiles :
          f # g /\ ClusterOf(ruleFiles[f].env) = ClusterOf(ruleFiles[g].env) =>
              \A a \in ruleFiles[f].alerts \cap ruleFiles[g].alerts :
                  a.labels["slo"] = <<"api", "metrics", "rule", "query", "availability", "slo">>
    /\ \A c \in 1 .. call : PrometheusRuleFile(EnvCalls[c]) \in DOMAIN ruleFiles =>
          \A i \in DOMAIN EnvCalls[c].objs :
              LET alerts == {a \in ruleFiles[PrometheusRuleFile(EnvCalls[c])].alerts :
                                a.labels["slo"] = EnvCalls[c].objs[i].name}
              IN  /\ Cardinality(alerts) = 5
                  /\ Cardinality({a \in alerts : a.alert = "SLOMetricAbsent"}) = 1
=============================================================================
