------------------------------- MODULE Bundles -------------------------------
(***************************************************************************)
(* The objects that the mage targets of magefiles/ put into their template *)
(* files, reduced to what ties them together: their kind and name, the     *)
(* objects they refer to, the labels by which services, workloads and      *)
(* monitors find each other, the ports, and the entries of the parameter   *)
(* tables their values are read from.                                      *)
(*                                                                         *)
(* v gives the two entries of the version table that become labels.        *)
(***************************************************************************)
EXTENDS Naturals, Sequences, SequencesExt

Obj(kind, name, refs) ==
    [kind |-> kind, name |-> name, refs |-> refs, reads |-> {},
     selector |-> {}, labels |-> {}, ports |-> {}]

Id(o) == <<o.kind, o.name>>

Selecting(o, selector, labels) == [o EXCEPT !.selector = selector, !.labels = labels]
Reading(o, reads) == [o EXCEPT !.reads = reads]
Serving(o, selector, labels, ports) ==
    [o EXCEPT !.selector = selector, !.labels = labels, !.ports = ports]
Monitoring(o, selector, ports) == Serving(o, selector, {}, ports)

(* Labels are pairs of a key and a value.  A label selector finds an object *)
(* that has all its labels.                                                 *)
Finds(selector, labels) == selector \subseteq labels

File(name, objs) == [name |-> name, objs |-> objs]

-----------------------------------------------------------------------------
(* template.go: the tables, as the sets of their keys.                      *)

ThanosKeys == {"STORE02W", "STORE2W90D", "STORE90D+", "STORE_DEFAULT", "RECEIVE_ROUTER",
               "RECEIVE_INGESTOR_TELEMETER", "RECEIVE_INGESTOR_DEFAULT", "RULER",
               "COMPACT_DEFAULT", "COMPACT_TELEMETER", "QUERY", "QUERY_FRONTEND"}
Compactors == {"COMPACT_DEFAULT", "COMPACT_TELEMETER"}

StageImages    == ThanosKeys \cup {"JAEGER_AGENT", "THANOS_OPERATOR", "KUBE_RBAC_PROXY",
                      "API_CACHE", "MEMCACHED_EXPORTER", "OBSERVATORIUM_API", "OPA_AMS"}
StageVersions  == ThanosKeys \cup {"API_CACHE", "OBSERVATORIUM_API"}
StageLogLevels == ThanosKeys
StageStorageSize == {"STORE02W", "STORE2W90D", "STORE90D+", "STORE_DEFAULT", "RECEIVE_TELEMETER",
                     "RECEIVE_DEFAULT", "RULER"} \cup Compactors
StageReplicas  == (ThanosKeys \ Compactors) \cup {"API_CACHE", "OBSERVATORIUM_API"}
StageResourceRequirements ==
    ThanosKeys \cup {"MANAGER", "KUBE_RBAC_PROXY", "API_CACHE", "MEMCACHED_EXPORTER",
                     "OBSERVATORIUM_API"}
StageObjectStorageBucket == {"DEFAULT" , "TELEMETER"}

(* Mutant: the agent of the sidecars is forgotten.                          *)
LocalImagesWithoutAgent == ThanosKeys \cup {"THANOS_OPERATOR", "KUBE_RBAC_PROXY"}
LocalImages   == ThanosKeys \cup {"JAEGER_AGENT", "THANOS_OPERATOR", "KUBE_RBAC_PROXY"}
LocalVersions == ThanosKeys
LocalStorageSize == {"STORE02W", "STORE2W90D", "STORE90D+", "STORE_DEFAULT", "RECEIVE_TELEMETER",
                     "RECEIVE_DEFAULT", "RULER"} \cup Compactors
LocalResourceRequirements == ThanosKeys \cup {"MANAGER", "KUBE_RBAC_PROXY"}

StageMaps ==
    [Images |-> StageImages, Versions |-> StageVersions, LogLevels |-> StageLogLevels,
     StorageSize |-> StageStorageSize, Replicas |-> StageReplicas,
     ResourceRequirements |-> StageResourceRequirements,
     ObjectStorageBucket |-> StageObjectStorageBucket]

(* The local environment shares three of the stage's tables.                *)
LocalMaps ==
    [Images |-> LocalImages, Versions |-> LocalVersions, LogLevels |-> StageLogLevels,
     StorageSize |-> LocalStorageSize, Replicas |-> StageReplicas,
     ResourceRequirements |-> LocalResourceRequirements,
     ObjectStorageBucket |-> StageObjectStorageBucket]

(* TemplateFn panics unless the table has the entry.                        *)
TemplateFn(m, read) == read[2] \in m[read[1]]

Common(key) == {"Images", "Versions", "LogLevels", "ResourceRequirements"} \X {key}

-----------------------------------------------------------------------------
(* operator.go                                                              *)

CRDKinds == <<"thanoscompacts", "thanosqueries", "thanosreceives", "thanosrulers", "thanosstores">>
PluralOf == [ThanosCompact |-> "thanoscompacts", ThanosQuery |-> "thanosqueries",
             ThanosReceive |-> "thanosreceives", ThanosRuler |-> "thanosrulers",
             ThanosStore |-> "thanosstores"]

Definition(kind) == <<"CustomResourceDefinition", PluralOf[kind]>>

crds == [i \in DOMAIN CRDKinds |-> Obj("CustomResourceDefinition", CRDKinds[i], {})]

Manager == <<"ServiceAccount", "thanos-operator-controller-manager">>
ControllerManager == {<<"control-plane", "controller-manager">>}

OperatorAccount == Obj(Manager[1], Manager[2], {})
LeaderElectionRole == Obj("Role", "thanos-operator-leader-election-role", {})

(* The kinds of custom resources that the operator may watch and update.    *)
ManagerRole ==
    Obj("ClusterRole", "thanos-operator-manager-role",
        {<<"CustomResourceDefinition", k>> : k \in Range(CRDKinds)})
MetricsReaderRole == Obj("ClusterRole", "thanos-operator-metrics-reader", {})
ProxyRole == Obj("ClusterRole", "thanos-operator-proxy-role", {})

(* The two roles for the users of a kind.                                   *)
UserRoles(editor, viewer, plural) ==
    << Obj("ClusterRole", editor, {<<"CustomResourceDefinition", plural>>}),
       Obj("ClusterRole", viewer, {<<"CustomResourceDefinition", plural>>}) >>

QueryRoles == UserRoles("thanos-operator-thanosquery-editor-role",
                        "thanos-operator-thanosquery-viewer-role", "thanosqueries")
CompactRoles == UserRoles("thanos-operator-thanoscompact-editor-role",
                          "thanos-operator-thanoscompact-viewer-role", "thanoscompacts")
ReceiveRoles == UserRoles("thanos-operator-thanosreceive-editor-role",
                          "thanos-operator-thanosreceive-viewer-role", "thanosreceives")
RulerRoles == UserRoles("thanos-operator-thanosruler-editor-role",
                        "thanos-operator-thanosruler-viewer-role", "thanosrulers")
StoreRoles == UserRoles("thanos-operator-thanosstore-editor-role",
                        "thanos-operator-thanosstore-viewer-role", "thanosstores")

BindingOf(kind, name, role) == Obj(kind, name, {role, Manager})

LeaderElectionBinding ==
    BindingOf("RoleBinding", "thanos-operator-leader-election-rolebinding",
              <<"Role", "thanos-operator-leader-election-role">>)
ManagerBinding ==
    BindingOf("ClusterRoleBinding", "thanos-operator-manager-rolebinding",
              <<"ClusterRole", "thanos-operator-manager-role">>)
ProxyBinding ==
    BindingOf("ClusterRoleBinding", "thanos-operator-proxy-rolebinding",
              <<"ClusterRole", "thanos-operator-proxy-role">>)

(* The local target writes the namespace of its objects before them.        *)
localNamespace == Obj("Namespace", "rhobs-local", {})

MetricsService ==
    Serving(Obj("Service", "thanos-operator-controller-manager-metrics-service", {}),
            ControllerManager, ControllerManager, {"https"})

OperatorDeployment ==
    Reading(Selecting(Obj("Deployment", "thanos-operator-controller-manager", {Manager}),
                      ControllerManager, ControllerManager),
            ({"Images", "ResourceRequirements"} \X {"KUBE_RBAC_PROXY"})
                \cup {<<"Images", "THANOS_OPERATOR">>, <<"ResourceRequirements", "MANAGER">>})

operatorResources ==
    <<OperatorAccount, LeaderElectionRole, ManagerRole, MetricsReaderRole, ProxyRole>>
        \o QueryRoles \o CompactRoles \o ReceiveRoles \o RulerRoles \o StoreRoles
        \o <<LeaderElectionBinding, MetricsService, ManagerBinding, ProxyBinding,
             OperatorDeployment>>

-----------------------------------------------------------------------------
(* cr.go: the custom resources and what they read, dial and mount.          *)

JaegerImage == {<<"Images", "JAEGER_AGENT">>}
Collector == {<<"Service", "otel-trace-writer-collector-headless">>}
tracingSidecar(o) == [o EXCEPT !.refs = @ \cup Collector, !.reads = @ \cup JaegerImage]

(* Mutant: the name of another environment's secret.                        *)
RenamedBucketSecret == [TELEMETER |-> <<"Secret", "telemeter-thanos-objectstorage">>,
                        DEFAULT |-> <<"Secret", "observatorium-mst-thanos-objectstorage">>]
BucketSecret == [TELEMETER |-> <<"Secret", "thanos-objectstorage">>,
                 DEFAULT   |-> <<"Secret", "observatorium-mst-thanos-objectstorage">>]

CR(kind, name, buckets, reads) ==
    tracingSidecar(Reading(
        Obj(kind, name, {BucketSecret[b] : b \in buckets}
                            \cup {Definition(kind)}),
        reads \cup ({"ObjectStorageBucket"} \X buckets)))

Store(name, key, bucket) ==
    CR("ThanosStore", name, {bucket},
       Common(key) \cup ({"Replicas", "StorageSize"} \X {key}))

storeCR ==
    << Store("telemeter-0to2w", "STORE02W", "TELEMETER"),
       Store("telemeter-2wto90d", "STORE2W90D", "TELEMETER"),
       Store("telemeter-90dplus", "STORE90D+", "TELEMETER"),
       Store("default", "STORE_DEFAULT", "DEFAULT") >>

receiveCR ==
    CR("ThanosReceive", "rhobs", {"TELEMETER", "DEFAULT"},
       (UNION {Common(k) \cup {<<"Replicas", k>>} :
                  k \in {"RECEIVE_ROUTER", "RECEIVE_INGESTOR_TELEMETER",
                         "RECEIVE_INGESTOR_DEFAULT"}})
           \cup ({"StorageSize"} \X {"RECEIVE_TELEMETER", "RECEIVE_DEFAULT"}))

(* lib.go: the sidecar runs as an account and mounts a serving certificate.  *)
makeOauthProxy(serviceAccount, tlsSecret) ==
    {<<"ServiceAccount", serviceAccount>>, <<"Secret", tlsSecret>>}

QueryFrontend == <<"Service", "thanos-query-frontend-rhobs">>

queryCR(oauth) ==
    LET query == CR("ThanosQuery", "rhobs", {},
                    UNION {Common(k) \cup {<<"Replicas", k>>} : k \in {"QUERY", "QUERY_FRONTEND"}})
    IN  IF oauth
        THEN << Obj("Route", "thanos-query-frontend-rhobs", {QueryFrontend}),
                [query EXCEPT !.refs = @ \cup {<<"Route", "thanos-query-frontend-rhobs">>}
                    \cup makeOauthProxy("thanos-query-frontend-rhobs", "query-frontend-tls")] >>
        ELSE <<query>>

(* The ruler takes its rules from the PrometheusRules with this label.  It  *)
(* also takes config maps with the label rule-file (cr.go:733), of which no *)
(* target makes one, and is generated as paused (cr.go:731): until someone  *)
(* resumes it the operator leaves it as it is.                              *)
RuleLabel == {<<"prometheus-rule", "true">>}

rulerCR ==
    LET ruler == CR("ThanosRuler", "rhobs", {"DEFAULT"},
                    Common("RULER") \cup ({"Replicas", "StorageSize"} \X {"RULER"}))
    IN  [ruler EXCEPT !.refs = @ \cup {<<"Service", "alertmanager-cluster">>},
                      !.selector = RuleLabel]

compactCR ==
    << CR("ThanosCompact", "rhobs", {"DEFAULT"},
          Common("COMPACT_DEFAULT") \cup {<<"StorageSize", "COMPACT_DEFAULT">>}),
       CR("ThanosCompact", "telemeter", {"TELEMETER"},
          Common("COMPACT_TELEMETER") \cup {<<"StorageSize", "COMPACT_TELEMETER">>}) >>

StageCRs == <<receiveCR>> \o queryCR(TRUE) \o <<rulerCR>> \o storeCR
LocalCRs == <<receiveCR>> \o queryCR(FALSE) \o <<rulerCR>> \o compactCR \o storeCR

-----------------------------------------------------------------------------
(* gateway.go                                                               *)

gatewayName == "observatorium-api"

GatewaySelector ==
    {<<"component", "api">>, <<"instance", "rhobs">>, <<"name", gatewayName>>,
     <<"part-of", "rhobs">>}

(* The labels are a copy of the selector with the version added.  Mutant:   *)
(* the same map, not a copy.                                                *)
aliasedGatewayLabels(v) ==
    LET labels == GatewaySelector \cup {<<"version", v.api>>}
    IN  [meta |-> labels, selector |-> labels]
gatewayLabels(v) ==
    [meta |-> GatewaySelector \cup {<<"version", v.api>>}, selector |-> GatewaySelector]

APIContainerRefs == {QueryFrontend, <<"Service", "thanos-receive-router-rhobs">>,
                     <<"Service", "alertmanager">>}
OPAContainerRefs == {<<"Service", "api-memcached">>, <<"Secret", gatewayName>>}
JaegerContainerRefs == Collector

gatewayDeployment(v) ==
    LET o == Obj("Deployment", gatewayName,
                 {<<"ServiceAccount", gatewayName>>, <<"ConfigMap", gatewayName>>,
                  <<"Secret", gatewayName>>}
                     \cup APIContainerRefs \cup OPAContainerRefs \cup JaegerContainerRefs)
    IN  Reading(Selecting(o, gatewayLabels(v).selector, gatewayLabels(v).meta),
                ({"Images"} \X {"OBSERVATORIUM_API", "OPA_AMS", "JAEGER_AGENT"})
                    \cup ({"Replicas", "Versions", "ResourceRequirements"} \X {"OBSERVATORIUM_API"})
                    \cup {<<"ResourceRequirements", "API_CACHE">>})

createGatewayService(v) ==
    Serving(Obj("Service", gatewayName, {}), gatewayLabels(v).selector, gatewayLabels(v).meta,
            {"grpc-public", "internal", "public", "opa-ams-api", "opa-ams-metrics"})
gatewayRBAC == Obj("ConfigMap", gatewayName, {})
stageGatewayTenants == Obj("Secret", gatewayName, {})

gatewayServiceMonitor(v) ==
    Monitoring(Obj("ServiceMonitor", "rhobs-gateway", {<<"Service", gatewayName>>}),
               gatewayLabels(v).selector, {"internal", "opa-ams-metrics", "metrics"})

-----------------------------------------------------------------------------
(* cache.go: one map of labels for the workload, its selector and service.  *)

gatewayCache(v) ==
    [Name |-> "api-memcached", ServiceAccount |-> "api-memcached",
     Labels |-> {<<"component", "api-memcached">>, <<"instance", "rhobs">>, <<"name", "memcached">>,
                 <<"part-of", "observatorium">>, <<"version", v.memcached>>}]

memcachedStatefulSet(config) ==
    Reading(Selecting(Obj("StatefulSet", config.Name, {<<"ServiceAccount", config.ServiceAccount>>}),
                      config.Labels, config.Labels),
            ({"Images", "ResourceRequirements"} \X {"API_CACHE", "MEMCACHED_EXPORTER"})
                \cup {<<"Versions", "API_CACHE">>})
createServiceAccount(name) == Obj("ServiceAccount", name, {})
(* Mutant: the port of the exporter is left out.                            *)
cacheServiceWithoutMetrics(config) ==
    Serving(Obj("Service", config.Name, {}), config.Labels, config.Labels, {"client"})
createCacheHeadlessService(config) ==
    Serving(Obj("Service", config.Name, {}), config.Labels, config.Labels, {"client", "metrics"})
createCacheServiceMonitor(config) ==
    Monitoring(Obj("ServiceMonitor", config.Name, {<<"Service", config.Name>>}),
               config.Labels, {"metrics"})

-----------------------------------------------------------------------------
(* alertmanager.go, secrets.go, servicemonitors.go, telemeter_rules.go      *)

AlertmanagerLabels == {<<"name", "alertmanager">>}

(* What the imported kubegen library makes of the options.                  *)
alertmanagerKubernetes ==
    << Serving(Obj("Service", "alertmanager-cluster", {}), AlertmanagerLabels,
               AlertmanagerLabels, {"cluster-tcp"}),
       Serving(Obj("Service", "alertmanager", {}), AlertmanagerLabels, AlertmanagerLabels,
               {"http"}),
       Obj("ServiceAccount", "alertmanager", {}),
       Monitoring(Obj("ServiceMonitor", "alertmanager", {<<"Service", "alertmanager">>}),
                  AlertmanagerLabels, {"http"}),
       Selecting(Obj("StatefulSet", "alertmanager",
                     {<<"Secret", "alertmanager-config">>, <<"Service", "alertmanager-cluster">>}
                         \cup makeOauthProxy("alertmanager", "alertmanager-tls")),
                 AlertmanagerLabels, AlertmanagerLabels) >>

(* getAndRemoveObject takes the first of the kind and panics without one;   *)
(* the test for a second one comes after the loop has been left.            *)
FirstOfKind(objs, kind) == SelectInSeq(objs, LAMBDA o : o.kind = kind)
getAndRemoveObject(objs, kind) ==
    [taken |-> objs[FirstOfKind(objs, kind)], rest |-> RemoveAt(objs, FirstOfKind(objs, kind))]

(* Mutant: the service with the port is appended, not changed in place.     *)
alertmanagerAppended(objs) ==
    objs \o << [objs[2] EXCEPT !.ports = @ \cup {"https"}],
               Obj("Route", "alertmanager", {<<"Service", "alertmanager">>}) >>
alertmanagerPostProcess(objs) ==
    [i \in DOMAIN objs |->
        IF objs[i].kind = "Service" /\ objs[i].name = "alertmanager"
        THEN [objs[i] EXCEPT !.ports = @ \cup {"https"}] ELSE objs[i]]
    \o << Obj("Route", "alertmanager", {<<"Service", "alertmanager">>}) >>

buildAlertmanager ==
    LET split == getAndRemoveObject(alertmanagerKubernetes, "ServiceMonitor")
    IN  << File("alertmanager", alertmanagerPostProcess(split.rest)),
           File("alertmanager-service-monitor", <<split.taken>>) >>

thanosObjectStoreSecret(name) == Obj("Secret", name, {})
Secrets ==
    << File("thanos-telemeter-secret", <<thanosObjectStoreSecret("thanos-objectstorage")>>),
       File("thanos-default-secret",
            <<thanosObjectStoreSecret("observatorium-mst-thanos-objectstorage")>>) >>

(* The bucket of the stage is a parameter of the template; whoever mounts   *)
(* the local secret dials the object store in the cluster that it names.    *)
Minio == {<<"Service", "minio">>}
localThanosObjectStore(name) == Obj("Secret", name, Minio)

serviceMonitor ==
    << Monitoring(Obj("ServiceMonitor", "thanos-operator-controller-manager-metrics",
                      {<<"Service", "thanos-operator-controller-manager-metrics-service">>}),
                  ControllerManager, {"https"}) >>

TelemeterRules ==
    << [Obj("PrometheusRule", "telemeter-rules", {})
            EXCEPT !.labels = RuleLabel \cup {<<"component", "rules">>}] >>

-----------------------------------------------------------------------------
(* The files of each target.                                                *)

Gateway(v) ==
    << File("gateway", <<gatewayRBAC, stageGatewayTenants, gatewayDeployment(v),
                         createGatewayService(v)>>),
       File("gateway-service-monitor", <<gatewayServiceMonitor(v)>>) >>

Cache(v) ==
    LET config == gatewayCache(v)
    IN  << File("cache", <<memcachedStatefulSet(config), createServiceAccount(config.ServiceAccount),
                           createCacheHeadlessService(config)>>),
           File("cache-service-monitor", <<createCacheServiceMonitor(config)>>) >>

CRDS       == << File("crds", crds) >>
Operator   == << File("operator", operatorResources) >>
OperatorCR == << File("rhobs", StageCRs) >>
Rules      == << File("telemeter-rules", TelemeterRules) >>
Monitors   == << File("servicemonitors", serviceMonitor) >>

(* Stage.Build runs these, one after the other; Gateway and Cache are       *)
(* targets of their own.                                                    *)
StageBuild == buildAlertmanager \o CRDS \o Operator \o OperatorCR \o Rules \o Monitors \o Secrets

StageFiles(v) == StageBuild \o Gateway(v) \o Cache(v)

(* The local targets take the objects of a list one by one by position and  *)
(* leave out what is beyond the last position they name.  Mutant: the last  *)
(* one is forgotten.                                                        *)
PositionsButLast(objs, n) == [i \in 1 .. n - 1 |-> objs[i]]
Positions(objs, n) == [i \in 1 .. n |-> objs[i]]

LocalBuild ==
    << File("crds", Positions(crds, 5)),
       File("operator", <<localNamespace>> \o Positions(operatorResources, 20)),
       File("rhobs", Positions(LocalCRs, 9)),
       File("telemeter-rules", TelemeterRules),
       File("servicemonitors", Positions(serviceMonitor, 1)),
       File("thanos-telemeter-secret", <<localThanosObjectStore("thanos-objectstorage")>>),
       File("thanos-default-secret",
            <<localThanosObjectStore("observatorium-mst-thanos-objectstorage")>>) >>
=============================================================================
