----------------------------- MODULE Manifests -----------------------------
(***************************************************************************)
(* Generation of the manifests of an Observatorium deployment: the calls   *)
(* of ObservatoriumMetrics.Manifests and ObservatoriumAPI.Manifests in     *)
(* their order, with what one call leaves for the next (the stores that    *)
(* register themselves, the URLs of the two queries) and what the files    *)
(* say of each other: the services they define, the addresses they dial,   *)
(* the hashrings and the limits of the tenants.                            *)
(***************************************************************************)
EXTENDS Integers, Sequences

CONSTANT Configs     \* the configurations the generator may be given

VARIABLES
    config,          \* the Observatorium value of this run
    next,            \* the position in Steps
    storesRegister, queryRuleURL, queryAdhocURL,
    services,        \* the services the files define
    refs,            \* the addresses the files dial, with who dials them
    hashrings,       \* the base hashrings of the receive controller
    ingestors,       \* the hashring labels of the ingestor StatefulSets
    limits,          \* the tenant IDs with a limit of their own
    apiTenants       \* the tenants of the API

registers == <<storesRegister, queryRuleURL, queryAdhocURL>>
routing   == <<hashrings, ingestors, limits>>
vars == <<config, next, registers, services, refs, routing, apiTenants>>

-----------------------------------------------------------------------------
(* The tenants of services_go/instances/rhobs/rhobs.go.                     *)

\* An ID stands for the UUID of the tenant; a key the map lacks reads as "".
ID(name) == <<name>>
NoID     == <<>>

tenantsMapping ==
    [default   |-> {"rhobs", "osd", "rhacs", "cnvqe", "psiocp", "rhods",
                    "odfms", "reference-addon", "dptp", "appsre", "rhtap"},
     rhel      |-> {"rhel"},
     telemeter |-> {"telemeter"}]
TenantName == UNION {tenantsMapping[i] : i \in DOMAIN tenantsMapping}

\* The namespaces of the metrics and of the API, the instances to deploy and
\* the tenants configured, each with or without a limit of its own.
ASSUME ConfigsAssumption ==
    \A c \in Configs :
        /\ c.ns \in STRING /\ c.apiNs \in STRING
        /\ c.instances \in Seq(DOMAIN tenantsMapping)
        /\ DOMAIN c.tenants \subseteq TenantName
        /\ \A n \in DOMAIN c.tenants : c.tenants[n] \in {"unlimited", "limited"}

\* Mutants: the tenants of every instance are those of the configuration; a
\* tenant the configuration lacks gets the zero limits.
BuildFromConfig(tenants, instance) ==
    {[id |-> ID(n), limited |-> tenants[n] = "limited"] : n \in DOMAIN tenants}
BuildUnchecked(tenants, instance) ==
    {[id      |-> ID(n),
      limited |-> n \in DOMAIN tenants => tenants[n] = "limited"]
        : n \in tenantsMapping[instance]}
BuildMetricTenants(tenants, instance) ==
    {[id      |-> ID(n),
      limited |-> n \in DOMAIN tenants /\ tenants[n] = "limited"]
        : n \in tenantsMapping[instance]}

MakeObsTenants(tenants) ==
    {[name |-> n,
      id   |-> IF n \in tenantsMapping.default THEN ID(n) ELSE NoID]
        : n \in DOMAIN tenants}

\* The API of production is the zero value: no namespace and no tenants.
ApiTenants ==
    IF config.apiNs = "" THEN {} ELSE MakeObsTenants(config.tenants)

-----------------------------------------------------------------------------
(* Names and addresses.                                                     *)

Grpc == <<"srv", "_grpc">>
Port(n) == <<"port", n>>
URL(name, port) == [name |-> name, ns |-> config.ns, port |-> port]
NoURL == [name |-> <<"">>, ns |-> "", port |-> Port("")]

Ref(by, to) == [by |-> by, to |-> to]

Ingestor(i)    == <<"observatorium-thanos-receive-ingestor", i>>
Store(i)       == <<"observatorium-thanos-store", i>>
Ruler(i)       == <<"observatorium-thanos-rule", i>>
Compactor(i)   == <<"observatorium-thanos-compact", i>>
IndexCache(i)  == <<"observatorium-thanos-store-index-cache-memcached", i>>
BucketCache(i) == <<"observatorium-thanos-store-bucket-cache-memcached", i>>
Router         == <<"observatorium-thanos-receive-router">>
Query          == <<"observatorium-thanos-query">>
QueryRule      == <<"observatorium-thanos-query-rule">>
QueryFrontend  == <<"observatorium-thanos-query-frontend">>
RangeCache     == <<"observatorium-thanos-query-range-cache-memcached">>
Alertmanager   == <<"observatorium-alertmanager">>
AlertCluster   == <<"observatorium-alertmanager-cluster">>
RulesObjstore  == <<"observatorium-rules-objstore">>
API            == <<"observatorium-api">>
ApiCache       == <<"observatorium-api-cache-memcached">>
Gubernator     == <<"observatorium-gubernator">>
Reloader       == <<"observatorium-obsctl-reloader">>
UpFrontend     == <<"observatorium-up-query-frontend">>
UpRule         == <<"observatorium-up-query-rule">>
Avalanche      == <<"avalanche">>

\* Two addresses no file of the generator answers: the collector of the traces
\* that the jaeger-agent sidecar of a pod writes to (of whichever pod: the
\* container is the one that dials) and the Prometheus that knows how many
\* series a tenant has.
TraceWriter == [name |-> <<"otel-trace-writer-collector-headless">>,
                ns |-> "observatorium-tools", port |-> Port("14250")]
MetaMonitoringURL == [name |-> <<"prometheus-app-sre">>,
                      ns |-> "openshift-customer-monitoring", port |-> Port("9090")]
JaegerAgent == Ref(<<"jaeger-agent">>, TraceWriter)

-----------------------------------------------------------------------------
\* The calls for each instance, then those for the deployment.
\* Mutant: the frontend is generated before the query it sends its queries to.
InstanceCalls == <<"ingestor", "compact", "store", "ruler">>
FrontendFirst ==
    <<"router", "query-rule", "frontend", "query", "alertmanager", "api">>
CommonCalls ==
    <<"router", "query-rule", "query", "frontend", "alertmanager", "api">>

Steps ==
    LET n == Len(config.instances)
    IN  [k \in 1..(4 * n) |-> [call |-> InstanceCalls[((k - 1) % 4) + 1],
                               inst |-> config.instances[((k - 1) \div 4) + 1]]]
        \o [k \in 1..Len(CommonCalls) |->
              [call |-> CommonCalls[k], inst |-> ""]]

Done == next > Len(Steps)
At(call) == ~Done /\ Steps[next].call = call
Inst == Steps[next].inst

\* What every call does: its file, with the services and addresses in it.
Emit(names, ns, dialled) ==
    /\ services' = services \cup {[name |-> n, ns |-> ns] : n \in names}
    /\ refs' = refs \cup dialled
    /\ next' = next + 1
    /\ UNCHANGED config

Init ==
    /\ config \in Configs
    /\ next = 1
    /\ storesRegister = {}
    /\ queryRuleURL = NoURL /\ queryAdhocURL = NoURL
    /\ services = {} /\ refs = {}
    /\ hashrings = {} /\ ingestors = {} /\ limits = {}
    /\ apiTenants = {}

-----------------------------------------------------------------------------
Register(url) ==
    /\ storesRegister' = storesRegister \cup {url}
    /\ UNCHANGED <<queryRuleURL, queryAdhocURL>>

MakeTenantReceiveIngestor ==
    /\ At("ingestor")
    /\ Register(URL(Ingestor(Inst), Grpc))
    /\ ingestors' = ingestors \cup {Inst}
    /\ Emit({Ingestor(Inst)}, config.ns, {JaegerAgent})
    /\ UNCHANGED <<hashrings, limits, apiTenants>>

MakeCompactor ==
    /\ At("compact")
    /\ Emit({Compactor(Inst)}, config.ns, {})
    /\ UNCHANGED <<registers, routing, apiTenants>>

\* Both caches of the store are configured with the index cache's address.
MakeStore ==
    /\ At("store")
    /\ Register(URL(Store(Inst), Grpc))
    /\ Emit({Store(Inst), IndexCache(Inst), BucketCache(Inst)}, config.ns,
            {Ref(Store(Inst), URL(IndexCache(Inst), <<"srv", "_client">>)),
             JaegerAgent})
    /\ UNCHANGED <<routing, apiTenants>>

\* The ruler reaches the query by its name: queryRuleURL is not read.
MakeRuler ==
    /\ At("ruler")
    /\ Register(URL(Ruler(Inst), Port("10902")))
    /\ Emit({Ruler(Inst)}, config.ns,
            {Ref(Ruler(Inst), URL(QueryRule, Port("10902"))),
             Ref(Ruler(Inst), URL(Alertmanager, Port("9093"))),
             Ref(Ruler(Inst), URL(RulesObjstore, Port("10902"))),
             JaegerAgent})
    /\ UNCHANGED <<routing, apiTenants>>

MetricTenants(i) == BuildMetricTenants(config.tenants, i)
Instances == {config.instances[k] : k \in 1..Len(config.instances)}

\* The global limits ask the monitoring of the monitoring for a tenant's series.
MakeReceiveRouter ==
    /\ At("router")
    /\ limits' = {t.id : t \in {u \in UNION {MetricTenants(i) : i \in Instances}
                                  : u.limited}}
    /\ hashrings' = {[hashring |-> i, tenants |-> {t.id : t \in MetricTenants(i)}]
                       : i \in Instances}
    /\ Emit({Router}, config.ns, {Ref(Router, MetaMonitoringURL), JaegerAgent})
    /\ UNCHANGED <<registers, ingestors, apiTenants>>

SetQueryURL(isRuleQuery, url) ==
    /\ queryRuleURL'  = IF isRuleQuery THEN url ELSE queryRuleURL
    /\ queryAdhocURL' = IF isRuleQuery THEN queryAdhocURL ELSE url

\* The endpoints are those registered by now.
MakeQueryConfig(isRuleQuery) ==
    LET name == IF isRuleQuery THEN QueryRule ELSE Query
    IN  /\ At(IF isRuleQuery THEN "query-rule" ELSE "query")
        /\ SetQueryURL(isRuleQuery, URL(name, Port("10902")))
        /\ Emit({name}, config.ns,
                {Ref(name, s) : s \in storesRegister} \cup {JaegerAgent})
        /\ UNCHANGED <<storesRegister, routing, apiTenants>>

MakeQueryFrontend ==
    /\ At("frontend")
    /\ Emit({QueryFrontend, RangeCache}, config.ns,
            {Ref(QueryFrontend, queryAdhocURL),
             Ref(QueryFrontend, URL(RangeCache, <<"srv", "_client">>)),
             JaegerAgent})
    /\ UNCHANGED <<registers, routing, apiTenants>>

MakeAlertManager ==
    /\ At("alertmanager")
    /\ Emit({Alertmanager, AlertCluster}, config.ns,
            {Ref(Alertmanager, URL(AlertCluster, Port("9094")))})
    /\ UNCHANGED <<registers, routing, apiTenants>>

\* The API has a namespace of its own.  makeUp ignores the endpoint it is
\* given: both probes query the frontend.
\* Mutant: the write path is sent to the ingestors' common prefix.
ApiDialsIngestor ==
    {<<API, <<"observatorium-thanos-receive-ingestor">>, "19291">>}
ApiDials ==
    {<<API, Gubernator, "8081">>, <<API, QueryFrontend, "9090">>,
     <<API, Router, "19291">>, <<API, RulesObjstore, "8080">>,
     <<API, Alertmanager, "9093">>, <<API, ApiCache, "11211">>,
     <<Reloader, API, "8080">>, <<UpFrontend, QueryFrontend, "9090">>,
     <<UpRule, QueryFrontend, "9090">>, <<Avalanche, Router, "19291">>}

MakeAPI ==
    /\ At("api")
    /\ apiTenants' = ApiTenants
    /\ Emit({API, RulesObjstore, ApiCache, Gubernator, Reloader, UpFrontend,
             UpRule, Avalanche}, config.apiNs,
            {Ref(d[1], [name |-> d[2], ns |-> config.apiNs, port |-> Port(d[3])])
                : d \in ApiDials} \cup {JaegerAgent})
    /\ UNCHANGED <<registers, routing>>

Next ==
    \/ MakeTenantReceiveIngestor
    \/ MakeCompactor
    \/ MakeStore
    \/ MakeRuler
    \/ MakeReceiveRouter
    \/ \E isRuleQuery \in BOOLEAN : MakeQueryConfig(isRuleQuery)
    \/ MakeQueryFrontend
    \/ MakeAlertManager
    \/ MakeAPI

Spec == Init /\ [][Next]_vars

-----------------------------------------------------------------------------
Dialled(by) == {r.to : r \in {s \in refs : s.by = by}}

TypeOK ==
    /\ next \in 1..(Len(Steps) + 1)
    /\ {r.to.port[1] : r \in refs} \subseteq {"srv", "port"}
    /\ {s.ns : s \in services} \subseteq {config.ns, config.apiNs}
    /\ {h.hashring : h \in hashrings} \cup ingestors \subseteq Instances
    /\ limits \subseteq {ID(n) : n \in DOMAIN config.tenants}

\* Reads see everything: both queries reach the ingestor, the store and the
\* ruler of every instance, and the frontend the ad hoc query ("Order matters
\* here", metrics.go:123: the registers are read by the calls that follow).
ReadPathComplete ==
    Done =>
        /\ \A q \in {Query, QueryRule} :
              {u.name : u \in Dialled(q)}
                = UNION {{Ingestor(i), Store(i), Ruler(i)} : i \in Instances}
        /\ Query \in {u.name : u \in Dialled(QueryFrontend)}
        /\ NoURL \notin {r.to : r \in refs}

\* Whoever dials an address dials a service some file defines, when the API and
\* the metrics are configured for the same namespace, but for two addresses of
\* other teams' services, which are always dialled (sidecars.go:70, rhobs.go:24):
\* no name is misspelt and nothing is generated for a namespace nobody looks in.
Answered(u) == [name |-> u.name, ns |-> u.ns] \in services
AddressesExist ==
    Done /\ config.ns = config.apiNs =>
        {u \in {r.to : r \in refs} : ~Answered(u)} = {TraceWriter, MetaMonitoringURL}

\* Where writes go and what limits them (makeReceiveRouter's three loops against
\* buildMetricTenants and makeObsTenants).  No tenant ID is in two hashrings, and
\* each hashring has its ingestor and the tenants of its instance.  A tenant is
\* limited under its own ID if its configuration says so and its instance is
\* deployed.  The API writes for a tenant under an ID that has a hashring of its
\* own, and its limit if it has one, exactly if the tenant is one of the default
\* instance: for rhel and telemeter makeObsTenants finds no ID (rhobs.go:383), so
\* that rhel, which is limited (rhobs.go:107), is not when it writes by the API.
Deployed(n) == \E i \in Instances : n \in tenantsMapping[i]
Limited(n)  == n \in DOMAIN config.tenants /\ config.tenants[n] = "limited"
WritePathSound ==
    Done =>
        /\ \A g, h \in hashrings : g.tenants \cap h.tenants # {} => g = h
        /\ {h.hashring : h \in hashrings} = ingestors
        /\ \A i \in Instances : \E h \in hashrings :
              h.hashring = i /\ h.tenants = {ID(n) : n \in tenantsMapping[i]}
        /\ \A n \in TenantName : ID(n) \in limits <=> Limited(n) /\ Deployed(n)
        /\ \A t \in apiTenants :
              LET known == t.name \in tenantsMapping.default /\ "default" \in Instances
              IN  /\ (\E h \in hashrings : t.id \in h.tenants) <=> known
                  /\ t.id \in limits <=> known /\ Limited(t.name)

\* "Register the store api" (metrics.go:280): the addresses the queries are
\* given are those of gRPC ports, which port 10902 is not.
StoreApisAreGrpc ==
    \A q \in {Query, QueryRule} : \A u \in Dialled(q) :
        u.port \in {Grpc, Port("10901")}
=============================================================================
