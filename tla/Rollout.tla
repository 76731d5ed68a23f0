------------------------------- MODULE Rollout -------------------------------
(***************************************************************************)
(* The bundles on a cluster: images are released by editing the version    *)
(* table, the gateway and cache targets are run by hand, the files are     *)
(* applied in any order and again, pods are rolled, and the operator makes *)
(* what the custom resources ask for.  A cluster is of the stage or of the *)
(* local environment.  Everything the cluster does is external.            *)
(***************************************************************************)
EXTENDS Bundles

CONSTANT MaxTag     \* bound on the releases of each image

ASSUME ReleasesAssumption == MaxTag \in Nat

VARIABLES
    env,        \* the environment of the cluster
    tags,       \* the version table: a release of each of the two images
    rendered,   \* the releases in the generated files
    live,       \* the objects that the cluster has accepted
    pods,       \* the labels of the running pods of each workload
    provided    \* whether others have made what no file contains

clusterVars == <<env, tags, rendered, live, pods, provided>>

-----------------------------------------------------------------------------
Maps == [stage |-> StageMaps, local |-> LocalMaps]

Versioned == [api : 0 .. MaxTag, memcached : 0 .. MaxTag]

GatewayWorkload == <<"Deployment", gatewayName>>
CacheWorkload   == <<"StatefulSet", "api-memcached">>
OperatorWorkload == <<"Deployment", "thanos-operator-controller-manager">>
AlertmanagerWorkload == <<"StatefulSet", "alertmanager">>
Workloads == {GatewayWorkload, CacheWorkload, OperatorWorkload, AlertmanagerWorkload}

(* The workload whose pods a service is there for.                          *)
ServedBy ==
    [name \in {gatewayName, "api-memcached", "alertmanager", "alertmanager-cluster",
               "thanos-operator-controller-manager-metrics-service"} |->
        CASE name = gatewayName -> GatewayWorkload
          [] name = "api-memcached" -> CacheWorkload
          [] name \in {"alertmanager", "alertmanager-cluster"} -> AlertmanagerWorkload
          [] OTHER -> OperatorWorkload]

(* What the objects refer to and no file contains.                          *)
NotShipped ==
    [stage |-> {<<"ServiceAccount", gatewayName>>, <<"Secret", "alertmanager-config">>} \cup Collector,
     local |-> {<<"Service", "alertmanager-cluster">>} \cup Collector \cup Minio]

(* What the operator, and the cluster for it, makes of a custom resource.   *)
MadeOf(kind) ==
    CASE kind = "ThanosQuery" ->
            {Obj("Service", "thanos-query-frontend-rhobs", {}),
             Obj("ServiceAccount", "thanos-query-frontend-rhobs", {}),
             Obj("Secret", "query-frontend-tls", {})}
      [] kind = "ThanosReceive" -> {Obj("Service", "thanos-receive-router-rhobs", {})}
      [] kind = "Service" -> {Obj("Secret", "alertmanager-tls", {})}
      [] OTHER -> {}

ObjectsOf(files) == UNION {Range(files[i].objs) : i \in DOMAIN files}

(* The files, in the groups in which they are applied.                      *)
StageGroups ==
    [v \in Versioned |->
        {ObjectsOf(CRDS), ObjectsOf(Operator), ObjectsOf(OperatorCR),
         ObjectsOf(buildAlertmanager \o Rules \o Monitors \o Secrets),
         ObjectsOf(Gateway(v)), ObjectsOf(Cache(v))}]

LocalGroups ==
    LET filesOf(positions) == UNION {Range(LocalBuild[i].objs) : i \in positions}
    IN  {filesOf({1}), filesOf({2}), filesOf({3}), filesOf(4 .. Len(LocalBuild))}

Groups == IF env = "stage" THEN StageGroups[rendered] ELSE LocalGroups

Ids(objs) == {Id(o) : o \in objs}
Exists(id) == id \in Ids(live) \/ (provided /\ id \in NotShipped[env])
OfKind(kinds) == {o \in live : o.kind \in kinds}

-----------------------------------------------------------------------------
ClusterInit ==
    /\ env \in {"stage", "local"}
    /\ tags = [api |-> 0, memcached |-> 0]
    /\ rendered = tags
    /\ live = {}
    /\ pods = [w \in Workloads |-> {}]
    /\ provided = FALSE

(* A release: one entry of the version table is edited.                     *)
Release(image) ==
    /\ env = "stage" /\ tags[image] < MaxTag
    /\ tags' = [tags EXCEPT ![image] = @ + 1]
    /\ UNCHANGED <<env, rendered, live, pods, provided>>

(* mage stage:gateway and mage stage:cache.                                 *)
Mage(image) ==
    /\ rendered[image] # tags[image]
    /\ rendered' = [rendered EXCEPT ![image] = tags[image]]
    /\ UNCHANGED <<env, tags, live, pods, provided>>

(* An object is refused by itself: a custom resource of an unknown kind, a  *)
(* workload whose selector, which is immutable, has changed.                *)
Accepts(o) ==
    /\ o.kind \in DOMAIN PluralOf => \E crd \in live : Id(crd) = Definition(o.kind)
    /\ Id(o) \in Workloads => \A old \in live : Id(old) = Id(o) => old.selector = o.selector

(* What is in the local namespace is refused while there is none, unless it *)
(* is applied from the file that begins with it.  Kinds without a namespace *)
(* and monitors, which go into one of somebody else's (servicemonitors.go:  *)
(* 42), are not; on stage the namespaces are there.                         *)
Homed(o, objs) ==
    \/ env = "stage" \/ localNamespace \in live \cup objs
    \/ o.kind \in {"Namespace", "CustomResourceDefinition", "ClusterRole",
                    "ClusterRoleBinding", "ServiceMonitor"}

Applied(objs) ==
    LET news == {o \in objs \ live : Accepts(o) /\ Homed(o, objs)}
        ids  == Ids(news)
    IN  IF news = {} THEN live ELSE {o \in live : Id(o) \notin ids} \cup news

Apply(objs) ==
    /\ Applied(objs) # live
    /\ live' = Applied(objs)
    /\ UNCHANGED <<env, tags, rendered, pods, provided>>

(* A pod needs its account and what it mounts; services are only dialled.   *)
Startable(w) == \A id \in w.refs : id[1] \in {"ServiceAccount", "Secret", "ConfigMap"} => Exists(id)

Outdated(w) == Id(w) \in Workloads /\ Startable(w) /\ pods[Id(w)] # {w.labels}

StartPods(w) ==
    /\ Outdated(w) /\ w.labels \notin pods[Id(w)]
    /\ pods' = [pods EXCEPT ![Id(w)] = @ \cup {w.labels}]
    /\ UNCHANGED <<env, tags, rendered, live, provided>>

RetirePods(w) ==
    /\ Outdated(w) /\ w.labels \in pods[Id(w)]
    /\ pods' = [pods EXCEPT ![Id(w)] = {w.labels}]
    /\ UNCHANGED <<env, tags, rendered, live, provided>>

(* The operator must run and be allowed to see the kind.                    *)
OperatorSees(cr) ==
    /\ pods[OperatorWorkload] # {}
    /\ \E b \in OfKind({"ClusterRoleBinding"}), r \in OfKind({"ClusterRole"}) :
          /\ b.refs = {Manager, Id(r)}
          /\ Definition(cr.kind) \in r.refs

Due(o) ==
    /\ ~ MadeOf(o.kind) \subseteq live
    /\ \/ o.kind \in DOMAIN PluralOf /\ OperatorSees(o)
       \/ Id(o) = <<"Service", "alertmanager">>

Reconcile(o) ==
    /\ Due(o)
    /\ live' = live \cup MadeOf(o.kind)
    /\ UNCHANGED <<env, tags, rendered, pods, provided>>

Provide ==
    /\ ~ provided /\ provided' = TRUE
    /\ UNCHANGED <<env, tags, rendered, live, pods>>

ApplyAny == \E g \in Groups : Apply(g)
RollAny == \E w \in live : StartPods(w) \/ RetirePods(w)
ReconcileAny == \E o \in live : Reconcile(o)

RolloutNext ==
    \/ \E image \in {"api", "memcached"} : Release(image) \/ Mage(image)
    \/ ApplyAny \/ RollAny \/ ReconcileAny
    \/ Provide

RolloutSpec == ClusterInit /\ [][RolloutNext]_clusterVars

(* Files are applied again and controllers run again: as each of their      *)
(* steps is progress it is enough that some one is taken.  Nothing makes    *)
(* anyone release an image, run a mage target or provide what is missing.   *)
ClusterNext == ApplyAny \/ RollAny \/ ReconcileAny
FairSpec == RolloutSpec /\ WF_clusterVars(ClusterNext)

-----------------------------------------------------------------------------
ClusterTypeOK ==
    /\ env \in {"stage", "local"}
    /\ tags \in Versioned /\ rendered \in Versioned
    /\ \A a, b \in live : Id(a) = Id(b) => a = b
    /\ DOMAIN pods = Workloads /\ provided \in BOOLEAN

Settled ==
    /\ \A g \in Groups : Applied(g) = live
    /\ \A o \in live : ~ Due(o) /\ ~ Outdated(o)

(* The StatefulSet on the cluster is of another release than the files.     *)
CacheStuck ==
    \E o \in live : Id(o) = CacheWorkload /\ <<"version", rendered.memcached>> \notin o.selector

Dark(s) ==
    /\ pods[ServedBy[s.name]] # {}
    /\ \A labels \in pods[ServedBy[s.name]] : ~ Finds(s.selector, labels)

(* While pods run behind a service it finds some of them, through releases  *)
(* and rollouts in any order.  Only the service of the cache, whose release *)
(* is among the labels of its selector, can lose them (cache.go:123-129,    *)
(* 185, 234): the pods it then looks for are never started, as the cluster  *)
(* refuses the StatefulSet's new selector.  The labels of the gateway are a *)
(* copy so that this does not happen to it (gateway.go:81).                 *)
OnlyTheCacheGoesDark ==
    \A s \in OfKind({"Service"}) : s.name \in DOMAIN ServedBy /\ Dark(s) =>
        /\ ServedBy[s.name] = CacheWorkload
        /\ \A o \in live : Id(o) = CacheWorkload => o.selector # s.selector

(* When there is nothing left to apply or to reconcile, everything that an  *)
(* accepted object mounts, runs as, binds or dials exists, but for what no  *)
(* target generates: the account of the gateway's pods (gateway.go:116),    *)
(* the configuration of alertmanager, the collector of traces, and in the   *)
(* local environment the alertmanager of the ruler (cr.go:753) and the      *)
(* object store (secrets.go:113): that of tests/deploy is in another        *)
(* namespace.                                                               *)
NothingElseDangles ==
    Settled => (UNION {o.refs : o \in live}) \ Ids(live) = NotShipped[env]

(* When settled, every monitor finds a service that has the port it scrapes *)
(* and the ruler's selector its rules, but for the third port of the        *)
(* gateway's monitor, which its service does not have (gateway.go:653).     *)
(* The ruler itself is generated as paused (cr.go:731).                     *)
EverythingIsScraped ==
    Settled =>
        /\ \A mon \in OfKind({"ServiceMonitor"}) : \A port \in mon.ports :
              \/ \E s \in OfKind({"Service"}) :
                     Finds(mon.selector, s.labels) /\ port \in s.ports
              \/ mon.name = "rhobs-gateway" /\ port = "metrics"
        /\ \A ruler \in OfKind({"ThanosRuler"}) :
              \E r \in OfKind({"PrometheusRule"}) : Finds(ruler.selector, r.labels)

(* Nothing on a cluster was rendered from an entry that its environment's   *)
(* tables lack: TemplateFn would have panicked, the plain lookups of        *)
(* gateway.go and cache.go would have given an empty value in silence.      *)
NothingIsMissing ==
    \A o \in live : \A read \in o.reads : TemplateFn(Maps[env], read)

(* What the targets generate is accepted in the end, whatever order it was  *)
(* first applied in, and what it runs is of the last release rendered; but  *)
(* for the StatefulSet of a cache that was rendered again.  The local lists *)
(* are complete although their positions are counted by hand, and so are    *)
(* the files without a list of their own.                                   *)
WantedLocally ==
    {localNamespace} \cup Range(crds) \cup Range(operatorResources) \cup Range(LocalCRs)
        \cup Range(TelemeterRules) \cup Range(serviceMonitor)
        \cup {localThanosObjectStore(name) :
                 name \in {"thanos-objectstorage", "observatorium-mst-thanos-objectstorage"}}
WantedOnStage == [v \in Versioned |-> ObjectsOf(StageFiles(v))]
Wanted == IF env = "stage" THEN WantedOnStage[rendered] ELSE WantedLocally

AsRendered ==
    \A o \in Wanted :
        \/ o \in live /\ (Id(o) \in Workloads => pods[Id(o)] = {o.labels})
        \/ Id(o) = CacheWorkload /\ CacheStuck

RolloutCompletes == <>[] provided => <>[] AsRendered
=============================================================================
