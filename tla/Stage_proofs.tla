---------------------------- MODULE Stage_proofs ----------------------------
(***************************************************************************)
(* Proofs about the stage.                                                 *)
(*                                                                         *)
(* First the bundles and their rollout, whatever the number of releases:   *)
(* what the constructors make, the objects of each file and the groups in  *)
(* which they are applied; then, file by file, a sheet with the fields of  *)
(* its objects, that they fit together, and what they read and refer to.   *)
(* The inductive invariant says what a cluster can hold and how its pods   *)
(* are labelled; the properties follow from it.  Last, every move of the   *)
(* cluster leaves fewer to be made.                                        *)
(*                                                                         *)
(* Then the life of a sample: one that is uploaded in time is served at    *)
(* every age, whatever the ages looked at and however soon, within two     *)
(* hours, stores load what has come into their window.  Then the telemeter *)
(* rules: after any number of rounds, of which some were missed, only one  *)
(* rule is behind, by one round.  Last what holds of the whole.            *)
(***************************************************************************)
EXTENDS MCStage, FiniteSetTheorems, TLAPS

-----------------------------------------------------------------------------
(* The fields of an object.                                                 *)
Is(o, kind, name, refs, reads, selector, labels, ports) ==
    /\ o.kind = kind /\ o.name = name /\ o.refs = refs /\ o.reads = reads
    /\ o.selector = selector /\ o.labels = labels /\ o.ports = ports

(* What the constructors of objects make.                                   *)
LEMMA ObjIs ==
  ASSUME NEW kind, NEW name, NEW refs
  PROVE  Is(Obj(kind, name, refs), kind, name, refs, {}, {}, {}, {})
  BY DEF Obj, Is

\* What an object built by each of the helpers of Bundles holds.
LEMMA ServingIs ==
  ASSUME NEW kind, NEW name, NEW refs, NEW selector, NEW labels, NEW ports
  PROVE  Is(Serving(Obj(kind, name, refs), selector, labels, ports),
            kind, name, refs, {}, selector, labels, ports)
  BY DEF Serving, Obj, Is

LEMMA MonitoringIs ==
  ASSUME NEW kind, NEW name, NEW refs, NEW selector, NEW ports
  PROVE  Is(Monitoring(Obj(kind, name, refs), selector, ports),
            kind, name, refs, {}, selector, {}, ports)
  BY DEF Monitoring, Serving, Obj, Is

LEMMA SelectingIs ==
  ASSUME NEW kind, NEW name, NEW refs, NEW selector, NEW labels
  PROVE  Is(Selecting(Obj(kind, name, refs), selector, labels),
            kind, name, refs, {}, selector, labels, {})
  BY DEF Selecting, Obj, Is

LEMMA WorkloadIs ==
  ASSUME NEW kind, NEW name, NEW refs, NEW selector, NEW labels, NEW reads
  PROVE  Is(Reading(Selecting(Obj(kind, name, refs), selector, labels), reads),
            kind, name, refs, reads, selector, labels, {})
  BY DEF Reading, Selecting, Obj, Is

LEMMA CRIs ==
  ASSUME NEW kind, NEW name, NEW buckets, NEW reads
  PROVE  Is(CR(kind, name, buckets, reads), kind, name,
            ({BucketSecret[b] : b \in buckets} \cup {Definition(kind)}) \cup Collector,
            (reads \cup ({"ObjectStorageBucket"} \X buckets)) \cup JaegerImage,
            {}, {}, {})
  BY DEF CR, tracingSidecar, Reading, Obj, Is

-----------------------------------------------------------------------------
(* The objects of each file (operator.go:124-149, cr.go:37-64).             *)
ManagerObjects ==
    {OperatorAccount, LeaderElectionRole, ManagerRole, MetricsReaderRole, ProxyRole,
     LeaderElectionBinding, MetricsService, ManagerBinding, ProxyBinding, OperatorDeployment}
UserObjects ==
    {QueryRoles[1], QueryRoles[2], CompactRoles[1], CompactRoles[2], ReceiveRoles[1],
     ReceiveRoles[2], RulerRoles[1], RulerRoles[2], StoreRoles[1], StoreRoles[2]}
QueryRoute   == queryCR(TRUE)[1]
StageQuery   == queryCR(TRUE)[2]
LocalQuery   == queryCR(FALSE)[1]
StoreAt(i)   == storeCR[i]
CompactAt(i) == compactCR[i]
StoreObjects == {StoreAt(1), StoreAt(2), StoreAt(3), StoreAt(4)}
AlertmanagerAt(i) == alertmanagerKubernetes[i]
SecuredService    == [AlertmanagerAt(2) EXCEPT !.ports = @ \cup {"https"}]
AlertmanagerRoute == Obj("Route", "alertmanager", {<<"Service", "alertmanager">>})
AlertmanagerObjects ==
    {AlertmanagerAt(1), SecuredService, AlertmanagerAt(3), AlertmanagerAt(4),
     AlertmanagerAt(5), AlertmanagerRoute}
SecretObjects ==
    {Obj("Secret", "thanos-objectstorage", {}),
     Obj("Secret", "observatorium-mst-thanos-objectstorage", {})}
TelemeterRule   == TelemeterRules[1]
OperatorMonitor == serviceMonitor[1]
SharedObjects == {TelemeterRule, OperatorMonitor} \cup SecretObjects
LocalTelemeterSecret == localThanosObjectStore("thanos-objectstorage")
LocalDefaultSecret   == localThanosObjectStore("observatorium-mst-thanos-objectstorage")
LocalSharedObjects ==
    {TelemeterRule, OperatorMonitor, LocalTelemeterSecret, LocalDefaultSecret}
LocalOperatorObjects == {localNamespace} \cup Range(operatorResources)

\* The objects of the files for rules, monitors and secrets, and the namespace.
SharedAt(e) ==
    IF e = "stage" THEN SharedObjects ELSE LocalSharedObjects \cup {localNamespace}

\* The objects of a list are those its definition names (operator.go, crs.go).
LEMMA OperatorList ==
    /\ Range(operatorResources) = ManagerObjects \cup UserObjects
    /\ Len(operatorResources) = 20 /\ DOMAIN operatorResources = 1 .. 20
  BY DEF operatorResources, ManagerObjects, UserObjects, QueryRoles, CompactRoles,
         ReceiveRoles, RulerRoles, StoreRoles, UserRoles, Range

\* The custom resources of each target, list by list.
LEMMA QueryLists ==
    /\ queryCR(TRUE) = <<QueryRoute, StageQuery>>
    /\ queryCR(FALSE) = <<LocalQuery>>
  BY DEF queryCR, QueryRoute, StageQuery, LocalQuery

LEMMA StoreLists ==
    /\ storeCR = <<StoreAt(1), StoreAt(2), StoreAt(3), StoreAt(4)>>
    /\ compactCR = <<CompactAt(1), CompactAt(2)>>
  BY DEF storeCR, StoreAt, compactCR, CompactAt

LEMMA CustomResourceLists ==
    /\ Range(StageCRs) = {receiveCR, QueryRoute, StageQuery, rulerCR} \cup StoreObjects
    /\ Range(LocalCRs) =
         {receiveCR, LocalQuery, rulerCR, CompactAt(1), CompactAt(2)} \cup StoreObjects
    /\ Len(LocalCRs) = 9 /\ DOMAIN LocalCRs = 1 .. 9
  <1> DEFINE onStage == queryCR(TRUE)
             locally == queryCR(FALSE)
  <1>1. onStage = <<QueryRoute, StageQuery>> /\ locally = <<LocalQuery>>
    BY QueryLists
  <1>2. /\ StageCRs = <<receiveCR>> \o onStage \o <<rulerCR>> \o storeCR
        /\ LocalCRs = <<receiveCR>> \o locally \o <<rulerCR>> \o compactCR \o storeCR
    BY Zenon DEF StageCRs, LocalCRs
  <1> HIDE DEF onStage, locally
  <1>3. Range(StageCRs) = {receiveCR, QueryRoute, StageQuery, rulerCR} \cup StoreObjects
    BY <1>1, <1>2, StoreLists DEF StoreObjects, Range
  <1>4. Range(LocalCRs) =
          {receiveCR, LocalQuery, rulerCR, CompactAt(1), CompactAt(2)} \cup StoreObjects
    BY <1>1, <1>2, StoreLists DEF StoreObjects, Range
  <1>5. Len(LocalCRs) = 9 /\ DOMAIN LocalCRs = 1 .. 9
    BY <1>1, <1>2, StoreLists
  <1> QED
    BY <1>3, <1>4, <1>5

\* The definitions of the operator, one for each kind.
LEMMA DefinitionList ==
    /\ Range(crds) = {Obj("CustomResourceDefinition", CRDKinds[i], {}) : i \in 1 .. 5}
    /\ Len(crds) = 5 /\ DOMAIN crds = 1 .. 5
  BY DEF crds, CRDKinds, Range

(* The least of some numbers, where one of them is known to be.             *)
LEMMA LeastIs ==
  ASSUME NEW S \in SUBSET Int, NEW m \in S, \A x \in S : m <= x
  PROVE  Min(S) = m
  <1> DEFINE Least(x) == \A y \in S : x <= y
  <1>1. Min(S) = CHOOSE x \in S : Least(x)
    BY DEF Min
  <1>2. m \in S /\ Least(m)
    OBVIOUS
  <1> HIDE DEF Least
  <1>3. Min(S) \in S /\ Least(Min(S))
    BY <1>1, <1>2, Zenon
  <1>4. Min(S) <= m /\ m <= Min(S) /\ Min(S) \in Int /\ m \in Int
    BY <1>3 DEF Least
  <1> QED
    BY <1>4

\* The members of a list put after another.
LEMMA RangeOfConcat ==
  ASSUME NEW S, NEW s \in Seq(S), NEW t \in Seq(S)
  PROVE  Range(s \o t) = Range(s) \cup Range(t)
  <1>1. DOMAIN (s \o t) = 1 .. Len(s) + Len(t)
    OBVIOUS
  <1>2. ASSUME NEW i \in DOMAIN (s \o t) PROVE (s \o t)[i] \in Range(s) \cup Range(t)
    BY <1>1 DEF Range
  <1>3. ASSUME NEW i \in DOMAIN s PROVE s[i] \in Range(s \o t)
    BY <1>1 DEF Range
  <1>4. ASSUME NEW i \in DOMAIN t PROVE t[i] \in Range(s \o t)
    <2>1. i + Len(s) \in DOMAIN (s \o t) /\ (s \o t)[i + Len(s)] = t[i]
      BY <1>1
    <2> QED
      BY <2>1 DEF Range
  <1> QED
    BY <1>2, <1>3, <1>4 DEF Range

\* The five objects of alertmanager, of which the monitor is the fourth.
LEMMA AlertmanagerKinds ==
    /\ AlertmanagerAt(1).kind = "Service" /\ AlertmanagerAt(1).name = "alertmanager-cluster"
    /\ AlertmanagerAt(2).kind = "Service" /\ AlertmanagerAt(2).name = "alertmanager"
    /\ AlertmanagerAt(3).kind = "ServiceAccount"
    /\ AlertmanagerAt(4).kind = "ServiceMonitor"
    /\ AlertmanagerAt(5).kind = "StatefulSet"
  BY ServingIs, ObjIs, MonitoringIs, SelectingIs DEF AlertmanagerAt, alertmanagerKubernetes, Is

LEMMA AlertmanagerList ==
    alertmanagerKubernetes = <<AlertmanagerAt(1), AlertmanagerAt(2), AlertmanagerAt(3),
                               AlertmanagerAt(4), AlertmanagerAt(5)>>
  BY DEF alertmanagerKubernetes, AlertmanagerAt

LEMMA MonitorIsFourth == FirstOfKind(alertmanagerKubernetes, "ServiceMonitor") = 4
  <1>1. {i \in 1 .. Len(alertmanagerKubernetes) :
            alertmanagerKubernetes[i].kind = "ServiceMonitor"} = {4}
    BY AlertmanagerList, AlertmanagerKinds
  <1>2. Min({4}) = 4
    BY LeastIs
  <1> QED
    BY <1>1, <1>2, Zenon DEF FirstOfKind, SelectInSeq

\* The monitor gets a file of its own (postProcessServiceMonitor).
LEMMA AlertmanagerFiles ==
    \E objs :
       /\ buildAlertmanager = << File("alertmanager", objs),
                                 File("alertmanager-service-monitor", <<AlertmanagerAt(4)>>) >>
       /\ Range(objs) \cup {AlertmanagerAt(4)} = AlertmanagerObjects
  <1> DEFINE rest == RemoveAt(alertmanagerKubernetes, 4)
             objs == alertmanagerPostProcess(rest)
  <1>1. /\ DOMAIN rest = 1 .. 4 /\ Len(rest) = 4
        /\ rest[1] = AlertmanagerAt(1) /\ rest[2] = AlertmanagerAt(2)
        /\ rest[3] = AlertmanagerAt(3) /\ rest[4] = AlertmanagerAt(5)
    BY AlertmanagerList DEF RemoveAt
  <1>2. buildAlertmanager = << File("alertmanager", objs),
                               File("alertmanager-service-monitor", <<AlertmanagerAt(4)>>) >>
    BY MonitorIsFourth, AlertmanagerList DEF buildAlertmanager, getAndRemoveObject
  <1>3. Range(objs) = {AlertmanagerAt(1), SecuredService, AlertmanagerAt(3), AlertmanagerAt(5),
                       AlertmanagerRoute}
    <2> HIDE DEF rest
    <2> DEFINE served == [i \in DOMAIN rest |->
                            IF rest[i].kind = "Service" /\ rest[i].name = "alertmanager"
                            THEN [rest[i] EXCEPT !.ports = @ \cup {"https"}] ELSE rest[i]]
    <2>1. /\ DOMAIN served = 1 .. 4
          /\ served[1] = AlertmanagerAt(1) /\ served[2] = SecuredService
          /\ served[3] = AlertmanagerAt(3) /\ served[4] = AlertmanagerAt(5)
      BY <1>1, AlertmanagerKinds DEF SecuredService
    <2>2. objs = served \o <<AlertmanagerRoute>>
      BY DEF alertmanagerPostProcess, AlertmanagerRoute
    <2> DEFINE S == {AlertmanagerAt(1), SecuredService, AlertmanagerAt(3), AlertmanagerAt(5)}
    <2>3. served = [i \in 1 .. 4 |-> served[i]] /\ \A i \in 1 .. 4 : served[i] \in S
      BY <2>1
    <2> HIDE DEF served
    <2>4. served \in Seq(S) /\ Len(served) = 4
      BY <2>1, <2>3
    <2>5. Range(served) = S
      BY <2>1 DEF Range
    <2>6. Range(<<AlertmanagerRoute>>) = {AlertmanagerRoute}
      BY DEF Range
    <2>7. Range(objs) = S \cup {AlertmanagerRoute}
      <3>1. served \in Seq(S \cup {AlertmanagerRoute})
        BY <2>4
      <3>2. <<AlertmanagerRoute>> \in Seq(S \cup {AlertmanagerRoute})
        OBVIOUS
      <3>3. Range(served \o <<AlertmanagerRoute>>) = Range(served) \cup Range(<<AlertmanagerRoute>>)
        <4> HIDE DEF S
        <4> QED
          BY <3>1, <3>2, RangeOfConcat
      <3> QED
        BY <2>2, <2>5, <2>6, <3>3, Zenon
    <2> QED
      BY <2>7
  <1> QED
    BY <1>2, <1>3 DEF AlertmanagerObjects

\* The objects of the files of each target.
LEMMA FilesOfOne ==
    /\ ObjectsOf(CRDS) = Range(crds)
    /\ ObjectsOf(Operator) = Range(operatorResources)
    /\ ObjectsOf(OperatorCR) = Range(StageCRs)
  BY DEF CRDS, Operator, OperatorCR, ObjectsOf, File

GatewayObjects(v) ==
    {gatewayRBAC, stageGatewayTenants, gatewayDeployment(v), createGatewayService(v),
     gatewayServiceMonitor(v)}
CacheObjects(v) ==
    {memcachedStatefulSet(gatewayCache(v)), createServiceAccount("api-memcached"),
     createCacheHeadlessService(gatewayCache(v)), createCacheServiceMonitor(gatewayCache(v))}

LEMMA TargetFiles ==
  ASSUME NEW v
  PROVE  /\ ObjectsOf(Gateway(v)) = GatewayObjects(v)
         /\ ObjectsOf(Cache(v)) = CacheObjects(v)
  <1>1. ObjectsOf(Gateway(v)) = GatewayObjects(v)
    BY DEF Gateway, ObjectsOf, File, Range, GatewayObjects
  <1>2. gatewayCache(v).ServiceAccount = "api-memcached"
    BY DEF gatewayCache
  <1>3. ObjectsOf(Cache(v)) = CacheObjects(v)
    BY <1>2 DEF Cache, ObjectsOf, File, Range, CacheObjects
  <1> QED
    BY <1>1, <1>3

\* The rules, monitors and secrets that both targets write.
LEMMA SharedFiles ==
    /\ Rules = <<File("telemeter-rules", <<TelemeterRule>>)>>
    /\ Monitors = <<File("servicemonitors", <<OperatorMonitor>>)>>
    /\ Positions(serviceMonitor, 1) = <<OperatorMonitor>>
    /\ TelemeterRules = <<TelemeterRule>>
  BY DEF Rules, Monitors, TelemeterRule, TelemeterRules, OperatorMonitor, serviceMonitor, Positions

LEMMA MixedFiles ==
    ObjectsOf(buildAlertmanager \o Rules \o Monitors \o Secrets) =
        AlertmanagerObjects \cup SharedObjects
  <1>1. PICK objs :
           /\ buildAlertmanager = << File("alertmanager", objs),
                                     File("alertmanager-service-monitor", <<AlertmanagerAt(4)>>) >>
           /\ Range(objs) \cup {AlertmanagerAt(4)} = AlertmanagerObjects
    BY AlertmanagerFiles
  <1> DEFINE files == buildAlertmanager \o Rules \o Monitors \o Secrets
  <1>2. /\ DOMAIN files = 1 .. 6
        /\ files[1].objs = objs /\ files[2].objs = <<AlertmanagerAt(4)>>
        /\ files[3].objs = <<TelemeterRule>> /\ files[4].objs = <<OperatorMonitor>>
        /\ files[5].objs = <<Obj("Secret", "thanos-objectstorage", {})>>
        /\ files[6].objs = <<Obj("Secret", "observatorium-mst-thanos-objectstorage", {})>>
    BY <1>1, SharedFiles DEF Secrets, File, thanosObjectStoreSecret
  <1> HIDE DEF files
  <1>3. ObjectsOf(files) = UNION {Range(files[i].objs) : i \in 1 .. 6}
    BY <1>2 DEF ObjectsOf
  <1>4. ObjectsOf(files) =
          Range(files[1].objs) \cup Range(files[2].objs) \cup Range(files[3].objs)
            \cup Range(files[4].objs) \cup Range(files[5].objs) \cup Range(files[6].objs)
    BY <1>3
  <1>5. ASSUME NEW x PROVE Range(<<x>>) = {x}
    BY DEF Range
  <1>6. ObjectsOf(files) = Range(objs) \cup {AlertmanagerAt(4)} \cup SharedObjects
    <2>1. /\ Range(files[2].objs) = {AlertmanagerAt(4)}
          /\ Range(files[3].objs) = {TelemeterRule}
          /\ Range(files[4].objs) = {OperatorMonitor}
          /\ Range(files[5].objs) \cup Range(files[6].objs) = SecretObjects
      BY <1>2, <1>5 DEF SecretObjects
    <2> QED
      BY <1>2, <1>4, <2>1 DEF SharedObjects
  <1> QED
    BY <1>1, <1>6 DEF files

(* The groups in which the files are applied.                               *)
LEMMA StageGroupsAre ==
  ASSUME NEW v \in Versioned
  PROVE  StageGroups[v] =
           {Range(crds), Range(operatorResources), Range(StageCRs),
            AlertmanagerObjects \cup SharedObjects, GatewayObjects(v), CacheObjects(v)}
  BY FilesOfOne, TargetFiles, MixedFiles, Zenon DEF StageGroups

\* What the local target applies, group by group.
LEMMA LocalGroupsAre ==
    LocalGroups = {Range(crds), LocalOperatorObjects, Range(LocalCRs), LocalSharedObjects}
  <1>1. /\ Len(LocalBuild) = 7
        /\ LocalBuild[1].objs = Positions(crds, 5)
        /\ LocalBuild[2].objs = <<localNamespace>> \o Positions(operatorResources, 20)
        /\ LocalBuild[3].objs = Positions(LocalCRs, 9)
        /\ LocalBuild[4].objs = <<TelemeterRule>>
        /\ LocalBuild[5].objs = <<OperatorMonitor>>
        /\ LocalBuild[6].objs = <<LocalTelemeterSecret>>
        /\ LocalBuild[7].objs = <<LocalDefaultSecret>>
    BY SharedFiles DEF LocalBuild, File, LocalTelemeterSecret, LocalDefaultSecret
  <1>2. ASSUME NEW objs, NEW n \in Nat, Len(objs) = n, DOMAIN objs = 1 .. n
        PROVE  Range(Positions(objs, n)) = Range(objs)
    BY <1>2 DEF Positions, Range
  <1>3. /\ Range(LocalBuild[1].objs) = Range(crds)
        /\ Range(LocalBuild[2].objs) = LocalOperatorObjects
        /\ Range(LocalBuild[3].objs) = Range(LocalCRs)
    <2>1. /\ DOMAIN crds = 1 .. 5 /\ Len(crds) = 5
          /\ DOMAIN operatorResources = 1 .. 20 /\ Len(operatorResources) = 20
          /\ DOMAIN LocalCRs = 1 .. 9 /\ Len(LocalCRs) = 9
      BY DefinitionList, OperatorList, CustomResourceLists
    <2>2. Range(Positions(crds, 5)) = Range(crds)
      BY <1>2, <2>1
    <2>3. Range(Positions(operatorResources, 20)) = Range(operatorResources)
      BY <1>2, <2>1
    <2>4. Range(Positions(LocalCRs, 9)) = Range(LocalCRs)
      BY <1>2, <2>1
    <2>5. Range(<<localNamespace>> \o Positions(operatorResources, 20)) = LocalOperatorObjects
      <3> DEFINE listed == Positions(operatorResources, 20)
      <3>1. listed \in Seq(LocalOperatorObjects)
        <4>1. \A i \in 1 .. 20 : operatorResources[i] \in LocalOperatorObjects
          BY <2>1 DEF LocalOperatorObjects, Range
        <4> QED
          BY <4>1 DEF Positions
      <3>2. <<localNamespace>> \in Seq(LocalOperatorObjects)
        BY DEF LocalOperatorObjects
      <3>3. Range(<<localNamespace>>) = {localNamespace}
        BY DEF Range
      <3>4. Range(<<localNamespace>> \o listed) = Range(<<localNamespace>>) \cup Range(listed)
        <4> HIDE DEF listed
        <4> QED
          BY <3>1, <3>2, RangeOfConcat
      <3> QED
        BY <2>3, <3>3, <3>4, Zenon DEF LocalOperatorObjects
    <2> QED
      BY <1>1, <2>2, <2>4, <2>5
  <1>4. ASSUME NEW x PROVE Range(<<x>>) = {x}
    BY DEF Range
  <1>5. UNION {Range(LocalBuild[i].objs) : i \in 4 .. 7} = LocalSharedObjects
    <2>1. UNION {Range(LocalBuild[i].objs) : i \in 4 .. 7} =
            Range(LocalBuild[4].objs) \cup Range(LocalBuild[5].objs)
              \cup Range(LocalBuild[6].objs) \cup Range(LocalBuild[7].objs)
      OBVIOUS
    <2>2. /\ Range(LocalBuild[4].objs) = {TelemeterRule}
          /\ Range(LocalBuild[5].objs) = {OperatorMonitor}
          /\ Range(LocalBuild[6].objs) = {LocalTelemeterSecret}
          /\ Range(LocalBuild[7].objs) = {LocalDefaultSecret}
      BY <1>1, <1>4
    <2> QED
      BY <2>1, <2>2 DEF LocalSharedObjects
  <1>6. ASSUME NEW i \in 1 .. 3
        PROVE  UNION {Range(LocalBuild[j].objs) : j \in {i}} = Range(LocalBuild[i].objs)
    OBVIOUS
  <1> QED
    <2>1. /\ UNION {Range(LocalBuild[j].objs) : j \in {1}} = Range(crds)
          /\ UNION {Range(LocalBuild[j].objs) : j \in {2}} = LocalOperatorObjects
          /\ UNION {Range(LocalBuild[j].objs) : j \in {3}} = Range(LocalCRs)
          /\ UNION {Range(LocalBuild[j].objs) : j \in 4 .. Len(LocalBuild)} = LocalSharedObjects
      BY <1>1, <1>3, <1>5, <1>6
    <2> QED
      BY <2>1, Zenon DEF LocalGroups

-----------------------------------------------------------------------------
(* What ties services, workloads and their pods together.  But for the      *)
(* cache every service has the selector that all labels of its workload     *)
(* will match, of whatever release; the labels of the cache are its own     *)
(* selector.                                                                *)
FixedWorkloads == Workloads \ {CacheWorkload}

SelectorOf(w) ==
    IF w = GatewayWorkload THEN GatewaySelector
    ELSE IF w = OperatorWorkload THEN ControllerManager
    ELSE AlertmanagerLabels

Tied(o) ==
    /\ o.kind = "Service" /\ o.name \in DOMAIN ServedBy /\ ServedBy[o.name] # CacheWorkload =>
          o.selector = SelectorOf(ServedBy[o.name])
    /\ Id(o) \in FixedWorkloads => SelectorOf(Id(o)) \subseteq o.labels
    /\ Id(o) = CacheWorkload => o.labels = o.selector

ReadsAreThere(e, o) == \A read \in o.reads : TemplateFn(Maps[e], read)

Made == UNION {MadeOf(kind) : kind \in {"ThanosQuery", "ThanosReceive", "Service"}}

Fits(e, o) == Tied(o) /\ ReadsAreThere(e, o) /\ Id(o) \notin Ids(Made)

OneEach(objs) == \A a, b \in objs : Id(a) = Id(b) => a = b

\* The workloads, and the services whose endpoints are their pods.
LEMMA NamesOfWorkloads ==
    /\ GatewayWorkload = <<"Deployment", "observatorium-api">>
    /\ CacheWorkload = <<"StatefulSet", "api-memcached">>
    /\ OperatorWorkload = <<"Deployment", "thanos-operator-controller-manager">>
    /\ AlertmanagerWorkload = <<"StatefulSet", "alertmanager">>
    /\ Workloads = {GatewayWorkload, CacheWorkload, OperatorWorkload, AlertmanagerWorkload}
    /\ FixedWorkloads = {GatewayWorkload, OperatorWorkload, AlertmanagerWorkload}
  BY DEF GatewayWorkload, CacheWorkload, OperatorWorkload, AlertmanagerWorkload, Workloads,
         FixedWorkloads, gatewayName

LEMMA ServicesAndWorkloads ==
    /\ DOMAIN ServedBy = {"observatorium-api", "api-memcached", "alertmanager",
                          "alertmanager-cluster",
                          "thanos-operator-controller-manager-metrics-service"}
    /\ ServedBy["observatorium-api"] = GatewayWorkload
    /\ ServedBy["api-memcached"] = CacheWorkload
    /\ ServedBy["alertmanager"] = AlertmanagerWorkload
    /\ ServedBy["alertmanager-cluster"] = AlertmanagerWorkload
    /\ ServedBy["thanos-operator-controller-manager-metrics-service"] = OperatorWorkload
  BY DEF ServedBy, gatewayName

\* What the operators make of each kind of custom resource.
LEMMA MadeAre ==
    /\ MadeOf("ThanosQuery") = {Obj("Service", "thanos-query-frontend-rhobs", {}),
                                Obj("ServiceAccount", "thanos-query-frontend-rhobs", {}),
                                Obj("Secret", "query-frontend-tls", {})}
    /\ MadeOf("ThanosReceive") = {Obj("Service", "thanos-receive-router-rhobs", {})}
    /\ MadeOf("Service") = {Obj("Secret", "alertmanager-tls", {})}
    /\ \A kind : kind \notin {"ThanosQuery", "ThanosReceive", "Service"} => MadeOf(kind) = {}
  BY DEF MadeOf

\* The kind and name of an object, and of all that the operators make.
LEMMA IdOf ==
  ASSUME NEW kind, NEW name, NEW refs
  PROVE  Id(Obj(kind, name, refs)) = <<kind, name>>
  BY ObjIs DEF Is, Id

LEMMA MadeIds ==
    /\ Ids(Made) = {<<"Service", "thanos-query-frontend-rhobs">>,
                    <<"ServiceAccount", "thanos-query-frontend-rhobs">>,
                    <<"Secret", "query-frontend-tls">>,
                    <<"Service", "thanos-receive-router-rhobs">>,
                    <<"Secret", "alertmanager-tls">>}
    /\ OneEach(Made)
    /\ \A o \in Made : Tied(o) /\ o.reads = {}
  <1> DEFINE frontend == Obj("Service", "thanos-query-frontend-rhobs", {})
             account  == Obj("ServiceAccount", "thanos-query-frontend-rhobs", {})
             tls      == Obj("Secret", "query-frontend-tls", {})
             router   == Obj("Service", "thanos-receive-router-rhobs", {})
             alerts   == Obj("Secret", "alertmanager-tls", {})
  <1>1. Made = {frontend, account, tls, router, alerts}
    BY MadeAre DEF Made
  <1>2. /\ Is(frontend, "Service", "thanos-query-frontend-rhobs", {}, {}, {}, {}, {})
        /\ Is(account, "ServiceAccount", "thanos-query-frontend-rhobs", {}, {}, {}, {}, {})
        /\ Is(tls, "Secret", "query-frontend-tls", {}, {}, {}, {}, {})
        /\ Is(router, "Service", "thanos-receive-router-rhobs", {}, {}, {}, {}, {})
        /\ Is(alerts, "Secret", "alertmanager-tls", {}, {}, {}, {}, {})
    BY ObjIs
  <1> HIDE DEF frontend, account, tls, router, alerts
  <1>3. Ids(Made) = {Id(frontend), Id(account), Id(tls), Id(router), Id(alerts)}
    BY <1>1 DEF Ids
  <1>4. /\ Id(frontend) = <<"Service", "thanos-query-frontend-rhobs">>
        /\ Id(account) = <<"ServiceAccount", "thanos-query-frontend-rhobs">>
        /\ Id(tls) = <<"Secret", "query-frontend-tls">>
        /\ Id(router) = <<"Service", "thanos-receive-router-rhobs">>
        /\ Id(alerts) = <<"Secret", "alertmanager-tls">>
    BY <1>2 DEF Is, Id
  <1>5. OneEach(Made)
    BY <1>1, <1>4 DEF OneEach
  <1>6. \A o \in Made : Tied(o) /\ o.reads = {}
    BY <1>1, <1>2, <1>4, NamesOfWorkloads, ServicesAndWorkloads DEF Tied, Is
  <1> QED
    BY <1>3, <1>4, <1>5, <1>6

-----------------------------------------------------------------------------
(* The tables of both environments have what the objects of both read       *)
(* (template.go).                                                           *)
LEMMA CommonIsThere ==
  ASSUME NEW e \in {"stage", "local"}, NEW key \in ThanosKeys
  PROVE  \A read \in Common(key) : TemplateFn(Maps[e], read)
  BY DEF TemplateFn, Maps, StageMaps, LocalMaps, Common, StageImages, LocalImages,
         StageVersions, LocalVersions, StageLogLevels, StageResourceRequirements,
         LocalResourceRequirements

\* The tables of both environments have an entry for each key that is asked for.
LEMMA ReplicasAreThere ==
  ASSUME NEW e \in {"stage", "local"}, NEW key \in ThanosKeys \ Compactors
  PROVE  TemplateFn(Maps[e], <<"Replicas", key>>)
  BY DEF TemplateFn, Maps, StageMaps, LocalMaps, StageReplicas

LEMMA SizesAreThere ==
  ASSUME NEW e \in {"stage", "local"},
         NEW key \in {"STORE02W", "STORE2W90D", "STORE90D+", "STORE_DEFAULT",
                      "RECEIVE_TELEMETER", "RECEIVE_DEFAULT", "RULER",
                      "COMPACT_DEFAULT", "COMPACT_TELEMETER"}
  PROVE  TemplateFn(Maps[e], <<"StorageSize", key>>)
  BY DEF TemplateFn, Maps, StageMaps, LocalMaps, StageStorageSize, LocalStorageSize, Compactors

LEMMA BucketsAreThere ==
  ASSUME NEW e \in {"stage", "local"}, NEW bucket \in {"DEFAULT", "TELEMETER"}
  PROVE  TemplateFn(Maps[e], <<"ObjectStorageBucket", bucket>>)
  BY DEF TemplateFn, Maps, StageMaps, LocalMaps, StageObjectStorageBucket

LEMMA AgentIsThere ==
  ASSUME NEW e \in {"stage", "local"}
  PROVE  TemplateFn(Maps[e], <<"Images", "JAEGER_AGENT">>)
  BY DEF TemplateFn, Maps, StageMaps, LocalMaps, StageImages, LocalImages

(* A custom resource reads what its kind reads, its buckets, and the agent. *)
LEMMA CRReads ==
  ASSUME NEW e \in {"stage", "local"}, NEW kind, NEW name, NEW reads,
         NEW buckets \in SUBSET {"DEFAULT", "TELEMETER"},
         \A read \in reads : TemplateFn(Maps[e], read)
  PROVE  ReadsAreThere(e, CR(kind, name, buckets, reads))
  <1>1. CR(kind, name, buckets, reads).reads =
          (reads \cup ({"ObjectStorageBucket"} \X buckets)) \cup JaegerImage
    BY CRIs DEF Is
  <1>2. ASSUME NEW read \in {"ObjectStorageBucket"} \X buckets
        PROVE  TemplateFn(Maps[e], read)
    <2>1. read \in {"ObjectStorageBucket"} \X {"DEFAULT", "TELEMETER"}
      BY <1>2, Zenon
    <2>2. \/ read = <<"ObjectStorageBucket", "DEFAULT">>
          \/ read = <<"ObjectStorageBucket", "TELEMETER">>
      BY <2>1
    <2> QED
      BY <2>2, BucketsAreThere
  <1>3. ASSUME NEW read \in JaegerImage
        PROVE  TemplateFn(Maps[e], read)
    BY AgentIsThere DEF JaegerImage
  <1> QED
    BY <1>1, <1>2, <1>3 DEF ReadsAreThere

\* The keys of the components of Thanos.
LEMMA KeysOfThanos ==
    /\ ThanosKeys \ Compactors =
          {"STORE02W", "STORE2W90D", "STORE90D+", "STORE_DEFAULT", "RECEIVE_ROUTER",
           "RECEIVE_INGESTOR_TELEMETER", "RECEIVE_INGESTOR_DEFAULT", "RULER", "QUERY",
           "QUERY_FRONTEND"}
    /\ Compactors = {"COMPACT_DEFAULT", "COMPACT_TELEMETER"}
    /\ Compactors \subseteq ThanosKeys
  BY DEF ThanosKeys, Compactors

\* Each custom resource, and the operator, reads entries that are there.
LEMMA StoreReads ==
  ASSUME NEW e \in {"stage", "local"}, NEW name,
         NEW key \in {"STORE02W", "STORE2W90D", "STORE90D+", "STORE_DEFAULT"},
         NEW bucket \in {"DEFAULT", "TELEMETER"}
  PROVE  ReadsAreThere(e, Store(name, key, bucket))
  <1> DEFINE reads == Common(key) \cup ({"Replicas", "StorageSize"} \X {key})
  <1>1. \A read \in Common(key) : TemplateFn(Maps[e], read)
    BY CommonIsThere, KeysOfThanos
  <1>2. ASSUME NEW read \in {"Replicas", "StorageSize"} \X {key}
        PROVE  TemplateFn(Maps[e], read)
    <2>1. PICK table \in {"Replicas", "StorageSize"} : read = <<table, key>>
      BY <1>2
    <2> QED
      BY <2>1, ReplicasAreThere, SizesAreThere, KeysOfThanos
  <1>3. \A read \in reads : TemplateFn(Maps[e], read)
    BY <1>1, <1>2
  <1> QED
    BY <1>3, CRReads DEF Store

LEMMA ReceiveReads ==
  ASSUME NEW e \in {"stage", "local"}
  PROVE  ReadsAreThere(e, receiveCR)
  <1> DEFINE keys  == {"RECEIVE_ROUTER", "RECEIVE_INGESTOR_TELEMETER",
                       "RECEIVE_INGESTOR_DEFAULT"}
             sizes == {"StorageSize"} \X {"RECEIVE_TELEMETER", "RECEIVE_DEFAULT"}
             reads == UNION {Common(k) \cup {<<"Replicas", k>>} : k \in keys}
  <1>1. ASSUME NEW k \in keys, NEW read \in Common(k) \cup {<<"Replicas", k>>}
        PROVE  TemplateFn(Maps[e], read)
    BY CommonIsThere, ReplicasAreThere, KeysOfThanos
  <1>2. ASSUME NEW read \in sizes
        PROVE  TemplateFn(Maps[e], read)
    <2>1. read = <<"StorageSize", "RECEIVE_TELEMETER">> \/ read = <<"StorageSize", "RECEIVE_DEFAULT">>
      BY <1>2
    <2> QED
      BY <2>1, SizesAreThere
  <1>3. \A read \in reads \cup sizes : TemplateFn(Maps[e], read)
    BY <1>1, <1>2
  <1>4. receiveCR = CR("ThanosReceive", "rhobs", {"TELEMETER", "DEFAULT"}, reads \cup sizes)
    BY DEF receiveCR
  <1> HIDE DEF reads, sizes
  <1> QED
    BY <1>3, <1>4, CRReads

LEMMA RulerReads ==
  ASSUME NEW e \in {"stage", "local"}
  PROVE  ReadsAreThere(e, rulerCR)
  <1> DEFINE reads == Common("RULER") \cup ({"Replicas", "StorageSize"} \X {"RULER"})
             ruler == CR("ThanosRuler", "rhobs", {"DEFAULT"}, reads)
  <1>1. ASSUME NEW read \in reads
        PROVE  TemplateFn(Maps[e], read)
    <2>1. read \in Common("RULER") \/ read = <<"Replicas", "RULER">> \/ read = <<"StorageSize", "RULER">>
      BY <1>1
    <2> QED
      BY <2>1, CommonIsThere, ReplicasAreThere, SizesAreThere, KeysOfThanos
  <1>2. rulerCR.reads = ruler.reads
    BY DEF rulerCR, CR, tracingSidecar, Reading, Obj
  <1>3. ReadsAreThere(e, ruler)
    BY <1>1, CRReads
  <1> QED
    BY <1>2, <1>3 DEF ReadsAreThere

LEMMA CompactReads ==
  ASSUME NEW e \in {"stage", "local"}, NEW i \in 1 .. 2
  PROVE  ReadsAreThere(e, CompactAt(i))
  <1>1. ASSUME NEW key \in Compactors, NEW bucket \in {"DEFAULT", "TELEMETER"}, NEW name
        PROVE  ReadsAreThere(e, CR("ThanosCompact", name, {bucket},
                                   Common(key) \cup {<<"StorageSize", key>>}))
    <2>1. \A read \in Common(key) \cup {<<"StorageSize", key>>} : TemplateFn(Maps[e], read)
      BY CommonIsThere, SizesAreThere, KeysOfThanos
    <2> QED
      BY <2>1, CRReads
  <1>2. \/ CompactAt(i) = CR("ThanosCompact", "rhobs", {"DEFAULT"},
                             Common("COMPACT_DEFAULT") \cup {<<"StorageSize", "COMPACT_DEFAULT">>})
        \/ CompactAt(i) = CR("ThanosCompact", "telemeter", {"TELEMETER"},
                             Common("COMPACT_TELEMETER") \cup {<<"StorageSize", "COMPACT_TELEMETER">>})
    BY DEF CompactAt, compactCR
  <1> QED
    BY <1>1, <1>2, KeysOfThanos

LEMMA QueryReads ==
  ASSUME NEW e \in {"stage", "local"}
  PROVE  ReadsAreThere(e, StageQuery) /\ ReadsAreThere(e, LocalQuery)
  <1> DEFINE reads == UNION {Common(k) \cup {<<"Replicas", k>>} : k \in {"QUERY", "QUERY_FRONTEND"}}
             query == CR("ThanosQuery", "rhobs", {}, reads)
  <1>1. \A read \in reads : TemplateFn(Maps[e], read)
    BY CommonIsThere, ReplicasAreThere, KeysOfThanos
  <1>2. ReadsAreThere(e, query)
    BY <1>1, CRReads
  <1>3. LocalQuery = query
    BY DEF LocalQuery, queryCR
  <1>4. StageQuery = [query EXCEPT !.refs = @ \cup {<<"Route", "thanos-query-frontend-rhobs">>}
                    \cup makeOauthProxy("thanos-query-frontend-rhobs", "query-frontend-tls")]
    BY DEF StageQuery, queryCR
  <1>5. StageQuery.reads = query.reads
    BY <1>4 DEF CR, tracingSidecar, Reading, Obj
  <1> QED
    BY <1>2, <1>3, <1>5 DEF ReadsAreThere

LEMMA OperatorReads ==
  ASSUME NEW e \in {"stage", "local"}
  PROVE  ReadsAreThere(e, OperatorDeployment)
  <1>1. OperatorDeployment.reads =
          ({"Images", "ResourceRequirements"} \X {"KUBE_RBAC_PROXY"})
             \cup {<<"Images", "THANOS_OPERATOR">>, <<"ResourceRequirements", "MANAGER">>}
    BY DEF OperatorDeployment, Reading, Selecting, Obj
  <1> QED
    BY <1>1
    DEF ReadsAreThere, TemplateFn, Maps, StageMaps, LocalMaps, StageImages, LocalImages,
        StageResourceRequirements, LocalResourceRequirements

(* The gateway and its cache are on stage only.                             *)
LEMMA TargetReads ==
  ASSUME NEW v
  PROVE  /\ ReadsAreThere("stage", gatewayDeployment(v))
         /\ ReadsAreThere("stage", memcachedStatefulSet(gatewayCache(v)))
  <1>1. gatewayDeployment(v).reads =
          (({"Images"} \X {"OBSERVATORIUM_API", "OPA_AMS", "JAEGER_AGENT"})
             \cup ({"Replicas", "Versions", "ResourceRequirements"} \X {"OBSERVATORIUM_API"}))
             \cup {<<"ResourceRequirements", "API_CACHE">>}
    BY WorkloadIs DEF gatewayDeployment, Is
  <1>2. memcachedStatefulSet(gatewayCache(v)).reads =
          ({"Images", "ResourceRequirements"} \X {"API_CACHE", "MEMCACHED_EXPORTER"})
             \cup {<<"Versions", "API_CACHE">>}
    BY WorkloadIs DEF memcachedStatefulSet, Is
  <1>3. ReadsAreThere("stage", gatewayDeployment(v))
    BY <1>1 DEF ReadsAreThere, TemplateFn, Maps, StageMaps, StageImages, StageReplicas,
                StageVersions, StageResourceRequirements
  <1>4. ReadsAreThere("stage", memcachedStatefulSet(gatewayCache(v)))
    BY <1>2 DEF ReadsAreThere, TemplateFn, Maps, StageMaps, StageImages, StageVersions,
                StageResourceRequirements
  <1> QED
    BY <1>3, <1>4

-----------------------------------------------------------------------------
(* The objects, file by file.                                               *)
Definitions == {<<"CustomResourceDefinition", k>> : k \in Range(CRDKinds)}

\* The plural names of the kinds.
LEMMA DefinitionNames ==
    /\ CRDKinds[1] = "thanoscompacts" /\ CRDKinds[2] = "thanosqueries"
    /\ CRDKinds[3] = "thanosreceives" /\ CRDKinds[4] = "thanosrulers"
    /\ CRDKinds[5] = "thanosstores"
    /\ Range(CRDKinds) = {"thanoscompacts", "thanosqueries", "thanosreceives",
                          "thanosrulers", "thanosstores"}
  BY DEF CRDKinds, Range

\* The objects of the operator: what each refers to, reads, selects and serves.
LEMMA ManagerSheet ==
    /\ Is(OperatorAccount, "ServiceAccount", "thanos-operator-controller-manager",
          {}, {}, {}, {}, {})
    /\ Is(LeaderElectionRole, "Role", "thanos-operator-leader-election-role", {}, {}, {}, {}, {})
    /\ Is(ManagerRole, "ClusterRole", "thanos-operator-manager-role",
          Definitions, {}, {}, {}, {})
    /\ Is(MetricsReaderRole, "ClusterRole", "thanos-operator-metrics-reader",
          {}, {}, {}, {}, {})
    /\ Is(ProxyRole, "ClusterRole", "thanos-operator-proxy-role", {}, {}, {}, {}, {})
    /\ Is(LeaderElectionBinding, "RoleBinding", "thanos-operator-leader-election-rolebinding",
          {Id(LeaderElectionRole), Manager}, {}, {}, {}, {})
    /\ Is(ManagerBinding, "ClusterRoleBinding", "thanos-operator-manager-rolebinding",
          {Id(ManagerRole), Manager}, {}, {}, {}, {})
    /\ Is(ProxyBinding, "ClusterRoleBinding", "thanos-operator-proxy-rolebinding",
          {Id(ProxyRole), Manager}, {}, {}, {}, {})
    /\ Is(MetricsService, "Service", "thanos-operator-controller-manager-metrics-service",
          {}, {}, ControllerManager, ControllerManager, {"https"})
    /\ Is(OperatorDeployment, "Deployment", "thanos-operator-controller-manager",
          {Manager}, OperatorDeployment.reads, ControllerManager, ControllerManager, {})
  <1>1. /\ Id(LeaderElectionRole) = <<"Role", "thanos-operator-leader-election-role">>
        /\ Id(ManagerRole) = <<"ClusterRole", "thanos-operator-manager-role">>
        /\ Id(ProxyRole) = <<"ClusterRole", "thanos-operator-proxy-role">>
    BY IdOf DEF LeaderElectionRole, ManagerRole, ProxyRole
  <1>2. Manager = <<"ServiceAccount", "thanos-operator-controller-manager">>
    BY DEF Manager
  <1>3. /\ Is(OperatorAccount, "ServiceAccount", "thanos-operator-controller-manager",
              {}, {}, {}, {}, {})
        /\ Is(LeaderElectionRole, "Role", "thanos-operator-leader-election-role",
              {}, {}, {}, {}, {})
        /\ Is(ManagerRole, "ClusterRole", "thanos-operator-manager-role",
              Definitions, {}, {}, {}, {})
        /\ Is(MetricsReaderRole, "ClusterRole", "thanos-operator-metrics-reader",
              {}, {}, {}, {}, {})
        /\ Is(ProxyRole, "ClusterRole", "thanos-operator-proxy-role", {}, {}, {}, {}, {})
    BY <1>2, ObjIs DEF OperatorAccount, LeaderElectionRole, ManagerRole, MetricsReaderRole,
                       ProxyRole, Definitions
  <1>4. /\ Is(LeaderElectionBinding, "RoleBinding",
              "thanos-operator-leader-election-rolebinding",
              {Id(LeaderElectionRole), Manager}, {}, {}, {}, {})
        /\ Is(ManagerBinding, "ClusterRoleBinding", "thanos-operator-manager-rolebinding",
              {Id(ManagerRole), Manager}, {}, {}, {}, {})
        /\ Is(ProxyBinding, "ClusterRoleBinding", "thanos-operator-proxy-rolebinding",
              {Id(ProxyRole), Manager}, {}, {}, {}, {})
    BY <1>1, ObjIs DEF LeaderElectionBinding, ManagerBinding, ProxyBinding, BindingOf
  <1>5. /\ Is(MetricsService, "Service", "thanos-operator-controller-manager-metrics-service",
              {}, {}, ControllerManager, ControllerManager, {"https"})
        /\ Is(OperatorDeployment, "Deployment", "thanos-operator-controller-manager",
              {Manager}, OperatorDeployment.reads, ControllerManager, ControllerManager, {})
    BY ServingIs, WorkloadIs DEF MetricsService, OperatorDeployment, Is
  <1> QED
    BY <1>3, <1>4, <1>5

(* The roles for users: distinct names, and a reference to one definition.  *)
LEMMA UserSheet ==
  \A o \in UserObjects :
      /\ o.kind = "ClusterRole" /\ o.refs \subseteq Definitions /\ o.reads = {}
      /\ o.name \notin {"thanos-operator-manager-role", "thanos-operator-metrics-reader",
                        "thanos-operator-proxy-role"}
  <1>1. ASSUME NEW name, NEW k \in Range(CRDKinds)
        PROVE  LET o == Obj("ClusterRole", name, {<<"CustomResourceDefinition", k>>})
               IN  o.kind = "ClusterRole" /\ o.name = name /\ o.refs \subseteq Definitions
                   /\ o.reads = {}
    BY ObjIs DEF Is, Definitions
  <1> QED
    BY <1>1, DefinitionNames
    DEF UserObjects, QueryRoles, CompactRoles, ReceiveRoles, RulerRoles, StoreRoles, UserRoles

\* The roles for users of the operator.
LEMMA UserIds ==
    /\ Id(QueryRoles[1]) = <<"ClusterRole", "thanos-operator-thanosquery-editor-role">>
    /\ Id(QueryRoles[2]) = <<"ClusterRole", "thanos-operator-thanosquery-viewer-role">>
    /\ Id(CompactRoles[1]) = <<"ClusterRole", "thanos-operator-thanoscompact-editor-role">>
    /\ Id(CompactRoles[2]) = <<"ClusterRole", "thanos-operator-thanoscompact-viewer-role">>
    /\ Id(ReceiveRoles[1]) = <<"ClusterRole", "thanos-operator-thanosreceive-editor-role">>
    /\ Id(ReceiveRoles[2]) = <<"ClusterRole", "thanos-operator-thanosreceive-viewer-role">>
    /\ Id(RulerRoles[1]) = <<"ClusterRole", "thanos-operator-thanosruler-editor-role">>
    /\ Id(RulerRoles[2]) = <<"ClusterRole", "thanos-operator-thanosruler-viewer-role">>
    /\ Id(StoreRoles[1]) = <<"ClusterRole", "thanos-operator-thanosstore-editor-role">>
    /\ Id(StoreRoles[2]) = <<"ClusterRole", "thanos-operator-thanosstore-viewer-role">>
  BY IdOf DEF QueryRoles, CompactRoles, ReceiveRoles, RulerRoles, StoreRoles, UserRoles

(* An object that is neither a service nor a workload and reads nothing.    *)
LEMMA PlainFits ==
  ASSUME NEW e, NEW o, o.reads = {}, o.kind # "Service", Id(o) \notin Workloads,
         Id(o) \notin Ids(Made)
  PROVE  Fits(e, o)
  BY DEF Fits, Tied, ReadsAreThere, Workloads, FixedWorkloads

\* The definitions are of different names, and tied to what they need.
LEMMA DefinitionsFit ==
  ASSUME NEW e
  PROVE  OneEach(Range(crds)) /\ \A o \in Range(crds) : Fits(e, o)
  <1>1. ASSUME NEW o \in Range(crds)
        PROVE  /\ Fits(e, o)
               /\ \E i \in 1 .. 5 : o = Obj("CustomResourceDefinition", CRDKinds[i], {})
                                    /\ Id(o) = <<"CustomResourceDefinition", CRDKinds[i]>>
    <2>1. PICK i \in 1 .. 5 : o = Obj("CustomResourceDefinition", CRDKinds[i], {})
      BY DefinitionList
    <2>2. o.kind = "CustomResourceDefinition" /\ o.reads = {} /\
          Id(o) = <<"CustomResourceDefinition", CRDKinds[i]>>
      BY <2>1, ObjIs, IdOf DEF Is
    <2> QED
      BY <2>1, <2>2, PlainFits, NamesOfWorkloads, MadeIds
  <1>2. \A i, j \in 1 .. 5 : CRDKinds[i] = CRDKinds[j] => i = j
    BY DefinitionNames
  <1> QED
    BY <1>1, <1>2 DEF OneEach

\* So are the objects of the operator.
LEMMA OperatorFits ==
  ASSUME NEW e \in {"stage", "local"}
  PROVE  OneEach(Range(operatorResources)) /\ \A o \in Range(operatorResources) : Fits(e, o)
  <1>1. /\ Id(OperatorAccount) = <<"ServiceAccount", "thanos-operator-controller-manager">>
        /\ Id(LeaderElectionRole) = <<"Role", "thanos-operator-leader-election-role">>
        /\ Id(ManagerRole) = <<"ClusterRole", "thanos-operator-manager-role">>
        /\ Id(MetricsReaderRole) = <<"ClusterRole", "thanos-operator-metrics-reader">>
        /\ Id(ProxyRole) = <<"ClusterRole", "thanos-operator-proxy-role">>
        /\ Id(LeaderElectionBinding) =
              <<"RoleBinding", "thanos-operator-leader-election-rolebinding">>
        /\ Id(ManagerBinding) = <<"ClusterRoleBinding", "thanos-operator-manager-rolebinding">>
        /\ Id(ProxyBinding) = <<"ClusterRoleBinding", "thanos-operator-proxy-rolebinding">>
        /\ Id(MetricsService) =
              <<"Service", "thanos-operator-controller-manager-metrics-service">>
        /\ Id(OperatorDeployment) = <<"Deployment", "thanos-operator-controller-manager">>
    BY ManagerSheet DEF Is, Id
  <1>2. OneEach(ManagerObjects)
    BY <1>1 DEF OneEach, ManagerObjects
  <1>3. OneEach(UserObjects)
    BY UserIds DEF OneEach, UserObjects
  <1>4. \A o \in UserObjects : \A m \in ManagerObjects : Id(o) # Id(m)
    BY <1>1, UserIds DEF ManagerObjects, UserObjects
  <1>5. OneEach(Range(operatorResources))
    BY <1>2, <1>3, <1>4, OperatorList DEF OneEach
  <1>6. ASSUME NEW o \in UserObjects PROVE Fits(e, o)
    BY UserSheet, PlainFits, NamesOfWorkloads, MadeIds DEF Id
  <1>7. ASSUME NEW o \in ManagerObjects, o # MetricsService, o # OperatorDeployment
        PROVE  Fits(e, o)
    BY <1>1, <1>7, ManagerSheet, PlainFits, NamesOfWorkloads, MadeIds DEF ManagerObjects, Is
  <1>8. Fits(e, MetricsService)
    BY <1>1, ManagerSheet, NamesOfWorkloads, ServicesAndWorkloads, MadeIds
    DEF Is, Fits, Tied, ReadsAreThere, SelectorOf
  <1>9. Fits(e, OperatorDeployment)
    BY <1>1, ManagerSheet, NamesOfWorkloads, OperatorReads, MadeIds
    DEF Is, Fits, Tied, SelectorOf
  <1> QED
    BY <1>5, <1>6, <1>7, <1>8, <1>9, OperatorList

\* And so is the namespace that the local file has before them.
LEMMA NamespaceSheet ==
    /\ Is(localNamespace, "Namespace", "rhobs-local", {}, {}, {}, {}, {})
    /\ Id(localNamespace) = <<"Namespace", "rhobs-local">>
  BY ObjIs, IdOf DEF localNamespace

LEMMA LocalOperatorFits ==
  ASSUME NEW e \in {"stage", "local"}
  PROVE  OneEach(LocalOperatorObjects) /\ \A o \in LocalOperatorObjects : Fits(e, o)
  <1>1. Fits(e, localNamespace)
    BY NamespaceSheet, PlainFits, NamesOfWorkloads, MadeIds DEF Is
  <1>2. \A o \in Range(operatorResources) : o.kind # "Namespace"
    BY UserSheet, ManagerSheet, OperatorList DEF ManagerObjects, Is
  <1>3. \A o \in Range(operatorResources) : Id(o) # Id(localNamespace)
    BY <1>2, NamespaceSheet DEF Id
  <1> QED
    BY <1>1, <1>3, OperatorFits DEF LocalOperatorObjects, OneEach

TelemeterSecret == <<"Secret", "thanos-objectstorage">>
DefaultSecret   == <<"Secret", "observatorium-mst-thanos-objectstorage">>

\* The secrets of the buckets.
LEMMA BucketSecrets ==
    /\ {BucketSecret[b] : b \in {"TELEMETER", "DEFAULT"}} = {TelemeterSecret, DefaultSecret}
    /\ {BucketSecret[b] : b \in {"TELEMETER"}} = {TelemeterSecret}
    /\ {BucketSecret[b] : b \in {"DEFAULT"}} = {DefaultSecret}
    /\ {BucketSecret[b] : b \in {}} = {}
  BY DEF BucketSecret, TelemeterSecret, DefaultSecret

(* What a custom resource refers to, but for what its kind adds.            *)
CRRefs(kind, secrets) == (secrets \cup {Definition(kind)}) \cup Collector

OauthRefs == makeOauthProxy("thanos-query-frontend-rhobs", "query-frontend-tls")

\* The custom resources: what each refers to and reads.
LEMMA StoreSheet ==
    /\ Is(StoreAt(1), "ThanosStore", "telemeter-0to2w", CRRefs("ThanosStore", {TelemeterSecret}),
          StoreAt(1).reads, {}, {}, {})
    /\ Is(StoreAt(2), "ThanosStore", "telemeter-2wto90d", CRRefs("ThanosStore", {TelemeterSecret}),
          StoreAt(2).reads, {}, {}, {})
    /\ Is(StoreAt(3), "ThanosStore", "telemeter-90dplus", CRRefs("ThanosStore", {TelemeterSecret}),
          StoreAt(3).reads, {}, {}, {})
    /\ Is(StoreAt(4), "ThanosStore", "default", CRRefs("ThanosStore", {DefaultSecret}),
          StoreAt(4).reads, {}, {}, {})
  <1>1. ASSUME NEW name, NEW key
        PROVE  /\ Is(Store(name, key, "TELEMETER"), "ThanosStore", name,
                     CRRefs("ThanosStore", {TelemeterSecret}),
                     Store(name, key, "TELEMETER").reads, {}, {}, {})
               /\ Is(Store(name, key, "DEFAULT"), "ThanosStore", name,
                     CRRefs("ThanosStore", {DefaultSecret}),
                     Store(name, key, "DEFAULT").reads, {}, {}, {})
    BY CRIs, BucketSecrets DEF Store, CRRefs, Is
  <1>2. /\ StoreAt(1) = Store("telemeter-0to2w", "STORE02W", "TELEMETER")
        /\ StoreAt(2) = Store("telemeter-2wto90d", "STORE2W90D", "TELEMETER")
        /\ StoreAt(3) = Store("telemeter-90dplus", "STORE90D+", "TELEMETER")
        /\ StoreAt(4) = Store("default", "STORE_DEFAULT", "DEFAULT")
    BY DEF StoreAt, storeCR
  <1> QED
    BY <1>1, <1>2

LEMMA CompactSheet ==
    /\ Is(CompactAt(1), "ThanosCompact", "rhobs", CRRefs("ThanosCompact", {DefaultSecret}),
          CompactAt(1).reads, {}, {}, {})
    /\ Is(CompactAt(2), "ThanosCompact", "telemeter", CRRefs("ThanosCompact", {TelemeterSecret}),
          CompactAt(2).reads, {}, {}, {})
  <1>1. /\ CompactAt(1) = CR("ThanosCompact", "rhobs", {"DEFAULT"},
                             Common("COMPACT_DEFAULT") \cup {<<"StorageSize", "COMPACT_DEFAULT">>})
        /\ CompactAt(2) = CR("ThanosCompact", "telemeter", {"TELEMETER"},
                             Common("COMPACT_TELEMETER") \cup {<<"StorageSize", "COMPACT_TELEMETER">>})
    BY DEF CompactAt, compactCR
  <1> QED
    BY <1>1, CRIs, BucketSecrets DEF CRRefs, Is

LEMMA ReceiveSheet ==
    Is(receiveCR, "ThanosReceive", "rhobs",
       CRRefs("ThanosReceive", {TelemeterSecret, DefaultSecret}), receiveCR.reads, {}, {}, {})
  BY CRIs, BucketSecrets DEF receiveCR, CRRefs, Is

LEMMA RulerSheet ==
    Is(rulerCR, "ThanosRuler", "rhobs",
       CRRefs("ThanosRuler", {DefaultSecret}) \cup {<<"Service", "alertmanager-cluster">>},
       rulerCR.reads, RuleLabel, {}, {})
  <1> DEFINE reads == Common("RULER") \cup ({"Replicas", "StorageSize"} \X {"RULER"})
             ruler == CR("ThanosRuler", "rhobs", {"DEFAULT"}, reads)
  <1>1. Is(ruler, "ThanosRuler", "rhobs", CRRefs("ThanosRuler", {DefaultSecret}),
           ruler.reads, {}, {}, {})
    BY CRIs, BucketSecrets DEF CRRefs, Is
  <1>2. /\ rulerCR = [ruler EXCEPT !.refs = @ \cup {<<"Service", "alertmanager-cluster">>},
                                   !.selector = RuleLabel]
        /\ DOMAIN ruler = {"kind", "name", "refs", "reads", "selector", "labels", "ports"}
    BY DEF rulerCR, CR, tracingSidecar, Reading, Obj
  <1> HIDE DEF ruler
  <1> QED
    BY <1>1, <1>2 DEF Is

LEMMA QuerySheet ==
    /\ Is(QueryRoute, "Route", "thanos-query-frontend-rhobs", {QueryFrontend}, {}, {}, {}, {})
    /\ Is(LocalQuery, "ThanosQuery", "rhobs", CRRefs("ThanosQuery", {}), LocalQuery.reads, {}, {}, {})
    /\ Is(StageQuery, "ThanosQuery", "rhobs",
          CRRefs("ThanosQuery", {}) \cup ({<<"Route", "thanos-query-frontend-rhobs">>} \cup OauthRefs),
          StageQuery.reads, {}, {}, {})
  <1> DEFINE reads == UNION {Common(k) \cup {<<"Replicas", k>>} : k \in {"QUERY", "QUERY_FRONTEND"}}
             query == CR("ThanosQuery", "rhobs", {}, reads)
  <1>1. Is(query, "ThanosQuery", "rhobs", CRRefs("ThanosQuery", {}), query.reads, {}, {}, {})
    BY CRIs, BucketSecrets DEF CRRefs, Is
  <1>2. LocalQuery = query
    BY DEF LocalQuery, queryCR
  <1>3. /\ StageQuery = [query EXCEPT
                           !.refs = (@ \cup {<<"Route", "thanos-query-frontend-rhobs">>}) \cup OauthRefs]
        /\ QueryRoute = Obj("Route", "thanos-query-frontend-rhobs", {QueryFrontend})
    BY DEF StageQuery, QueryRoute, queryCR, OauthRefs
  <1>4. DOMAIN query = {"kind", "name", "refs", "reads", "selector", "labels", "ports"}
    BY DEF CR, tracingSidecar, Reading, Obj
  <1>5. Is(QueryRoute, "Route", "thanos-query-frontend-rhobs", {QueryFrontend}, {}, {}, {}, {})
    BY <1>3, ObjIs
  <1> HIDE DEF query
  <1>6. Is(StageQuery, "ThanosQuery", "rhobs",
           CRRefs("ThanosQuery", {}) \cup ({<<"Route", "thanos-query-frontend-rhobs">>} \cup OauthRefs),
           StageQuery.reads, {}, {}, {})
    BY <1>1, <1>3, <1>4 DEF Is
  <1> QED
    BY <1>1, <1>2, <1>5, <1>6

(* Custom resources are neither services nor workloads.                     *)
LEMMA CRFits ==
  ASSUME NEW e, NEW o, ReadsAreThere(e, o),
         o.kind \in {"ThanosStore", "ThanosCompact", "ThanosReceive", "ThanosRuler", "ThanosQuery"}
  PROVE  Fits(e, o)
  <1>1. Id(o) \notin Workloads /\ Id(o) \notin Ids(Made)
    BY NamesOfWorkloads, MadeIds DEF Id
  <1> QED
    BY <1>1, NamesOfWorkloads DEF Fits, Tied

\* The stores are tied to what they need.
LEMMA StoresFit ==
  ASSUME NEW e \in {"stage", "local"}
  PROVE  \A o \in StoreObjects : Fits(e, o)
  <1>1. /\ StoreAt(1) = Store("telemeter-0to2w", "STORE02W", "TELEMETER")
        /\ StoreAt(2) = Store("telemeter-2wto90d", "STORE2W90D", "TELEMETER")
        /\ StoreAt(3) = Store("telemeter-90dplus", "STORE90D+", "TELEMETER")
        /\ StoreAt(4) = Store("default", "STORE_DEFAULT", "DEFAULT")
    BY DEF StoreAt, storeCR
  <1>2. /\ ReadsAreThere(e, StoreAt(1)) /\ ReadsAreThere(e, StoreAt(2))
        /\ ReadsAreThere(e, StoreAt(3)) /\ ReadsAreThere(e, StoreAt(4))
    BY <1>1, StoreReads
  <1> QED
    BY <1>2, StoreSheet, CRFits DEF Is, StoreObjects

CustomObjects == {receiveCR, QueryRoute, StageQuery, LocalQuery, rulerCR, CompactAt(1),
                  CompactAt(2)} \cup StoreObjects

\* The kinds and names of the custom resources.
LEMMA CustomIds ==
    /\ Id(receiveCR) = <<"ThanosReceive", "rhobs">>
    /\ Id(QueryRoute) = <<"Route", "thanos-query-frontend-rhobs">>
    /\ Id(StageQuery) = <<"ThanosQuery", "rhobs">>
    /\ Id(LocalQuery) = <<"ThanosQuery", "rhobs">>
    /\ Id(rulerCR) = <<"ThanosRuler", "rhobs">>
    /\ Id(CompactAt(1)) = <<"ThanosCompact", "rhobs">>
    /\ Id(CompactAt(2)) = <<"ThanosCompact", "telemeter">>
    /\ Id(StoreAt(1)) = <<"ThanosStore", "telemeter-0to2w">>
    /\ Id(StoreAt(2)) = <<"ThanosStore", "telemeter-2wto90d">>
    /\ Id(StoreAt(3)) = <<"ThanosStore", "telemeter-90dplus">>
    /\ Id(StoreAt(4)) = <<"ThanosStore", "default">>
  BY StoreSheet, CompactSheet, ReceiveSheet, RulerSheet, QuerySheet DEF Is, Id

\* The custom resources are of different names, and tied to what they need.
LEMMA CustomFits ==
  ASSUME NEW e \in {"stage", "local"}
  PROVE  /\ OneEach(Range(StageCRs)) /\ OneEach(Range(LocalCRs))
         /\ \A o \in Range(StageCRs) \cup Range(LocalCRs) : Fits(e, o)
  <1>1. OneEach(Range(StageCRs))
    BY CustomIds, CustomResourceLists DEF OneEach, StoreObjects
  <1>2. OneEach(Range(LocalCRs))
    BY CustomIds, CustomResourceLists DEF OneEach, StoreObjects
  <1>3. Fits(e, QueryRoute)
    BY CustomIds, QuerySheet, PlainFits, NamesOfWorkloads, MadeIds DEF Is
  <1>4. /\ Fits(e, receiveCR) /\ Fits(e, StageQuery) /\ Fits(e, LocalQuery)
        /\ Fits(e, rulerCR) /\ Fits(e, CompactAt(1)) /\ Fits(e, CompactAt(2))
    BY ReceiveReads, QueryReads, RulerReads, CompactReads, CRFits,
       CompactSheet, ReceiveSheet, RulerSheet, QuerySheet DEF Is
  <1> QED
    BY <1>1, <1>2, <1>3, <1>4, StoresFit, CustomResourceLists

\* The objects of alertmanager, and those that both targets share.
LEMMA AlertmanagerSheet ==
    /\ Is(AlertmanagerAt(1), "Service", "alertmanager-cluster", {}, {}, AlertmanagerLabels,
          AlertmanagerLabels, {"cluster-tcp"})
    /\ Is(SecuredService, "Service", "alertmanager", {}, {}, AlertmanagerLabels,
          AlertmanagerLabels, {"http", "https"})
    /\ Is(AlertmanagerAt(3), "ServiceAccount", "alertmanager", {}, {}, {}, {}, {})
    /\ Is(AlertmanagerAt(4), "ServiceMonitor", "alertmanager", {<<"Service", "alertmanager">>},
          {}, AlertmanagerLabels, {}, {"http"})
    /\ Is(AlertmanagerAt(5), "StatefulSet", "alertmanager",
          {<<"Secret", "alertmanager-config">>, <<"Service", "alertmanager-cluster">>}
              \cup makeOauthProxy("alertmanager", "alertmanager-tls"),
          {}, AlertmanagerLabels, AlertmanagerLabels, {})
    /\ Is(AlertmanagerRoute, "Route", "alertmanager", {<<"Service", "alertmanager">>},
          {}, {}, {}, {})
  <1>1. /\ AlertmanagerAt(1) = Serving(Obj("Service", "alertmanager-cluster", {}),
                                       AlertmanagerLabels, AlertmanagerLabels, {"cluster-tcp"})
        /\ AlertmanagerAt(2) = Serving(Obj("Service", "alertmanager", {}), AlertmanagerLabels,
                                       AlertmanagerLabels, {"http"})
        /\ AlertmanagerAt(3) = Obj("ServiceAccount", "alertmanager", {})
        /\ AlertmanagerAt(4) = Monitoring(Obj("ServiceMonitor", "alertmanager",
                                              {<<"Service", "alertmanager">>}),
                                          AlertmanagerLabels, {"http"})
        /\ AlertmanagerAt(5) = Selecting(Obj("StatefulSet", "alertmanager",
                     {<<"Secret", "alertmanager-config">>, <<"Service", "alertmanager-cluster">>}
                         \cup makeOauthProxy("alertmanager", "alertmanager-tls")),
                 AlertmanagerLabels, AlertmanagerLabels)
    BY DEF AlertmanagerAt, alertmanagerKubernetes
  <1>2. Is(SecuredService, "Service", "alertmanager", {}, {}, AlertmanagerLabels,
           AlertmanagerLabels, {"http", "https"})
    BY <1>1 DEF SecuredService, Serving, Obj, Is
  <1>3. Is(AlertmanagerRoute, "Route", "alertmanager", {<<"Service", "alertmanager">>},
           {}, {}, {}, {})
    BY ObjIs DEF AlertmanagerRoute
  <1> QED
    BY <1>1, <1>2, <1>3, ServingIs, ObjIs, MonitoringIs, SelectingIs

LEMMA SharedSheet ==
    /\ Is(TelemeterRule, "PrometheusRule", "telemeter-rules", {}, {}, {},
          RuleLabel \cup {<<"component", "rules">>}, {})
    /\ Is(OperatorMonitor, "ServiceMonitor", "thanos-operator-controller-manager-metrics",
          {<<"Service", "thanos-operator-controller-manager-metrics-service">>}, {},
          ControllerManager, {}, {"https"})
    /\ Is(Obj("Secret", "thanos-objectstorage", {}), "Secret", "thanos-objectstorage",
          {}, {}, {}, {}, {})
    /\ Is(Obj("Secret", "observatorium-mst-thanos-objectstorage", {}), "Secret",
          "observatorium-mst-thanos-objectstorage", {}, {}, {}, {}, {})
    /\ Is(LocalTelemeterSecret, "Secret", "thanos-objectstorage", Minio, {}, {}, {}, {})
    /\ Is(LocalDefaultSecret, "Secret", "observatorium-mst-thanos-objectstorage",
          Minio, {}, {}, {}, {})
  <1>1. Is(TelemeterRule, "PrometheusRule", "telemeter-rules", {}, {}, {},
           RuleLabel \cup {<<"component", "rules">>}, {})
    BY DEF TelemeterRule, TelemeterRules, Obj, Is
  <1>2. Is(OperatorMonitor, "ServiceMonitor", "thanos-operator-controller-manager-metrics",
           {<<"Service", "thanos-operator-controller-manager-metrics-service">>}, {},
           ControllerManager, {}, {"https"})
    BY MonitoringIs DEF OperatorMonitor, serviceMonitor
  <1> QED
    BY <1>1, <1>2, ObjIs DEF LocalTelemeterSecret, LocalDefaultSecret, localThanosObjectStore

\* Their kinds and names.
LEMMA MixedIds ==
    /\ Id(AlertmanagerAt(1)) = <<"Service", "alertmanager-cluster">>
    /\ Id(SecuredService) = <<"Service", "alertmanager">>
    /\ Id(AlertmanagerAt(3)) = <<"ServiceAccount", "alertmanager">>
    /\ Id(AlertmanagerAt(4)) = <<"ServiceMonitor", "alertmanager">>
    /\ Id(AlertmanagerAt(5)) = <<"StatefulSet", "alertmanager">>
    /\ Id(AlertmanagerRoute) = <<"Route", "alertmanager">>
    /\ Id(TelemeterRule) = <<"PrometheusRule", "telemeter-rules">>
    /\ Id(OperatorMonitor) = <<"ServiceMonitor", "thanos-operator-controller-manager-metrics">>
    /\ Id(Obj("Secret", "thanos-objectstorage", {})) = TelemeterSecret
    /\ Id(Obj("Secret", "observatorium-mst-thanos-objectstorage", {})) = DefaultSecret
    /\ Id(LocalTelemeterSecret) = TelemeterSecret /\ Id(LocalDefaultSecret) = DefaultSecret
  BY AlertmanagerSheet, SharedSheet DEF Is, Id, TelemeterSecret, DefaultSecret

\* They are of different names, and tied to what they need.
LEMMA MixedFits ==
  ASSUME NEW e
  PROVE  /\ OneEach(AlertmanagerObjects \cup SharedObjects)
         /\ \A o \in AlertmanagerObjects \cup SharedObjects : Fits(e, o)
  <1>1. OneEach(AlertmanagerObjects)
    BY MixedIds DEF OneEach, AlertmanagerObjects
  <1>2. OneEach(SharedObjects)
    BY MixedIds DEF OneEach, SharedObjects, SecretObjects, TelemeterSecret, DefaultSecret
  <1>3. \A a \in AlertmanagerObjects : \A o \in SharedObjects : Id(a) # Id(o)
    BY MixedIds DEF AlertmanagerObjects, SharedObjects, SecretObjects, TelemeterSecret,
                    DefaultSecret
  <1>4. \A o \in SharedObjects : Fits(e, o)
    BY MixedIds, SharedSheet, PlainFits, NamesOfWorkloads, MadeIds
    DEF Is, SharedObjects, SecretObjects, TelemeterSecret, DefaultSecret
  <1>5. /\ Fits(e, AlertmanagerAt(3)) /\ Fits(e, AlertmanagerAt(4)) /\ Fits(e, AlertmanagerRoute)
    BY MixedIds, AlertmanagerSheet, PlainFits, NamesOfWorkloads, MadeIds DEF Is
  <1>6. /\ Fits(e, AlertmanagerAt(1)) /\ Fits(e, SecuredService)
    BY MixedIds, AlertmanagerSheet, NamesOfWorkloads, ServicesAndWorkloads, MadeIds
    DEF Is, Fits, Tied, ReadsAreThere, SelectorOf
  <1>7. Fits(e, AlertmanagerAt(5))
    BY MixedIds, AlertmanagerSheet, NamesOfWorkloads, MadeIds
    DEF Is, Fits, Tied, ReadsAreThere, SelectorOf
  <1> QED
    BY <1>1, <1>2, <1>3, <1>4, <1>5, <1>6, <1>7 DEF OneEach, AlertmanagerObjects

LEMMA LocalSharedFits ==
  ASSUME NEW e
  PROVE  OneEach(LocalSharedObjects) /\ \A o \in LocalSharedObjects : Fits(e, o)
  <1>1. OneEach(LocalSharedObjects)
    BY MixedIds DEF OneEach, LocalSharedObjects, TelemeterSecret, DefaultSecret
  <1>2. \A o \in LocalSharedObjects : Fits(e, o)
    BY MixedIds, SharedSheet, PlainFits, NamesOfWorkloads, MadeIds
    DEF Is, LocalSharedObjects, TelemeterSecret, DefaultSecret
  <1> QED
    BY <1>1, <1>2

\* The objects of the gateway and of its cache, in any version.
LEMMA GatewaySheet ==
  ASSUME NEW v
  PROVE  /\ Is(gatewayRBAC, "ConfigMap", "observatorium-api", {}, {}, {}, {}, {})
         /\ Is(stageGatewayTenants, "Secret", "observatorium-api", {}, {}, {}, {}, {})
         /\ Is(gatewayDeployment(v), "Deployment", "observatorium-api",
               gatewayDeployment(v).refs, gatewayDeployment(v).reads, GatewaySelector,
               GatewaySelector \cup {<<"version", v.api>>}, {})
         /\ Is(createGatewayService(v), "Service", "observatorium-api", {}, {}, GatewaySelector,
               GatewaySelector \cup {<<"version", v.api>>},
               {"grpc-public", "internal", "public", "opa-ams-api", "opa-ams-metrics"})
         /\ Is(gatewayServiceMonitor(v), "ServiceMonitor", "rhobs-gateway",
               {<<"Service", "observatorium-api">>}, {}, GatewaySelector, {},
               {"internal", "opa-ams-metrics", "metrics"})
  <1>1. /\ gatewayLabels(v).selector = GatewaySelector
        /\ gatewayLabels(v).meta = GatewaySelector \cup {<<"version", v.api>>}
    BY DEF gatewayLabels
  <1>2. /\ Is(gatewayRBAC, "ConfigMap", "observatorium-api", {}, {}, {}, {}, {})
        /\ Is(stageGatewayTenants, "Secret", "observatorium-api", {}, {}, {}, {}, {})
    BY ObjIs DEF gatewayRBAC, stageGatewayTenants, gatewayName
  <1>3. Is(gatewayDeployment(v), "Deployment", "observatorium-api",
           gatewayDeployment(v).refs, gatewayDeployment(v).reads, GatewaySelector,
           GatewaySelector \cup {<<"version", v.api>>}, {})
    BY <1>1, WorkloadIs DEF gatewayDeployment, gatewayName, Is
  <1>4. Is(createGatewayService(v), "Service", "observatorium-api", {}, {}, GatewaySelector,
           GatewaySelector \cup {<<"version", v.api>>},
           {"grpc-public", "internal", "public", "opa-ams-api", "opa-ams-metrics"})
    BY <1>1, ServingIs DEF createGatewayService, gatewayName
  <1>5. Is(gatewayServiceMonitor(v), "ServiceMonitor", "rhobs-gateway",
           {<<"Service", "observatorium-api">>}, {}, GatewaySelector, {},
           {"internal", "opa-ams-metrics", "metrics"})
    BY <1>1, MonitoringIs DEF gatewayServiceMonitor, gatewayName
  <1> QED
    BY <1>2, <1>3, <1>4, <1>5

CacheLabels(v) == gatewayCache(v).Labels

LEMMA CacheSheet ==
  ASSUME NEW v
  PROVE  /\ Is(memcachedStatefulSet(gatewayCache(v)), "StatefulSet", "api-memcached",
               {<<"ServiceAccount", "api-memcached">>},
               memcachedStatefulSet(gatewayCache(v)).reads, CacheLabels(v), CacheLabels(v), {})
         /\ Is(createServiceAccount("api-memcached"), "ServiceAccount", "api-memcached",
               {}, {}, {}, {}, {})
         /\ Is(createCacheHeadlessService(gatewayCache(v)), "Service", "api-memcached",
               {}, {}, CacheLabels(v), CacheLabels(v), {"client", "metrics"})
         /\ Is(createCacheServiceMonitor(gatewayCache(v)), "ServiceMonitor", "api-memcached",
               {<<"Service", "api-memcached">>}, {}, CacheLabels(v), {}, {"metrics"})
  <1>1. gatewayCache(v).Name = "api-memcached" /\ gatewayCache(v).ServiceAccount = "api-memcached"
    BY DEF gatewayCache
  <1> QED
    BY <1>1, WorkloadIs, ObjIs, ServingIs, MonitoringIs
    DEF memcachedStatefulSet, createServiceAccount, createCacheHeadlessService,
        createCacheServiceMonitor, CacheLabels, Is

\* Their kinds and names, which are the same in every version.
LEMMA TargetIds ==
  ASSUME NEW v
  PROVE  /\ Id(gatewayRBAC) = <<"ConfigMap", "observatorium-api">>
         /\ Id(stageGatewayTenants) = <<"Secret", "observatorium-api">>
         /\ Id(gatewayDeployment(v)) = <<"Deployment", "observatorium-api">>
         /\ Id(createGatewayService(v)) = <<"Service", "observatorium-api">>
         /\ Id(gatewayServiceMonitor(v)) = <<"ServiceMonitor", "rhobs-gateway">>
         /\ Id(memcachedStatefulSet(gatewayCache(v))) = <<"StatefulSet", "api-memcached">>
         /\ Id(createServiceAccount("api-memcached")) = <<"ServiceAccount", "api-memcached">>
         /\ Id(createCacheHeadlessService(gatewayCache(v))) = <<"Service", "api-memcached">>
         /\ Id(createCacheServiceMonitor(gatewayCache(v))) = <<"ServiceMonitor", "api-memcached">>
  BY GatewaySheet, CacheSheet DEF Is, Id

\* They are of different names, and tied to what they need.
LEMMA GatewayFits ==
  ASSUME NEW v
  PROVE  OneEach(GatewayObjects(v)) /\ \A o \in GatewayObjects(v) : Fits("stage", o)
  <1>1. OneEach(GatewayObjects(v))
    BY TargetIds DEF OneEach, GatewayObjects
  <1>2. /\ Fits("stage", gatewayRBAC) /\ Fits("stage", stageGatewayTenants)
        /\ Fits("stage", gatewayServiceMonitor(v))
    <2>1. /\ gatewayRBAC.kind = "ConfigMap" /\ gatewayRBAC.reads = {}
          /\ stageGatewayTenants.kind = "Secret" /\ stageGatewayTenants.reads = {}
          /\ gatewayServiceMonitor(v).kind = "ServiceMonitor"
          /\ gatewayServiceMonitor(v).reads = {}
      BY GatewaySheet DEF Is
    <2>2. /\ Id(gatewayRBAC) = <<"ConfigMap", "observatorium-api">>
          /\ Id(stageGatewayTenants) = <<"Secret", "observatorium-api">>
          /\ Id(gatewayServiceMonitor(v)) = <<"ServiceMonitor", "rhobs-gateway">>
      BY TargetIds
    <2> QED
      BY <2>1, <2>2, PlainFits, NamesOfWorkloads, MadeIds
  <1>3. Fits("stage", gatewayDeployment(v))
    <2> DEFINE o == gatewayDeployment(v)
    <2>1. /\ o.kind = "Deployment" /\ o.selector = GatewaySelector
          /\ o.labels = GatewaySelector \cup {<<"version", v.api>>}
          /\ Id(o) = GatewayWorkload /\ ReadsAreThere("stage", o)
      BY GatewaySheet, TargetIds, TargetReads, NamesOfWorkloads DEF Is
    <2> HIDE DEF o
    <2>2. Id(o) \notin Ids(Made)
      BY <2>1, NamesOfWorkloads, MadeIds
    <2>3. Tied(o)
      BY <2>1, NamesOfWorkloads DEF Tied, SelectorOf
    <2> QED
      BY <2>1, <2>2, <2>3 DEF Fits, o
  <1>4. Fits("stage", createGatewayService(v))
    <2> DEFINE o == createGatewayService(v)
    <2>1. /\ o.kind = "Service" /\ o.name = "observatorium-api" /\ o.selector = GatewaySelector
          /\ Id(o) = <<"Service", "observatorium-api">> /\ o.reads = {}
      BY GatewaySheet, TargetIds DEF Is
    <2> HIDE DEF o
    <2>2. Id(o) \notin Ids(Made)
      BY <2>1, MadeIds
    <2>3. Tied(o)
      BY <2>1, NamesOfWorkloads, ServicesAndWorkloads DEF Tied, SelectorOf
    <2> QED
      BY <2>1, <2>2, <2>3 DEF Fits, o, ReadsAreThere
  <1> QED
    BY <1>1, <1>2, <1>3, <1>4 DEF GatewayObjects

LEMMA CacheFits ==
  ASSUME NEW v
  PROVE  OneEach(CacheObjects(v)) /\ \A o \in CacheObjects(v) : Fits("stage", o)
  <1>1. OneEach(CacheObjects(v))
    BY TargetIds DEF OneEach, CacheObjects
  <1>2. Fits("stage", createServiceAccount("api-memcached"))
        /\ Fits("stage", createCacheServiceMonitor(gatewayCache(v)))
    BY TargetIds, CacheSheet, PlainFits, NamesOfWorkloads, MadeIds DEF Is
  <1>3. Fits("stage", memcachedStatefulSet(gatewayCache(v)))
    BY TargetIds, CacheSheet, TargetReads, NamesOfWorkloads, MadeIds DEF Is, Fits, Tied
  <1>4. Fits("stage", createCacheHeadlessService(gatewayCache(v)))
    BY TargetIds, CacheSheet, NamesOfWorkloads, ServicesAndWorkloads, MadeIds
    DEF Is, Fits, Tied, ReadsAreThere
  <1> QED
    BY <1>1, <1>2, <1>3, <1>4 DEF CacheObjects

-----------------------------------------------------------------------------
(* Whatever the releases, an object of a group fits, and no group has two   *)
(* objects of a kind and name.                                              *)
GroupsAt(e, v) == IF e = "stage" THEN StageGroups[v] ELSE LocalGroups

\* Whatever is applied at once is of different names and tied to what it needs.
LEMMA GroupsFit ==
  ASSUME NEW e \in {"stage", "local"}, NEW v \in Versioned, NEW g \in GroupsAt(e, v)
  PROVE  OneEach(g) /\ \A o \in g : Fits(e, o)
  <1>1. g = Range(crds) => OneEach(g) /\ \A o \in g : Fits(e, o)
    BY DefinitionsFit
  <1>2. g \in {Range(operatorResources), LocalOperatorObjects} =>
           OneEach(g) /\ \A o \in g : Fits(e, o)
    BY OperatorFits, LocalOperatorFits
  <1>3. g \in {Range(StageCRs), Range(LocalCRs)} => OneEach(g) /\ \A o \in g : Fits(e, o)
    BY CustomFits
  <1>4. g \in {AlertmanagerObjects \cup SharedObjects, LocalSharedObjects} =>
           OneEach(g) /\ \A o \in g : Fits(e, o)
    BY MixedFits, LocalSharedFits
  <1>5. CASE e = "stage"
    <2>1. g = GatewayObjects(v) => OneEach(g) /\ \A o \in g : Fits(e, o)
      BY <1>5, GatewayFits
    <2>2. g = CacheObjects(v) => OneEach(g) /\ \A o \in g : Fits(e, o)
      BY <1>5, CacheFits
    <2>3. g \in StageGroups[v]
      BY <1>5 DEF GroupsAt
    <2> QED
      BY <1>1, <1>2, <1>3, <1>4, <2>1, <2>2, <2>3, StageGroupsAre
  <1>6. CASE e = "local"
    <2>1. g \in LocalGroups
      BY <1>6 DEF GroupsAt
    <2> QED
      BY <1>1, <1>2, <1>3, <1>4, <2>1, LocalGroupsAre
  <1> QED
    BY <1>5, <1>6

(* What a cluster can hold: the objects of some release, and what the       *)
(* operator makes.                                                          *)
Known(e, o) == o \in Made \/ \E v \in Versioned : \E g \in GroupsAt(e, v) : o \in g

\* So is whatever may ever be on the cluster.
LEMMA KnownFits ==
  ASSUME NEW e \in {"stage", "local"}, NEW o, Known(e, o)
  PROVE  /\ Tied(o) /\ ReadsAreThere(e, o)
         /\ o \in Made \/ Id(o) \notin Ids(Made)
  <1>1. CASE o \in Made
    BY <1>1, MadeIds DEF ReadsAreThere
  <1>2. CASE o \notin Made
    <2>1. PICK v \in Versioned : \E g \in GroupsAt(e, v) : o \in g
      BY <1>2 DEF Known
    <2>2. PICK g \in GroupsAt(e, v) : o \in g
      BY <2>1
    <2>3. Fits(e, o)
      BY <2>2, GroupsFit
    <2> QED
      BY <2>3 DEF Fits
  <1> QED
    BY <1>1, <1>2

\* What is made of one kind is among all that is made.
LEMMA MadeIsKnown ==
  ASSUME NEW kind
  PROVE  MadeOf(kind) \subseteq Made
  <1>1. CASE kind \in {"ThanosQuery", "ThanosReceive", "Service"}
    BY <1>1, Zenon DEF Made
  <1>2. CASE kind \notin {"ThanosQuery", "ThanosReceive", "Service"}
    BY <1>2, MadeAre
  <1> QED
    BY <1>1, <1>2

-----------------------------------------------------------------------------
(* The inductive invariant: what is live is known, and one of each; the     *)
(* pods of every workload but the cache have what its selector asks for, of *)
(* whatever release they are; those of the cache have the labels of the     *)
(* StatefulSet that is live, as the cluster has refused every other.        *)
FixedPods ==
    \A w \in FixedWorkloads : \A labels \in pods[w] : SelectorOf(w) \subseteq labels

CachePods ==
    /\ pods[CacheWorkload] # {} => \E o \in live : Id(o) = CacheWorkload
    /\ \A o \in live : Id(o) = CacheWorkload => pods[CacheWorkload] \subseteq {o.labels}

RolloutInv ==
    /\ env \in {"stage", "local"} /\ tags \in Versioned /\ rendered \in Versioned
    /\ DOMAIN pods = Workloads /\ provided \in BOOLEAN
    /\ OneEach(live) /\ \A o \in live : Known(env, o)
    /\ FixedPods /\ CachePods

\* The empty cluster satisfies the invariant.
LEMMA InitRollout == ClusterInit => RolloutInv
  <1> SUFFICES ASSUME ClusterInit PROVE RolloutInv
    OBVIOUS
  <1>1. tags \in Versioned /\ rendered \in Versioned
    BY ReleasesAssumption DEF ClusterInit, Versioned
  <1> QED
    BY <1>1, NamesOfWorkloads
    DEF ClusterInit, RolloutInv, OneEach, FixedPods, CachePods

(* Releasing an image and rendering files leave the cluster alone.          *)
LEMMA ReleaseRollout ==
  ASSUME RolloutInv, NEW image \in {"api", "memcached"}, Release(image) \/ Mage(image)
  PROVE  RolloutInv'
  <1>1. tags' \in Versioned /\ rendered' \in Versioned
    BY ReleasesAssumption DEF RolloutInv, Release, Mage, Versioned
  <1>2. UNCHANGED <<env, live, pods, provided>>
    BY DEF Release, Mage
  <1> QED
    BY <1>1, <1>2 DEF RolloutInv, FixedPods, CachePods

\* What is to be applied is of the version that was rendered.
LEMMA GroupsAreOfVersion ==
  ASSUME RolloutInv, NEW g \in Groups
  PROVE  g \in GroupsAt(env, rendered)
  BY DEF Groups, GroupsAt

(* What is applied replaces what it names; an object of a workload is only  *)
(* replaced by one with the same selector.                                  *)
LEMMA AppliedIs ==
  ASSUME NEW objs
  PROVE  /\ \A o \in Applied(objs) :
               o \in live \/ (o \in objs /\ Accepts(o) /\ Homed(o, objs))
         /\ \A o \in live : o \in Applied(objs)
                               \/ \E new \in Applied(objs) : Id(new) = Id(o)
         /\ OneEach(live) /\ OneEach(objs) => OneEach(Applied(objs))
  <1> DEFINE news == {o \in objs \ live : Accepts(o) /\ Homed(o, objs)}
             kept == {o \in live : Id(o) \notin Ids(news)}
  <1>1. Applied(objs) = IF news = {} THEN live ELSE kept \cup news
    BY DEF Applied
  <1>2. ASSUME NEW o \in live, o \notin kept
        PROVE  \E new \in news : Id(new) = Id(o)
    BY <1>2 DEF Ids
  <1>3. ASSUME NEW a \in kept, NEW b \in news
        PROVE  Id(a) # Id(b)
    BY <1>3 DEF Ids
  <1>4. kept \subseteq live /\ news \subseteq objs /\ \A o \in news : Accepts(o) /\ Homed(o, objs)
    OBVIOUS
  <1> HIDE DEF news, kept
  <1> QED
    BY <1>1, <1>2, <1>3, <1>4 DEF OneEach

\* Applying a group keeps the invariant.
LEMMA ApplyRollout ==
  ASSUME RolloutInv, NEW g \in Groups, Apply(g)
  PROVE  RolloutInv'
  <1>1. live' = Applied(g) /\ UNCHANGED <<env, tags, rendered, pods, provided>>
    BY DEF Apply
  <1>2. OneEach(g) /\ \A o \in g : Known(env, o)
    BY GroupsAreOfVersion, GroupsFit DEF RolloutInv, Known
  <1>3. OneEach(live') /\ \A o \in live' : Known(env, o)
    BY <1>1, <1>2, AppliedIs DEF RolloutInv
  <1>4. CachePods'
    <2>1. ASSUME NEW o \in live', Id(o) = CacheWorkload
          PROVE  pods[CacheWorkload] \subseteq {o.labels}
      <3>1. CASE o \in live
        BY <2>1, <3>1 DEF RolloutInv, CachePods
      <3>2. CASE o \notin live /\ pods[CacheWorkload] # {}
        <4>1. Accepts(o)
          BY <1>1, <3>2, AppliedIs
        <4>2. PICK old \in live : Id(old) = CacheWorkload
          BY <3>2 DEF RolloutInv, CachePods
        <4>3. old.selector = o.selector
          BY <2>1, <4>1, <4>2, NamesOfWorkloads DEF Accepts
        <4>4. o.labels = o.selector /\ old.labels = old.selector
          BY <1>3, <2>1, <4>2, KnownFits DEF RolloutInv, Tied
        <4>5. pods[CacheWorkload] \subseteq {old.labels}
          BY <4>2 DEF RolloutInv, CachePods
        <4> QED
          BY <4>3, <4>4, <4>5
      <3> QED
        BY <3>1, <3>2
    <2>2. ASSUME pods[CacheWorkload] # {}
          PROVE  \E o \in live' : Id(o) = CacheWorkload
      BY <1>1, <2>2, AppliedIs DEF RolloutInv, CachePods
    <2> QED
      BY <1>1, <2>1, <2>2 DEF CachePods
  <1>5. FixedPods'
    BY <1>1 DEF RolloutInv, FixedPods
  <1> QED
    BY <1>1, <1>3, <1>4, <1>5 DEF RolloutInv

(* Pods are started with the labels of the object that asks for them.       *)
LEMMA PodsRollout ==
  ASSUME RolloutInv, NEW w \in live, StartPods(w) \/ RetirePods(w)
  PROVE  RolloutInv'
  <1>1. /\ Id(w) \in Workloads /\ UNCHANGED <<env, tags, rendered, live, provided>>
        /\ DOMAIN pods' = DOMAIN pods
        /\ \A v \in Workloads \ {Id(w)} : pods'[v] = pods[v]
        /\ pods'[Id(w)] \subseteq pods[Id(w)] \cup {w.labels}
    BY DEF StartPods, RetirePods, Outdated, RolloutInv
  <1>2. Tied(w)
    BY KnownFits DEF RolloutInv
  <1>3. FixedPods'
    <2> SUFFICES ASSUME NEW v \in FixedWorkloads, NEW labels \in pods'[v]
                 PROVE  SelectorOf(v) \subseteq labels
      BY DEF FixedPods
    <2>1. labels \in pods[v] => SelectorOf(v) \subseteq labels
      BY DEF RolloutInv, FixedPods
    <2>2. v \in Workloads
      BY DEF FixedWorkloads
    <2>3. labels \notin pods[v] => v = Id(w) /\ labels = w.labels
      BY <1>1, <2>2
    <2> QED
      BY <1>2, <2>1, <2>3 DEF Tied
  <1>4. CachePods'
    <2>1. CASE Id(w) = CacheWorkload
      <3>1. \A o \in live : Id(o) = CacheWorkload => o = w
        BY <2>1 DEF RolloutInv, OneEach
      <3>2. pods'[CacheWorkload] \subseteq {w.labels}
        BY <1>1, <2>1 DEF RolloutInv, CachePods
      <3> QED
        BY <1>1, <2>1, <3>1, <3>2 DEF CachePods
    <2>2. CASE Id(w) # CacheWorkload
      <3>1. pods'[CacheWorkload] = pods[CacheWorkload]
        BY <1>1, <2>2, NamesOfWorkloads
      <3> QED
        BY <1>1, <3>1 DEF RolloutInv, CachePods
    <2> QED
      BY <2>1, <2>2
  <1> QED
    BY <1>1, <1>3, <1>4 DEF RolloutInv

(* What the operator makes has names of its own, so that it replaces        *)
(* nothing.                                                                 *)
LEMMA ReconcileRollout ==
  ASSUME RolloutInv, NEW o \in live, Reconcile(o)
  PROVE  RolloutInv'
  <1>1. live' = live \cup MadeOf(o.kind) /\ UNCHANGED <<env, tags, rendered, pods, provided>>
    BY DEF Reconcile
  <1>2. MadeOf(o.kind) \subseteq Made
    BY MadeIsKnown
  <1>3. \A x \in live' : Known(env, x)
    BY <1>1, <1>2 DEF RolloutInv, Known
  <1>4. OneEach(live')
    <2>1. ASSUME NEW a \in live, NEW b \in Made, Id(a) = Id(b) PROVE a = b
      <3>1. a \in Made
        BY <2>1, KnownFits DEF RolloutInv, Ids
      <3> QED
        BY <2>1, <3>1, MadeIds DEF OneEach
    <2> QED
      BY <1>1, <1>2, <2>1, MadeIds DEF RolloutInv, OneEach
  <1>5. \A x \in Made : Id(x) # CacheWorkload
    BY MadeIds, NamesOfWorkloads DEF Ids
  <1>6. FixedPods' /\ CachePods'
    BY <1>1, <1>2, <1>5 DEF RolloutInv, FixedPods, CachePods
  <1> QED
    BY <1>1, <1>3, <1>4, <1>6 DEF RolloutInv

(* Every state of a cluster, whatever the number of releases, satisfies the *)
(* invariant (ClusterInit and each step of RolloutNext).                    *)
THEOREM RolloutInvariant == RolloutSpec => []RolloutInv
  <1>1. ClusterInit => RolloutInv
    BY InitRollout
  <1>2. RolloutInv /\ [RolloutNext]_clusterVars => RolloutInv'
    <2> SUFFICES ASSUME RolloutInv, [RolloutNext]_clusterVars PROVE RolloutInv'
      OBVIOUS
    <2>1. CASE \E image \in {"api", "memcached"} : Release(image) \/ Mage(image)
      BY <2>1, ReleaseRollout
    <2>2. CASE ApplyAny
      BY <2>2, ApplyRollout DEF ApplyAny
    <2>3. CASE RollAny
      BY <2>3, PodsRollout DEF RollAny
    <2>4. CASE ReconcileAny
      BY <2>4, ReconcileRollout DEF ReconcileAny
    <2>5. CASE Provide
      BY <2>5 DEF Provide, RolloutInv, FixedPods, CachePods
    <2>6. CASE UNCHANGED clusterVars
      BY <2>6 DEF clusterVars, RolloutInv, FixedPods, CachePods
    <2> QED
      BY <2>1, <2>2, <2>3, <2>4, <2>5, <2>6 DEF RolloutNext
  <1> QED
    BY <1>1, <1>2, PTL DEF RolloutSpec

(* A cluster never holds two objects of a kind and name, whatever is        *)
(* applied in whatever order (the lists of magefiles/).                     *)
THEOREM ClusterTypes == RolloutSpec => []ClusterTypeOK
  <1>1. RolloutInv => ClusterTypeOK
    BY DEF RolloutInv, ClusterTypeOK, OneEach
  <1> QED
    BY <1>1, RolloutInvariant, PTL

(* While pods run behind a service it finds some, but for the cache's after *)
(* a release (gateway.go:81, cache.go:123-129).                             *)
THEOREM OnlyTheCacheLosesItsPods == RolloutSpec => []OnlyTheCacheGoesDark
  <1>1. RolloutInv => OnlyTheCacheGoesDark
    <2> SUFFICES ASSUME RolloutInv, NEW s \in OfKind({"Service"}),
                        s.name \in DOMAIN ServedBy, Dark(s)
                 PROVE  /\ ServedBy[s.name] = CacheWorkload
                        /\ \A o \in live : Id(o) = CacheWorkload => o.selector # s.selector
      BY DEF OnlyTheCacheGoesDark
    <2> DEFINE w == ServedBy[s.name]
    <2>1. s \in live /\ s.kind = "Service" /\ Tied(s) /\ w \in Workloads
      BY KnownFits, ServicesAndWorkloads, NamesOfWorkloads DEF OfKind, RolloutInv
    <2>2. PICK labels \in pods[w] : ~ (s.selector \subseteq labels)
      BY DEF Dark, Finds
    <2>3. w = CacheWorkload
      <3> SUFFICES ASSUME w # CacheWorkload PROVE FALSE
        OBVIOUS
      <3>1. s.selector = SelectorOf(w)
        BY <2>1 DEF Tied
      <3>2. w \in FixedWorkloads
        BY <2>1 DEF FixedWorkloads
      <3> QED
        BY <2>2, <3>1, <3>2 DEF RolloutInv, FixedPods
    <2>4. ASSUME NEW o \in live, Id(o) = CacheWorkload PROVE o.selector # s.selector
      <3>1. labels = o.labels
        BY <2>2, <2>3, <2>4 DEF RolloutInv, CachePods
      <3>2. o.labels = o.selector
        BY <2>4, KnownFits DEF RolloutInv, Tied
      <3> QED
        BY <2>2, <3>1, <3>2
    <2> QED
      BY <2>3, <2>4
  <1> QED
    BY <1>1, RolloutInvariant, PTL

(* Nothing on a cluster was rendered from an entry that the tables of its   *)
(* environment lack (template.go, TemplateFn).                              *)
THEOREM EveryEntryIsThere == RolloutSpec => []NothingIsMissing
  <1>1. RolloutInv => NothingIsMissing
    BY KnownFits DEF RolloutInv, NothingIsMissing, ReadsAreThere
  <1> QED
    BY <1>1, RolloutInvariant, PTL

-----------------------------------------------------------------------------
(* The objects of some kinds that a cluster can hold.                       *)
LEMMA KindsOfFiles ==
    /\ \A o \in Range(crds) : o.kind = "CustomResourceDefinition"
    /\ \A o \in Range(operatorResources) :
          \/ o.kind \in {"ServiceAccount", "Role", "ClusterRole", "RoleBinding",
                         "ClusterRoleBinding", "Service"}
          \/ o = OperatorDeployment /\ o.kind = "Deployment"
    /\ \A o \in Range(StageCRs) \cup Range(LocalCRs) :
          \/ o.kind \in {"ThanosReceive", "Route", "ThanosQuery", "ThanosCompact", "ThanosStore"}
          \/ o = rulerCR /\ o.kind = "ThanosRuler"
    /\ \A o \in AlertmanagerObjects :
          \/ o.kind \in {"Service", "ServiceAccount", "Route"}
          \/ o = AlertmanagerAt(4) /\ o.kind = "ServiceMonitor"
          \/ o = AlertmanagerAt(5) /\ o.kind = "StatefulSet"
    /\ \A o \in SharedAt("stage") \cup SharedAt("local") :
          \/ o.kind \in {"PrometheusRule", "Secret", "Namespace"}
          \/ o = OperatorMonitor /\ o.kind = "ServiceMonitor"
    /\ \A o \in Made : o.kind \in {"Service", "ServiceAccount", "Secret"}
  <1>1. \A o \in Range(crds) : o.kind = "CustomResourceDefinition"
    BY DefinitionList, ObjIs DEF Is
  <1>2. \A o \in UserObjects : o.kind = "ClusterRole"
    BY UserSheet
  <1>3. \A o \in ManagerObjects :
          \/ o.kind \in {"ServiceAccount", "Role", "ClusterRole", "RoleBinding",
                         "ClusterRoleBinding", "Service"}
          \/ o = OperatorDeployment /\ o.kind = "Deployment"
    BY ManagerSheet DEF Is, ManagerObjects
  <1>4. \A o \in Range(StageCRs) \cup Range(LocalCRs) :
          \/ o.kind \in {"ThanosReceive", "Route", "ThanosQuery", "ThanosCompact", "ThanosStore"}
          \/ o = rulerCR /\ o.kind = "ThanosRuler"
    BY CustomResourceLists, StoreSheet, CompactSheet, ReceiveSheet, RulerSheet, QuerySheet
    DEF Is, StoreObjects
  <1>5. \A o \in AlertmanagerObjects :
          \/ o.kind \in {"Service", "ServiceAccount", "Route"}
          \/ o = AlertmanagerAt(4) /\ o.kind = "ServiceMonitor"
          \/ o = AlertmanagerAt(5) /\ o.kind = "StatefulSet"
    BY AlertmanagerSheet DEF Is, AlertmanagerObjects
  <1>6. \A o \in SharedAt("stage") \cup SharedAt("local") :
          \/ o.kind \in {"PrometheusRule", "Secret", "Namespace"}
          \/ o = OperatorMonitor /\ o.kind = "ServiceMonitor"
    BY SharedSheet, NamespaceSheet
    DEF Is, SharedAt, SharedObjects, SecretObjects, LocalSharedObjects
  <1>7. ASSUME NEW o \in Made PROVE o.kind \in {"Service", "ServiceAccount", "Secret"}
    <2>1. Id(o) \in Ids(Made) /\ Id(o)[1] = o.kind
      BY DEF Ids, Id
    <2> QED
      BY <2>1, MadeIds
  <1> QED
    BY <1>1, <1>2, <1>3, <1>4, <1>5, <1>6, <1>7, OperatorList

\* Which objects of the targets are workloads, monitors or services.
LEMMA KindsOfTargets ==
  ASSUME NEW v
  PROVE  /\ \A o \in GatewayObjects(v) :
               \/ o.kind \in {"ConfigMap", "Secret", "Service"}
               \/ o = gatewayDeployment(v) /\ o.kind = "Deployment"
               \/ o = gatewayServiceMonitor(v) /\ o.kind = "ServiceMonitor"
         /\ \A o \in CacheObjects(v) :
               \/ o.kind \in {"ServiceAccount", "Service"}
               \/ o = memcachedStatefulSet(gatewayCache(v)) /\ o.kind = "StatefulSet"
               \/ o = createCacheServiceMonitor(gatewayCache(v)) /\ o.kind = "ServiceMonitor"
  <1>1. /\ gatewayRBAC.kind = "ConfigMap" /\ stageGatewayTenants.kind = "Secret"
        /\ gatewayDeployment(v).kind = "Deployment" /\ createGatewayService(v).kind = "Service"
        /\ gatewayServiceMonitor(v).kind = "ServiceMonitor"
    BY GatewaySheet DEF Is
  <1>2. /\ memcachedStatefulSet(gatewayCache(v)).kind = "StatefulSet"
        /\ createServiceAccount("api-memcached").kind = "ServiceAccount"
        /\ createCacheHeadlessService(gatewayCache(v)).kind = "Service"
        /\ createCacheServiceMonitor(gatewayCache(v)).kind = "ServiceMonitor"
    BY CacheSheet DEF Is
  <1> QED
    BY <1>1, <1>2 DEF GatewayObjects, CacheObjects

(* The file that a known object is of.                                      *)
LEMMA KnownIs ==
  ASSUME NEW e \in {"stage", "local"}, NEW o, Known(e, o)
  PROVE  \/ o \in Made \cup Range(crds) \cup Range(operatorResources) \cup SharedAt(e)
         \/ /\ e = "stage"
            /\ \/ o \in Range(StageCRs) \cup AlertmanagerObjects
               \/ \E v \in Versioned : o \in GatewayObjects(v) \cup CacheObjects(v)
         \/ e = "local" /\ o \in Range(LocalCRs)
  <1> SUFFICES ASSUME o \notin Made
               PROVE  \/ o \in Range(crds) \cup Range(operatorResources) \cup SharedAt(e)
                      \/ /\ e = "stage"
                         /\ \/ o \in Range(StageCRs) \cup AlertmanagerObjects
                            \/ \E v \in Versioned : o \in GatewayObjects(v) \cup CacheObjects(v)
                      \/ e = "local" /\ o \in Range(LocalCRs)
    OBVIOUS
  <1>1. PICK v \in Versioned : \E g \in GroupsAt(e, v) : o \in g
    BY DEF Known
  <1>2. PICK g \in GroupsAt(e, v) : o \in g
    BY <1>1
  <1>3. CASE e = "stage"
    <2>1. g \in {Range(crds), Range(operatorResources), Range(StageCRs),
                 AlertmanagerObjects \cup SharedObjects, GatewayObjects(v), CacheObjects(v)}
      BY <1>3, StageGroupsAre DEF GroupsAt
    <2> QED
      BY <1>2, <1>3, <2>1 DEF SharedAt
  <1>4. CASE e = "local"
    <2>1. g \in {Range(crds), LocalOperatorObjects, Range(LocalCRs), LocalSharedObjects}
      BY <1>4, LocalGroupsAre DEF GroupsAt
    <2> QED
      BY <1>2, <1>4, <2>1 DEF SharedAt, LocalOperatorObjects
  <1> QED
    BY <1>3, <1>4

\* Which of the objects that may be on the cluster are of these kinds.
LEMMA KnownOfKind ==
  ASSUME NEW e \in {"stage", "local"}, NEW o, Known(e, o)
  PROVE  /\ o.kind = "Deployment" =>
               \/ o = OperatorDeployment
               \/ e = "stage" /\ \E v \in Versioned : o = gatewayDeployment(v)
         /\ o.kind = "StatefulSet" =>
               /\ e = "stage"
               /\ \/ o = AlertmanagerAt(5)
                  \/ \E v \in Versioned : o = memcachedStatefulSet(gatewayCache(v))
         /\ o.kind = "ServiceMonitor" =>
               \/ o = OperatorMonitor
               \/ /\ e = "stage"
                  /\ \/ o = AlertmanagerAt(4)
                     \/ \E v \in Versioned : \/ o = gatewayServiceMonitor(v)
                                             \/ o = createCacheServiceMonitor(gatewayCache(v))
         /\ o.kind = "ThanosRuler" => o = rulerCR
  <1>1. CASE o \in Made \cup Range(crds) \cup Range(operatorResources) \cup SharedAt(e)
    BY <1>1, KindsOfFiles
  <1>2. CASE e = "stage" /\ o \in Range(StageCRs) \cup AlertmanagerObjects
    BY <1>2, KindsOfFiles
  <1>3. CASE e = "stage" /\ \E v \in Versioned : o \in GatewayObjects(v) \cup CacheObjects(v)
    BY <1>3, KindsOfTargets
  <1>4. CASE o \in Range(LocalCRs)
    BY <1>4, KindsOfFiles
  <1> QED
    BY <1>1, <1>2, <1>3, <1>4, KnownIs

-----------------------------------------------------------------------------
(* The kinds and names of what the targets of an environment generate; they *)
(* are the same in every release.                                           *)
GatewayIds ==
    {<<"ConfigMap", "observatorium-api">>, <<"Secret", "observatorium-api">>,
     <<"Deployment", "observatorium-api">>, <<"Service", "observatorium-api">>,
     <<"ServiceMonitor", "rhobs-gateway">>}
CacheIds ==
    {<<"StatefulSet", "api-memcached">>, <<"ServiceAccount", "api-memcached">>,
     <<"Service", "api-memcached">>, <<"ServiceMonitor", "api-memcached">>}
ShippedIds(e) ==
    Ids(Range(crds)) \cup Ids(Range(operatorResources)) \cup Ids(SharedAt(e)) \cup
    (IF e = "stage"
     THEN Ids(Range(StageCRs)) \cup Ids(AlertmanagerObjects) \cup GatewayIds \cup CacheIds
     ELSE Ids(Range(LocalCRs)))

\* The kinds and names that the targets ship.
LEMMA IdsOfTargets ==
  ASSUME NEW v
  PROVE  Ids(GatewayObjects(v)) = GatewayIds /\ Ids(CacheObjects(v)) = CacheIds
  <1>1. Ids(GatewayObjects(v)) = GatewayIds
    BY TargetIds DEF Ids, GatewayObjects, GatewayIds
  <1>2. Ids(CacheObjects(v)) = CacheIds
    BY TargetIds DEF Ids, CacheObjects, CacheIds
  <1> QED
    BY <1>1, <1>2

\* What is shipped is in some group, whatever the version.
LEMMA ShippedIsInGroups ==
  ASSUME NEW e \in {"stage", "local"}, NEW v \in Versioned, NEW id \in ShippedIds(e)
  PROVE  \E g \in GroupsAt(e, v) : \E o \in g : Id(o) = id
  <1>1. CASE e = "stage"
    <2>1. /\ Range(crds) \in GroupsAt(e, v) /\ Range(operatorResources) \in GroupsAt(e, v)
          /\ Range(StageCRs) \in GroupsAt(e, v)
          /\ AlertmanagerObjects \cup SharedObjects \in GroupsAt(e, v)
          /\ GatewayObjects(v) \in GroupsAt(e, v) /\ CacheObjects(v) \in GroupsAt(e, v)
      BY <1>1, StageGroupsAre DEF GroupsAt
    <2>2. \/ id \in Ids(Range(crds)) \/ id \in Ids(Range(operatorResources))
          \/ id \in Ids(Range(StageCRs)) \/ id \in Ids(AlertmanagerObjects \cup SharedObjects)
          \/ id \in Ids(GatewayObjects(v)) \/ id \in Ids(CacheObjects(v))
      BY <1>1, IdsOfTargets DEF ShippedIds, Ids, SharedAt
    <2> QED
      BY <2>1, <2>2 DEF Ids
  <1>2. CASE e = "local"
    <2>1. /\ Range(crds) \in GroupsAt(e, v) /\ LocalOperatorObjects \in GroupsAt(e, v)
          /\ Range(LocalCRs) \in GroupsAt(e, v) /\ LocalSharedObjects \in GroupsAt(e, v)
      BY <1>2, LocalGroupsAre DEF GroupsAt
    <2>2. \/ id \in Ids(Range(crds)) \/ id \in Ids(LocalOperatorObjects)
          \/ id \in Ids(Range(LocalCRs)) \/ id \in Ids(LocalSharedObjects)
      BY <1>2 DEF ShippedIds, SharedAt, LocalOperatorObjects, Ids
    <2> QED
      BY <2>1, <2>2 DEF Ids
  <1> QED
    BY <1>1, <1>2

-----------------------------------------------------------------------------
(* What objects refer to: to each other, to what the operator makes in that *)
(* environment, or to what nothing generates.                               *)
MadeAt(e) == IF e = "stage" THEN Made ELSE MadeOf("ThanosQuery") \cup MadeOf("ThanosReceive")

Reachable(e) == (ShippedIds(e) \cup Ids(MadeAt(e))) \cup NotShipped[e]

\* What other objects refer to and some target ships.
LEMMA SomeShipped ==
  ASSUME NEW e \in {"stage", "local"}
  PROVE  /\ Definitions \subseteq ShippedIds(e)
         /\ Manager \in ShippedIds(e)
         /\ Id(LeaderElectionRole) \in ShippedIds(e) /\ Id(ManagerRole) \in ShippedIds(e)
         /\ Id(ProxyRole) \in ShippedIds(e) /\ Id(MetricsService) \in ShippedIds(e)
         /\ Id(OperatorDeployment) \in ShippedIds(e) /\ Id(ManagerBinding) \in ShippedIds(e)
         /\ TelemeterSecret \in ShippedIds(e) /\ DefaultSecret \in ShippedIds(e)
         /\ Id(TelemeterRule) \in ShippedIds(e)
         /\ Id(receiveCR) \in ShippedIds(e) /\ Id(rulerCR) \in ShippedIds(e)
         /\ <<"ThanosQuery", "rhobs">> \in ShippedIds(e)
  <1>1. Definitions \subseteq Ids(Range(crds))
    <2>1. ASSUME NEW i \in 1 .. 5
          PROVE  <<"CustomResourceDefinition", CRDKinds[i]>> \in Ids(Range(crds))
      <3>1. Obj("CustomResourceDefinition", CRDKinds[i], {}) \in Range(crds)
        BY DefinitionList
      <3> QED
        BY <3>1, IdOf DEF Ids
    <2>2. \A k \in Range(CRDKinds) : \E i \in 1 .. 5 : k = CRDKinds[i]
      BY DefinitionNames
    <2> QED
      BY <2>1, <2>2 DEF Definitions
  <1>2. Manager = Id(OperatorAccount)
    BY ManagerSheet DEF Manager, Is, Id
  <1>3. {OperatorAccount, LeaderElectionRole, ManagerRole, ProxyRole, MetricsService,
         OperatorDeployment, ManagerBinding} \subseteq Range(operatorResources)
    BY OperatorList DEF ManagerObjects
  <1>4. TelemeterSecret \in Ids(SharedAt(e)) /\ DefaultSecret \in Ids(SharedAt(e))
        /\ Id(TelemeterRule) \in Ids(SharedAt(e))
    BY MixedIds DEF Ids, SharedAt, SharedObjects, SecretObjects, LocalSharedObjects
  <1>5. /\ {receiveCR, rulerCR, StageQuery} \subseteq Range(StageCRs)
        /\ {receiveCR, rulerCR, LocalQuery} \subseteq Range(LocalCRs)
    BY CustomResourceLists
  <1> QED
    BY <1>1, <1>2, <1>3, <1>4, <1>5, CustomIds DEF ShippedIds, Ids

LEMMA SomeOnStage ==
    /\ <<"Route", "thanos-query-frontend-rhobs">> \in ShippedIds("stage")
    /\ <<"Service", "alertmanager-cluster">> \in ShippedIds("stage")
    /\ <<"Service", "alertmanager">> \in ShippedIds("stage")
    /\ <<"ServiceAccount", "alertmanager">> \in ShippedIds("stage")
    /\ <<"StatefulSet", "alertmanager">> \in ShippedIds("stage")
    /\ GatewayIds \subseteq ShippedIds("stage") /\ CacheIds \subseteq ShippedIds("stage")
  <1>1. <<"Route", "thanos-query-frontend-rhobs">> \in Ids(Range(StageCRs))
    BY CustomIds, CustomResourceLists DEF Ids
  <1>2. /\ <<"Service", "alertmanager-cluster">> \in Ids(AlertmanagerObjects)
        /\ <<"Service", "alertmanager">> \in Ids(AlertmanagerObjects)
        /\ <<"ServiceAccount", "alertmanager">> \in Ids(AlertmanagerObjects)
        /\ <<"StatefulSet", "alertmanager">> \in Ids(AlertmanagerObjects)
    BY MixedIds DEF Ids, AlertmanagerObjects
  <1> QED
    BY <1>1, <1>2 DEF ShippedIds

\* What the operators make in each environment.
LEMMA IdsOfMade ==
    /\ Ids(MadeAt("stage")) = Ids(Made)
    /\ Ids(MadeAt("local")) = {<<"Service", "thanos-query-frontend-rhobs">>,
                               <<"ServiceAccount", "thanos-query-frontend-rhobs">>,
                               <<"Secret", "query-frontend-tls">>,
                               <<"Service", "thanos-receive-router-rhobs">>}
  <1>1. MadeAt("local") = {Obj("Service", "thanos-query-frontend-rhobs", {}),
                           Obj("ServiceAccount", "thanos-query-frontend-rhobs", {}),
                           Obj("Secret", "query-frontend-tls", {}),
                           Obj("Service", "thanos-receive-router-rhobs", {})}
    BY MadeAre DEF MadeAt
  <1> QED
    BY <1>1, IdOf DEF MadeAt, Ids

\* What nobody ships.
LEMMA NotShippedAre ==
    /\ NotShipped["stage"] = {<<"ServiceAccount", "observatorium-api">>,
                              <<"Secret", "alertmanager-config">>,
                              <<"Service", "otel-trace-writer-collector-headless">>}
    /\ NotShipped["local"] = {<<"Service", "alertmanager-cluster">>,
                              <<"Service", "otel-trace-writer-collector-headless">>,
                              <<"Service", "minio">>}
    /\ Collector = {<<"Service", "otel-trace-writer-collector-headless">>}
    /\ Minio = {<<"Service", "minio">>}
  BY DEF NotShipped, Collector, Minio, gatewayName

\* Each kind of custom resource has its definition.
LEMMA DefinitionOf ==
  ASSUME NEW kind \in DOMAIN PluralOf
  PROVE  Definition(kind) \in Definitions
  BY DefinitionNames DEF Definition, Definitions, PluralOf

LEMMA ThanosKinds ==
    DOMAIN PluralOf = {"ThanosCompact", "ThanosQuery", "ThanosReceive", "ThanosRuler", "ThanosStore"}
  BY DEF PluralOf

\* What an object refers to is shipped, made or one of those nobody ships.
LEMMA CRRefsReachable ==
  ASSUME NEW e \in {"stage", "local"}, NEW kind \in DOMAIN PluralOf,
         NEW secrets \in SUBSET {TelemeterSecret, DefaultSecret}
  PROVE  CRRefs(kind, secrets) \subseteq Reachable(e)
  <1>1. secrets \subseteq ShippedIds(e)
    BY SomeShipped
  <1>2. Definition(kind) \in ShippedIds(e)
    BY DefinitionOf, SomeShipped
  <1>3. Collector \subseteq NotShipped[e]
    BY NotShippedAre
  <1> QED
    BY <1>1, <1>2, <1>3 DEF CRRefs, Reachable

(* The references of the operator's own objects, and of the objects of both *)
(* environments.                                                            *)
LEMMA OperatorRefs ==
  ASSUME NEW e \in {"stage", "local"},
         NEW o \in Range(crds) \cup Range(operatorResources) \cup SharedAt(e)
  PROVE  o.refs \subseteq Reachable(e)
  <1>1. CASE o \in Range(crds)
    <2>1. o.refs = {}
      BY <1>1, DefinitionList, ObjIs DEF Is
    <2> QED
      BY <2>1
  <1>2. CASE o \in UserObjects
    BY <1>2, UserSheet, SomeShipped DEF Reachable
  <1>3. CASE o \in ManagerObjects
    <2>1. o.refs \subseteq Definitions \cup {Manager, Id(LeaderElectionRole), Id(ManagerRole),
                                             Id(ProxyRole)}
      BY <1>3, ManagerSheet DEF Is, ManagerObjects
    <2> QED
      BY <2>1, SomeShipped DEF Reachable
  <1>4. CASE o \in SharedAt(e)
    <2>1. Id(MetricsService) = <<"Service", "thanos-operator-controller-manager-metrics-service">>
      BY ManagerSheet DEF Is, Id
    <2>2. CASE e = "stage"
      <3>1. o.refs \subseteq {Id(MetricsService)}
        BY <1>4, <2>1, <2>2, SharedSheet DEF Is, SharedAt, SharedObjects, SecretObjects
      <3> QED
        BY <3>1, SomeShipped DEF Reachable
    <2>3. CASE e = "local"
      <3>1. o.refs \subseteq {Id(MetricsService)} \cup Minio
        BY <1>4, <2>1, <2>3, SharedSheet, NamespaceSheet DEF Is, SharedAt, LocalSharedObjects
      <3>2. Minio \subseteq NotShipped[e]
        BY <2>3, NotShippedAre
      <3> QED
        BY <3>1, <3>2, SomeShipped DEF Reachable
    <2> QED
      BY <2>2, <2>3
  <1> QED
    BY <1>1, <1>2, <1>3, <1>4, OperatorList

LEMMA CustomRefs ==
  ASSUME NEW e \in {"stage", "local"},
         NEW o \in IF e = "stage" THEN Range(StageCRs) ELSE Range(LocalCRs)
  PROVE  o.refs \subseteq Reachable(e)
  <1>1. o \in StoreObjects => o.refs \subseteq Reachable(e)
    BY StoreSheet, CRRefsReachable, ThanosKinds DEF Is, StoreObjects
  <1>2. o = receiveCR => o.refs \subseteq Reachable(e)
    BY ReceiveSheet, CRRefsReachable, ThanosKinds DEF Is
  <1>3. o \in {CompactAt(1), CompactAt(2)} => o.refs \subseteq Reachable(e)
    BY CompactSheet, CRRefsReachable, ThanosKinds DEF Is
  <1>4. o = rulerCR => o.refs \subseteq Reachable(e)
    <2>1. <<"Service", "alertmanager-cluster">> \in Reachable(e)
      BY SomeOnStage, NotShippedAre DEF Reachable
    <2>2. rulerCR.refs = CRRefs("ThanosRuler", {DefaultSecret})
                            \cup {<<"Service", "alertmanager-cluster">>}
      BY RulerSheet DEF Is
    <2>3. CRRefs("ThanosRuler", {DefaultSecret}) \subseteq Reachable(e)
      BY CRRefsReachable, ThanosKinds
    <2> QED
      BY <2>1, <2>2, <2>3
  <1>5. o = LocalQuery => o.refs \subseteq Reachable(e)
    BY QuerySheet, CRRefsReachable, ThanosKinds DEF Is
  <1>6. e = "stage" /\ o \in {StageQuery, QueryRoute} => o.refs \subseteq Reachable(e)
    <2> SUFFICES ASSUME e = "stage", o \in {StageQuery, QueryRoute}
                 PROVE  o.refs \subseteq Reachable(e)
      OBVIOUS
    <2>1. OauthRefs = {<<"ServiceAccount", "thanos-query-frontend-rhobs">>,
                       <<"Secret", "query-frontend-tls">>}
      BY DEF OauthRefs, makeOauthProxy
    <2>2. /\ OauthRefs \subseteq Reachable(e) /\ QueryFrontend \in Reachable(e)
          /\ <<"Route", "thanos-query-frontend-rhobs">> \in Reachable(e)
      BY <2>1, IdsOfMade, MadeIds, SomeOnStage DEF Reachable, QueryFrontend
    <2>3. CRRefs("ThanosQuery", {}) \subseteq Reachable(e)
      BY CRRefsReachable, ThanosKinds
    <2>4. /\ StageQuery.refs = CRRefs("ThanosQuery", {})
                \cup ({<<"Route", "thanos-query-frontend-rhobs">>} \cup OauthRefs)
          /\ QueryRoute.refs = {QueryFrontend}
      BY QuerySheet DEF Is
    <2> QED
      BY <2>2, <2>3, <2>4
  <1> QED
    BY <1>1, <1>2, <1>3, <1>4, <1>5, <1>6, CustomResourceLists

LEMMA StageRefs ==
  ASSUME NEW v, NEW o \in AlertmanagerObjects \cup GatewayObjects(v) \cup CacheObjects(v)
  PROVE  o.refs \subseteq Reachable("stage")
  <1>1. CASE o \in AlertmanagerObjects
    <2>1. makeOauthProxy("alertmanager", "alertmanager-tls") =
             {<<"ServiceAccount", "alertmanager">>, <<"Secret", "alertmanager-tls">>}
      BY DEF makeOauthProxy
    <2>2. o.refs \subseteq {<<"ServiceAccount", "alertmanager">>, <<"Secret", "alertmanager-tls">>,
                            <<"Secret", "alertmanager-config">>, <<"Service", "alertmanager">>,
                            <<"Service", "alertmanager-cluster">>}
      BY <1>1, <2>1, AlertmanagerSheet DEF Is, AlertmanagerObjects
    <2> QED
      BY <2>2, SomeOnStage, IdsOfMade, MadeIds, NotShippedAre DEF Reachable
  <1>2. CASE o \in GatewayObjects(v)
    <2>1. gatewayDeployment(v).refs =
             {<<"ServiceAccount", gatewayName>>, <<"ConfigMap", gatewayName>>,
              <<"Secret", gatewayName>>}
                 \cup APIContainerRefs \cup OPAContainerRefs \cup JaegerContainerRefs
      BY WorkloadIs DEF gatewayDeployment, Is
    <2>2. gatewayDeployment(v).refs \subseteq Reachable("stage")
      <3>1. /\ {<<"ConfigMap", gatewayName>>, <<"Secret", gatewayName>>} \subseteq GatewayIds
            /\ <<"ServiceAccount", gatewayName>> \in NotShipped["stage"]
        BY NotShippedAre DEF GatewayIds, gatewayName
      <3>2. /\ QueryFrontend \in Ids(MadeAt("stage"))
            /\ <<"Service", "thanos-receive-router-rhobs">> \in Ids(MadeAt("stage"))
        BY IdsOfMade, MadeIds DEF QueryFrontend
      <3>3. /\ <<"Service", "alertmanager">> \in ShippedIds("stage")
            /\ <<"Service", "api-memcached">> \in CacheIds
        BY SomeOnStage DEF CacheIds
      <3>4. Collector \subseteq NotShipped["stage"]
        BY NotShippedAre
      <3> QED
        BY <2>1, <3>1, <3>2, <3>3, <3>4, SomeOnStage
        DEF Reachable, APIContainerRefs, OPAContainerRefs, JaegerContainerRefs
    <2>3. /\ gatewayRBAC.refs = {} /\ stageGatewayTenants.refs = {}
          /\ createGatewayService(v).refs = {}
          /\ gatewayServiceMonitor(v).refs = {<<"Service", "observatorium-api">>}
      BY GatewaySheet DEF Is
    <2>4. <<"Service", "observatorium-api">> \in Reachable("stage")
      BY SomeOnStage DEF Reachable, GatewayIds
    <2> QED
      BY <1>2, <2>2, <2>3, <2>4 DEF GatewayObjects
  <1>3. CASE o \in CacheObjects(v)
    <2>1. /\ memcachedStatefulSet(gatewayCache(v)).refs = {<<"ServiceAccount", "api-memcached">>}
          /\ createServiceAccount("api-memcached").refs = {}
          /\ createCacheHeadlessService(gatewayCache(v)).refs = {}
          /\ createCacheServiceMonitor(gatewayCache(v)).refs = {<<"Service", "api-memcached">>}
      BY CacheSheet DEF Is
    <2>2. {<<"Service", "api-memcached">>, <<"ServiceAccount", "api-memcached">>}
             \subseteq Reachable("stage")
      BY SomeOnStage DEF Reachable, CacheIds
    <2> QED
      BY <1>3, <2>1, <2>2 DEF CacheObjects
  <1> QED
    BY <1>1, <1>2, <1>3

LEMMA KnownRefs ==
  ASSUME NEW e \in {"stage", "local"}, NEW o, Known(e, o)
  PROVE  o.refs \subseteq Reachable(e)
  <1>1. CASE o \in Made
    <2>1. o.refs = {}
      BY <1>1, MadeAre, ObjIs DEF Made, Is
    <2> QED
      BY <2>1
  <1>2. CASE o \in Range(crds) \cup Range(operatorResources) \cup SharedAt(e)
    BY <1>2, OperatorRefs
  <1>3. CASE e = "stage" /\ o \in Range(StageCRs)
    BY <1>3, CustomRefs
  <1>4. CASE e = "local" /\ o \in Range(LocalCRs)
    BY <1>4, CustomRefs
  <1>5. CASE e = "stage" /\ o \in AlertmanagerObjects
    BY <1>5, StageRefs
  <1>6. CASE e = "stage" /\ \E v \in Versioned : o \in GatewayObjects(v) \cup CacheObjects(v)
    BY <1>6, StageRefs
  <1> QED
    BY <1>1, <1>2, <1>3, <1>4, <1>5, <1>6, KnownIs

-----------------------------------------------------------------------------
(* When nothing is left to apply, what the files contain is live, if maybe  *)
(* a workload with another selector.                                        *)
LEMMA RenderedGroups ==
  ASSUME RolloutInv
  PROVE  Groups = GroupsAt(env, rendered)
  BY DEF Groups, GroupsAt

\* At rest, an object that is not there was not accepted.
LEMMA LeftOut ==
  ASSUME Settled, NEW g \in Groups, NEW o \in g, o \notin live
  PROVE  ~ (Accepts(o) /\ Homed(o, g))
  <1> DEFINE news == {x \in g \ live : Accepts(x) /\ Homed(x, g)}
             kept == {x \in live : Id(x) \notin Ids(news)}
  <1>1. Applied(g) = live
    BY DEF Settled
  <1>2. Applied(g) = IF news = {} THEN live ELSE kept \cup news
    BY DEF Applied
  <1>3. news = {}
    BY <1>1, <1>2
  <1> QED
    BY <1>3

\* At rest, the local namespace is there and nothing is refused for the want of one.
LEMMA NamespaceIsLive ==
  ASSUME RolloutInv, Settled, env = "local"
  PROVE  localNamespace \in live
  <1> SUFFICES ASSUME localNamespace \notin live PROVE FALSE
    OBVIOUS
  <1>1. LocalOperatorObjects \in Groups /\ localNamespace \in LocalOperatorObjects
    BY RenderedGroups, LocalGroupsAre DEF GroupsAt, LocalOperatorObjects
  <1>2. localNamespace.kind \notin DOMAIN PluralOf /\ Id(localNamespace) \notin Workloads
    BY NamespaceSheet, ThanosKinds, NamesOfWorkloads DEF Is
  <1>3. Accepts(localNamespace) /\ Homed(localNamespace, LocalOperatorObjects)
    BY <1>1, <1>2 DEF Accepts, Homed
  <1> QED
    BY <1>1, <1>3, LeftOut

LEMMA AllAreHomed ==
  ASSUME RolloutInv, Settled, NEW g, NEW o
  PROVE  Homed(o, g)
  BY NamespaceIsLive DEF Homed, RolloutInv

(* The definitions come first, and are never refused.                       *)
LEMMA DefinitionsAreLive ==
  ASSUME RolloutInv, Settled
  PROVE  Range(crds) \subseteq live
  <1> SUFFICES ASSUME NEW o \in Range(crds), o \notin live PROVE FALSE
    OBVIOUS
  <1>1. Range(crds) \in Groups
    BY RenderedGroups, StageGroupsAre, LocalGroupsAre DEF RolloutInv, GroupsAt
  <1>2. o.kind = "CustomResourceDefinition"
    BY KindsOfFiles
  <1>3. o.kind \notin DOMAIN PluralOf /\ Id(o) \notin Workloads
    BY <1>2, ThanosKinds, NamesOfWorkloads DEF Id
  <1>4. Accepts(o)
    BY <1>3 DEF Accepts
  <1> QED
    BY <1>1, <1>4, LeftOut, AllAreHomed

\* At rest, what is to be applied is there, save the cache that was refused.
LEMMA GroupsAreLive ==
  ASSUME RolloutInv, Settled, NEW g \in Groups, NEW o \in g
  PROVE  o \in live \/ (Id(o) \in Workloads /\ \E old \in live : Id(old) = Id(o))
  <1> SUFFICES ASSUME o \notin live
               PROVE  Id(o) \in Workloads /\ \E old \in live : Id(old) = Id(o)
    OBVIOUS
  <1>1. ~ Accepts(o)
    BY LeftOut, AllAreHomed
  <1>2. ASSUME o.kind \in DOMAIN PluralOf PROVE \E crd \in live : Id(crd) = Definition(o.kind)
    <2>1. Definition(o.kind) \in Definitions
      BY <1>2, DefinitionOf
    <2>2. PICK k \in Range(CRDKinds) : Definition(o.kind) = <<"CustomResourceDefinition", k>>
      BY <2>1 DEF Definitions
    <2>3. PICK i \in 1 .. 5 : k = CRDKinds[i]
      BY <2>2, DefinitionNames
    <2>4. Obj("CustomResourceDefinition", k, {}) \in Range(crds)
      BY <2>3, DefinitionList
    <2>5. Id(Obj("CustomResourceDefinition", k, {})) = <<"CustomResourceDefinition", k>>
      BY IdOf
    <2> QED
      BY <2>2, <2>4, <2>5, DefinitionsAreLive
  <1> QED
    BY <1>1, <1>2 DEF Accepts

\* At rest, what is shipped is there.
LEMMA ShippedIsLive ==
  ASSUME RolloutInv, Settled, NEW id \in ShippedIds(env)
  PROVE  \E o \in live : Id(o) = id
  <1>1. PICK g \in GroupsAt(env, rendered) : \E o \in g : Id(o) = id
    BY ShippedIsInGroups DEF RolloutInv
  <1>2. PICK o \in g : Id(o) = id
    BY <1>1
  <1> QED
    BY <1>1, <1>2, RenderedGroups, GroupsAreLive

(* An object of the groups that is no workload is live itself.              *)
LEMMA RenderedIsLive ==
  ASSUME RolloutInv, Settled, NEW g \in GroupsAt(env, rendered), NEW o \in g,
         o.kind \notin {"Deployment", "StatefulSet"}
  PROVE  o \in live
  <1>1. Id(o) \notin Workloads
    BY NamesOfWorkloads DEF Id
  <1> QED
    BY <1>1, RenderedGroups, GroupsAreLive

\* At rest, so are the objects that others of these proofs need.
LEMMA SomeAreLive ==
  ASSUME RolloutInv, Settled
  PROVE  /\ receiveCR \in live /\ rulerCR \in live /\ TelemeterRule \in live
         /\ MetricsService \in live /\ ManagerRole \in live /\ ManagerBinding \in live
         /\ OperatorAccount \in live /\ OperatorDeployment \in live
         /\ env = "stage" => (StageQuery \in live /\ SecuredService \in live)
         /\ env = "local" => (LocalQuery \in live /\ LocalTelemeterSecret \in live)
  <1>1. /\ receiveCR.kind = "ThanosReceive" /\ rulerCR.kind = "ThanosRuler"
        /\ TelemeterRule.kind = "PrometheusRule" /\ MetricsService.kind = "Service"
        /\ ManagerRole.kind = "ClusterRole" /\ ManagerBinding.kind = "ClusterRoleBinding"
        /\ OperatorAccount.kind = "ServiceAccount" /\ StageQuery.kind = "ThanosQuery"
        /\ SecuredService.kind = "Service" /\ LocalQuery.kind = "ThanosQuery"
        /\ LocalTelemeterSecret.kind = "Secret"
    BY ReceiveSheet, RulerSheet, SharedSheet, ManagerSheet, QuerySheet, AlertmanagerSheet DEF Is
  <1>2. /\ {MetricsService, ManagerRole, ManagerBinding, OperatorAccount, OperatorDeployment}
              \subseteq Range(operatorResources)
        /\ {receiveCR, rulerCR, StageQuery} \subseteq Range(StageCRs)
        /\ {receiveCR, rulerCR, LocalQuery} \subseteq Range(LocalCRs)
        /\ TelemeterRule \in SharedObjects /\ SecuredService \in AlertmanagerObjects
        /\ {TelemeterRule, LocalTelemeterSecret} \subseteq LocalSharedObjects
    BY OperatorList, CustomResourceLists
    DEF ManagerObjects, SharedObjects, LocalSharedObjects, AlertmanagerObjects
  <1>3. /\ \E g \in GroupsAt(env, rendered) : Range(operatorResources) \subseteq g
        /\ env = "stage" => /\ Range(StageCRs) \in GroupsAt(env, rendered)
                            /\ AlertmanagerObjects \cup SharedObjects \in GroupsAt(env, rendered)
        /\ env = "local" => /\ Range(LocalCRs) \in GroupsAt(env, rendered)
                            /\ LocalSharedObjects \in GroupsAt(env, rendered)
    BY StageGroupsAre, LocalGroupsAre DEF RolloutInv, GroupsAt, LocalOperatorObjects
  <1>4. /\ MetricsService \in live /\ ManagerRole \in live /\ ManagerBinding \in live
        /\ OperatorAccount \in live
    BY <1>1, <1>2, <1>3, RenderedIsLive
  <1>5. ASSUME env = "stage"
        PROVE  {receiveCR, rulerCR, TelemeterRule, StageQuery, SecuredService} \subseteq live
    <2>1. receiveCR \in live /\ rulerCR \in live /\ StageQuery \in live
      BY <1>1, <1>2, <1>3, <1>5, RenderedIsLive
    <2>2. TelemeterRule \in AlertmanagerObjects \cup SharedObjects
          /\ SecuredService \in AlertmanagerObjects \cup SharedObjects
      BY <1>2
    <2>3. TelemeterRule \in live /\ SecuredService \in live
      BY <1>1, <2>2, <1>3, <1>5, RenderedIsLive
    <2> QED
      BY <2>1, <2>3
  <1>6. ASSUME env = "local"
        PROVE  {receiveCR, rulerCR, TelemeterRule, LocalQuery, LocalTelemeterSecret} \subseteq live
    BY <1>1, <1>2, <1>3, <1>6, RenderedIsLive
  <1>7. OperatorDeployment \in live
    <2>1. Id(OperatorDeployment) = OperatorWorkload
      BY ManagerSheet, NamesOfWorkloads DEF Is, Id
    <2>2. OperatorDeployment \in live \/ \E old \in live : Id(old) = OperatorWorkload
      BY <1>2, <1>3, <2>1, RenderedGroups, GroupsAreLive
    <2>3. ASSUME NEW old \in live, Id(old) = OperatorWorkload PROVE old = OperatorDeployment
      <3>1. old.kind = "Deployment" /\ old.name = "thanos-operator-controller-manager"
        BY <2>3, NamesOfWorkloads DEF Id
      <3>2. \A v : gatewayDeployment(v).name = "observatorium-api"
        BY GatewaySheet DEF Is
      <3> QED
        BY <3>1, <3>2, KnownOfKind DEF RolloutInv
    <2> QED
      BY <2>2, <2>3
  <1> QED
    BY <1>4, <1>5, <1>6, <1>7 DEF RolloutInv

(* The operator then runs and sees its custom resources, so that what they  *)
(* ask for is made.                                                         *)
LEMMA MadeIsLive ==
  ASSUME RolloutInv, Settled
  PROVE  MadeAt(env) \subseteq live
  <1>1. pods[OperatorWorkload] # {}
    <2>1. Id(OperatorDeployment) = OperatorWorkload /\ OperatorDeployment.refs = {Manager}
      BY ManagerSheet, NamesOfWorkloads DEF Is, Id
    <2>2. Id(OperatorAccount) = Manager
      BY ManagerSheet DEF Is, Id, Manager
    <2>3. Startable(OperatorDeployment)
      BY <2>1, <2>2, SomeAreLive DEF Startable, Exists, Ids
    <2>4. ~ Outdated(OperatorDeployment)
      BY SomeAreLive DEF Settled
    <2>5. pods[OperatorWorkload] = {OperatorDeployment.labels}
      BY <2>1, <2>3, <2>4, NamesOfWorkloads DEF Outdated
    <2> QED
      BY <2>5
  <1>2. ASSUME NEW cr \in live, cr.kind \in DOMAIN PluralOf
        PROVE  MadeOf(cr.kind) \subseteq live
    <2>1. /\ ManagerBinding.kind = "ClusterRoleBinding" /\ ManagerRole.kind = "ClusterRole"
          /\ ManagerBinding.refs = {Manager, Id(ManagerRole)} /\ ManagerRole.refs = Definitions
      BY ManagerSheet DEF Is
    <2>2. Definition(cr.kind) \in ManagerRole.refs
      BY <1>2, <2>1, DefinitionOf
    <2>3. /\ ManagerBinding \in OfKind({"ClusterRoleBinding"})
          /\ ManagerRole \in OfKind({"ClusterRole"})
      BY <2>1, SomeAreLive DEF OfKind
    <2>4. OperatorSees(cr)
      BY <1>1, <2>1, <2>2, <2>3 DEF OperatorSees
    <2> QED
      BY <1>2, <2>4 DEF Settled, Due
  <1>3. MadeOf("ThanosReceive") \subseteq live
    BY <1>2, SomeAreLive, ReceiveSheet, ThanosKinds DEF Is
  <1>4. MadeOf("ThanosQuery") \subseteq live
    <2>1. PICK query \in live : query.kind = "ThanosQuery"
      BY SomeAreLive, QuerySheet DEF Is, RolloutInv
    <2> QED
      BY <1>2, <2>1, ThanosKinds
  <1>5. env = "stage" => MadeOf("Service") \subseteq live
    <2> SUFFICES ASSUME env = "stage" PROVE MadeOf("Service") \subseteq live
      OBVIOUS
    <2>1. SecuredService \in live /\ Id(SecuredService) = <<"Service", "alertmanager">>
          /\ SecuredService.kind = "Service"
      BY SomeAreLive, AlertmanagerSheet DEF Is, Id
    <2> QED
      BY <2>1 DEF Settled, Due
  <1> QED
    BY <1>3, <1>4, <1>5 DEF MadeAt, Made, RolloutInv

(* What nothing generates is not live, and something that is live needs it. *)
LEMMA NotShippedIsMissing ==
  ASSUME NEW e \in {"stage", "local"}, NEW o, Known(e, o)
  PROVE  Id(o) \notin NotShipped[e]
  <1> SUFFICES ASSUME Id(o) \in NotShipped[e] PROVE FALSE
    OBVIOUS
  <1>1. CASE o \in Made
    BY <1>1, MadeIds, NotShippedAre DEF Ids
  <1>2. CASE o \in Range(crds)
    BY <1>2, KindsOfFiles, NotShippedAre DEF Id
  <1>3. CASE o \in UserObjects
    BY <1>3, UserSheet, NotShippedAre DEF Id
  <1>4. CASE o \in ManagerObjects
    <2>1. Id(o) \notin {<<"ServiceAccount", "observatorium-api">>,
                        <<"Secret", "alertmanager-config">>,
                        <<"Service", "otel-trace-writer-collector-headless">>,
                        <<"Service", "alertmanager-cluster">>, <<"Service", "minio">>}
      BY <1>4, ManagerSheet DEF Is, ManagerObjects, Id
    <2> QED
      BY <2>1, NotShippedAre
  <1>5. CASE o \in SharedAt(e)
    <2>1. Id(o) \notin {<<"ServiceAccount", "observatorium-api">>,
                        <<"Secret", "alertmanager-config">>,
                        <<"Service", "otel-trace-writer-collector-headless">>,
                        <<"Service", "alertmanager-cluster">>, <<"Service", "minio">>}
      BY <1>5, MixedIds, NamespaceSheet
      DEF SharedAt, SharedObjects, SecretObjects, LocalSharedObjects, TelemeterSecret, DefaultSecret
    <2> QED
      BY <2>1, NotShippedAre
  <1>6. CASE o \in Range(StageCRs) \cup Range(LocalCRs)
    <2>1. o.kind \notin {"ServiceAccount", "Secret", "Service"}
      BY <1>6, KindsOfFiles, RulerSheet DEF Is
    <2> QED
      BY <2>1, NotShippedAre DEF Id
  <1>7. CASE e = "stage" /\ o \in AlertmanagerObjects
    BY <1>7, MixedIds, NotShippedAre DEF AlertmanagerObjects
  <1>8. CASE e = "stage" /\ \E v \in Versioned : o \in GatewayObjects(v) \cup CacheObjects(v)
    <2>1. PICK v \in Versioned : o \in GatewayObjects(v) \cup CacheObjects(v)
      BY <1>8
    <2>2. Id(o) \in GatewayIds \cup CacheIds
      BY <2>1, IdsOfTargets DEF Ids
    <2> QED
      BY <1>8, <2>2, NotShippedAre DEF GatewayIds, CacheIds
  <1> QED
    BY <1>1, <1>2, <1>3, <1>4, <1>5, <1>6, <1>7, <1>8, KnownIs, OperatorList

\* At rest, something refers to each of the objects that nobody ships.
LEMMA NotShippedIsNeeded ==
  ASSUME RolloutInv, Settled, NEW id \in NotShipped[env]
  PROVE  \E o \in live : id \in o.refs
  <1>1. Collector \subseteq receiveCR.refs /\ receiveCR \in live
    BY ReceiveSheet, SomeAreLive DEF Is, CRRefs
  <1>2. CASE env = "local"
    <2>1. <<"Service", "alertmanager-cluster">> \in rulerCR.refs /\ rulerCR \in live
      BY RulerSheet, SomeAreLive DEF Is
    <2>2. Minio \subseteq LocalTelemeterSecret.refs /\ LocalTelemeterSecret \in live
      BY <1>2, SharedSheet, SomeAreLive DEF Is
    <2> QED
      BY <1>1, <1>2, <2>1, <2>2, NotShippedAre
  <1>3. CASE env = "stage"
    <2>1. ASSUME NEW o \in live, Id(o) = GatewayWorkload
          PROVE  <<"ServiceAccount", "observatorium-api">> \in o.refs
      <3>1. o.kind = "Deployment" /\ o.name = "observatorium-api"
        BY <2>1, NamesOfWorkloads DEF Id
      <3>2. OperatorDeployment.name = "thanos-operator-controller-manager"
        BY ManagerSheet DEF Is
      <3>3. PICK v \in Versioned : o = gatewayDeployment(v)
        BY <3>1, <3>2, KnownOfKind DEF RolloutInv
      <3>4. gatewayDeployment(v).refs =
               {<<"ServiceAccount", gatewayName>>, <<"ConfigMap", gatewayName>>,
                <<"Secret", gatewayName>>}
                   \cup APIContainerRefs \cup OPAContainerRefs \cup JaegerContainerRefs
        BY WorkloadIs DEF gatewayDeployment, Is
      <3> QED
        BY <3>3, <3>4 DEF gatewayName
    <2>2. \E o \in live : Id(o) = GatewayWorkload
      BY <1>3, ShippedIsLive, SomeOnStage, NamesOfWorkloads DEF GatewayIds
    <2>3. ASSUME NEW o \in live, Id(o) = AlertmanagerWorkload
          PROVE  <<"Secret", "alertmanager-config">> \in o.refs
      <3>1. o.kind = "StatefulSet" /\ o.name = "alertmanager"
        BY <2>3, NamesOfWorkloads DEF Id
      <3>2. \A v : memcachedStatefulSet(gatewayCache(v)).name = "api-memcached"
        BY CacheSheet DEF Is
      <3>3. o = AlertmanagerAt(5)
        BY <3>1, <3>2, KnownOfKind DEF RolloutInv
      <3> QED
        BY <3>3, AlertmanagerSheet DEF Is
    <2>4. \E o \in live : Id(o) = AlertmanagerWorkload
      BY <1>3, ShippedIsLive, SomeOnStage, NamesOfWorkloads
    <2> QED
      BY <1>1, <1>3, <2>1, <2>2, <2>3, <2>4, NotShippedAre
  <1> QED
    BY <1>2, <1>3 DEF RolloutInv

(* What a settled cluster's objects need exists, but for what no target     *)
(* generates: the account of the gateway (gateway.go:116), the              *)
(* configuration of alertmanager and the collector of traces, and in the    *)
(* local environment also the alertmanager (cr.go:753) and the object store *)
(* (secrets.go:113); whatever has been released and in whatever order it    *)
(* was applied.                                                             *)
THEOREM NothingDangles == RolloutSpec => []NothingElseDangles
  <1>1. RolloutInv => NothingElseDangles
    <2> SUFFICES ASSUME RolloutInv, Settled
                 PROVE  (UNION {o.refs : o \in live}) \ Ids(live) = NotShipped[env]
      BY DEF NothingElseDangles
    <2>1. ASSUME NEW o \in live, NEW id \in o.refs
          PROVE  id \in Ids(live) \/ id \in NotShipped[env]
      <3>1. id \in Reachable(env)
        BY KnownRefs DEF RolloutInv
      <3>2. ASSUME id \in ShippedIds(env) PROVE id \in Ids(live)
        BY <3>2, ShippedIsLive DEF Ids
      <3>3. ASSUME id \in Ids(MadeAt(env)) PROVE id \in Ids(live)
        BY <3>3, MadeIsLive DEF Ids
      <3> QED
        BY <3>1, <3>2, <3>3 DEF Reachable
    <2>2. ASSUME NEW id \in NotShipped[env]
          PROVE  id \notin Ids(live) /\ \E o \in live : id \in o.refs
      <3>1. id \notin Ids(live)
        BY <2>2, NotShippedIsMissing DEF Ids, RolloutInv
      <3> QED
        BY <3>1, NotShippedIsNeeded
    <2> QED
      BY <2>1, <2>2
  <1> QED
    BY <1>1, RolloutInvariant, PTL

-----------------------------------------------------------------------------
(* The service that a live monitor scrapes, when nothing is left to apply.  *)
LEMMA StageServices ==
  ASSUME RolloutInv, Settled, env = "stage"
  PROVE  /\ createGatewayService(rendered) \in live
         /\ createCacheHeadlessService(gatewayCache(rendered)) \in live
         /\ createCacheServiceMonitor(gatewayCache(rendered)) \in live
  <1>1. GatewayObjects(rendered) \in GroupsAt(env, rendered)
        /\ CacheObjects(rendered) \in GroupsAt(env, rendered)
    BY StageGroupsAre DEF RolloutInv, GroupsAt
  <1>2. /\ createGatewayService(rendered) \in GatewayObjects(rendered)
        /\ createCacheHeadlessService(gatewayCache(rendered)) \in CacheObjects(rendered)
        /\ createCacheServiceMonitor(gatewayCache(rendered)) \in CacheObjects(rendered)
    BY DEF GatewayObjects, CacheObjects
  <1>3. /\ createGatewayService(rendered).kind = "Service"
        /\ createCacheHeadlessService(gatewayCache(rendered)).kind = "Service"
        /\ createCacheServiceMonitor(gatewayCache(rendered)).kind = "ServiceMonitor"
    BY GatewaySheet, CacheSheet DEF Is
  <1> QED
    BY <1>1, <1>2, <1>3, RenderedIsLive

\* At rest, each port of a monitor is found, save the one of the gateway that no service has.
LEMMA MonitorsFind ==
  ASSUME RolloutInv, Settled, NEW mon \in live, mon.kind = "ServiceMonitor", NEW port \in mon.ports
  PROVE  \/ \E s \in OfKind({"Service"}) : Finds(mon.selector, s.labels) /\ port \in s.ports
         \/ mon.name = "rhobs-gateway" /\ port = "metrics"
  <1>1. CASE mon = OperatorMonitor
    <2>1. /\ MetricsService \in OfKind({"Service"})
          /\ mon.selector = ControllerManager /\ MetricsService.labels = ControllerManager
          /\ mon.ports = {"https"} /\ MetricsService.ports = {"https"}
      BY <1>1, SomeAreLive, SharedSheet, ManagerSheet DEF Is, OfKind
    <2> QED
      BY <2>1 DEF Finds
  <1>2. CASE env = "stage" /\ mon = AlertmanagerAt(4)
    <2>1. /\ SecuredService \in OfKind({"Service"})
          /\ mon.selector = AlertmanagerLabels /\ SecuredService.labels = AlertmanagerLabels
          /\ mon.ports = {"http"} /\ SecuredService.ports = {"http", "https"}
      BY <1>2, SomeAreLive, AlertmanagerSheet DEF Is, OfKind
    <2> QED
      BY <2>1 DEF Finds
  <1>3. CASE env = "stage" /\ \E v \in Versioned : mon = gatewayServiceMonitor(v)
    <2>1. /\ mon.selector = GatewaySelector /\ mon.name = "rhobs-gateway"
          /\ mon.ports = {"internal", "opa-ams-metrics", "metrics"}
      <3>1. PICK v \in Versioned : mon = gatewayServiceMonitor(v)
        BY <1>3
      <3>2. Is(gatewayServiceMonitor(v), "ServiceMonitor", "rhobs-gateway",
               {<<"Service", "observatorium-api">>}, {}, GatewaySelector, {},
               {"internal", "opa-ams-metrics", "metrics"})
        BY GatewaySheet
      <3> QED
        BY <3>1, <3>2 DEF Is
    <2> DEFINE s == createGatewayService(rendered)
    <2>2. /\ s \in OfKind({"Service"}) /\ s.labels = GatewaySelector \cup {<<"version", rendered.api>>}
          /\ s.ports = {"grpc-public", "internal", "public", "opa-ams-api", "opa-ams-metrics"}
      BY <1>3, StageServices, GatewaySheet DEF Is, OfKind
    <2> HIDE DEF s
    <2> QED
      BY <2>1, <2>2 DEF Finds
  <1>4. CASE env = "stage" /\ \E v \in Versioned : mon = createCacheServiceMonitor(gatewayCache(v))
    <2> DEFINE m == createCacheServiceMonitor(gatewayCache(rendered))
               s == createCacheHeadlessService(gatewayCache(rendered))
    <2>1. m \in live /\ s \in live
      BY <1>4, StageServices
    <2>2. Id(mon) = <<"ServiceMonitor", "api-memcached">>
      BY <1>4, TargetIds
    <2>3. Id(m) = <<"ServiceMonitor", "api-memcached">>
      BY TargetIds
    <2>4. m.selector = CacheLabels(rendered) /\ m.ports = {"metrics"}
      BY CacheSheet DEF Is
    <2>5. s.kind = "Service" /\ s.labels = CacheLabels(rendered) /\ s.ports = {"client", "metrics"}
      BY CacheSheet DEF Is
    <2> HIDE DEF m, s
    <2>6. mon = m
      BY <2>1, <2>2, <2>3 DEF RolloutInv, OneEach
    <2> QED
      BY <2>1, <2>4, <2>5, <2>6 DEF Finds, OfKind
  <1> QED
    BY <1>1, <1>2, <1>3, <1>4, KnownOfKind DEF RolloutInv

(* Every monitor of a settled cluster finds its service and its ports, and  *)
(* the ruler its rules, but for the gateway's third port (gateway.go:653).  *)
THEOREM MonitorsScrape == RolloutSpec => []EverythingIsScraped
  <1>1. RolloutInv => EverythingIsScraped
    <2> SUFFICES ASSUME RolloutInv, Settled
                 PROVE  /\ \A mon \in OfKind({"ServiceMonitor"}) : \A port \in mon.ports :
                              \/ \E s \in OfKind({"Service"}) :
                                     Finds(mon.selector, s.labels) /\ port \in s.ports
                              \/ mon.name = "rhobs-gateway" /\ port = "metrics"
                        /\ \A ruler \in OfKind({"ThanosRuler"}) :
                              \E r \in OfKind({"PrometheusRule"}) : Finds(ruler.selector, r.labels)
      BY DEF EverythingIsScraped
    <2>1. \A mon \in OfKind({"ServiceMonitor"}) : mon \in live /\ mon.kind = "ServiceMonitor"
      BY DEF OfKind
    <2>2. ASSUME NEW ruler \in OfKind({"ThanosRuler"})
          PROVE  \E r \in OfKind({"PrometheusRule"}) : Finds(ruler.selector, r.labels)
      <3>1. ruler = rulerCR
        BY KnownOfKind DEF OfKind, RolloutInv
      <3>2. /\ rulerCR.selector = RuleLabel
            /\ TelemeterRule.labels = RuleLabel \cup {<<"component", "rules">>}
            /\ TelemeterRule \in OfKind({"PrometheusRule"})
        BY RulerSheet, SharedSheet, SomeAreLive DEF Is, OfKind
      <3> QED
        BY <3>1, <3>2 DEF Finds
    <2> QED
      BY <2>1, <2>2, MonitorsFind
  <1> QED
    BY <1>1, RolloutInvariant, PTL

-----------------------------------------------------------------------------
(* What is wanted is in the groups that are applied.                        *)
LEMMA ObjectsOfConcat ==
  ASSUME NEW S, NEW s \in Seq(S), NEW t \in Seq(S)
  PROVE  ObjectsOf(s \o t) = ObjectsOf(s) \cup ObjectsOf(t)
  <1>1. DOMAIN (s \o t) = 1 .. Len(s) + Len(t)
    OBVIOUS
  <1>2. ASSUME NEW i \in DOMAIN (s \o t)
        PROVE  Range((s \o t)[i].objs) \subseteq ObjectsOf(s) \cup ObjectsOf(t)
    <2>1. \/ i \in DOMAIN s /\ (s \o t)[i] = s[i]
          \/ i - Len(s) \in DOMAIN t /\ (s \o t)[i] = t[i - Len(s)]
      BY <1>1
    <2> QED
      BY <2>1 DEF ObjectsOf
  <1>3. ASSUME NEW i \in DOMAIN s PROVE Range(s[i].objs) \subseteq ObjectsOf(s \o t)
    <2>1. i \in DOMAIN (s \o t) /\ (s \o t)[i] = s[i]
      BY <1>1
    <2> QED
      BY <2>1, Zenon DEF ObjectsOf
  <1>4. ASSUME NEW i \in DOMAIN t PROVE Range(t[i].objs) \subseteq ObjectsOf(s \o t)
    <2>1. i + Len(s) \in DOMAIN (s \o t) /\ (s \o t)[i + Len(s)] = t[i]
      BY <1>1
    <2> QED
      BY <2>1, Zenon DEF ObjectsOf
  <1>5. ObjectsOf(s \o t) \subseteq ObjectsOf(s) \cup ObjectsOf(t)
    BY <1>2 DEF ObjectsOf
  <1>6. ObjectsOf(s) \subseteq ObjectsOf(s \o t)
    BY <1>3 DEF ObjectsOf
  <1>7. ObjectsOf(t) \subseteq ObjectsOf(s \o t)
    BY <1>4 DEF ObjectsOf
  <1> QED
    BY <1>5, <1>6, <1>7

\* What is wanted is what is to be applied.
LEMMA WantedIsApplied ==
  ASSUME RolloutInv
  PROVE  Wanted \subseteq UNION Groups
  <1>1. CASE env = "local"
    <2>1. Wanted = LocalOperatorObjects \cup Range(crds) \cup Range(LocalCRs)
                      \cup LocalSharedObjects
      <3>1. Range(TelemeterRules) = {TelemeterRule} /\ Range(serviceMonitor) = {OperatorMonitor}
        BY SharedFiles DEF serviceMonitor, OperatorMonitor, Range
      <3>2. {localThanosObjectStore(name) :
                name \in {"thanos-objectstorage", "observatorium-mst-thanos-objectstorage"}}
              = {LocalTelemeterSecret, LocalDefaultSecret}
        BY DEF LocalTelemeterSecret, LocalDefaultSecret
      <3> QED
        BY <1>1, <3>1, <3>2
        DEF Wanted, WantedLocally, LocalOperatorObjects, LocalSharedObjects
    <2> QED
      BY <1>1, <2>1, LocalGroupsAre DEF Groups
  <1>2. CASE env = "stage"
    <2> DEFINE mixed == buildAlertmanager \o Rules \o Monitors \o Secrets
    <2>1. PICK objs :
             /\ buildAlertmanager = << File("alertmanager", objs),
                                       File("alertmanager-service-monitor", <<AlertmanagerAt(4)>>) >>
             /\ Range(objs) \cup {AlertmanagerAt(4)} = AlertmanagerObjects
      BY AlertmanagerFiles
    <2> DEFINE S == Range(buildAlertmanager) \cup Range(CRDS) \cup Range(Operator)
                      \cup Range(OperatorCR) \cup Range(Rules) \cup Range(Monitors)
                      \cup Range(Secrets) \cup Range(Gateway(rendered)) \cup Range(Cache(rendered))
    <2>2. /\ buildAlertmanager \in Seq(S) /\ CRDS \in Seq(S) /\ Operator \in Seq(S)
          /\ OperatorCR \in Seq(S) /\ Rules \in Seq(S) /\ Monitors \in Seq(S)
          /\ Secrets \in Seq(S) /\ Gateway(rendered) \in Seq(S) /\ Cache(rendered) \in Seq(S)
      <3>1. ASSUME NEW T, NEW x PROVE <<x>> \in Seq(T \cup Range(<<x>>))
        BY DEF Range
      <3> QED
        BY <2>1 DEF CRDS, Operator, OperatorCR, Rules, Monitors, Secrets, Gateway, Cache, Range
    <2> HIDE DEF S
    <2>3. \A s, t \in Seq(S) :
             s \o t \in Seq(S) /\ ObjectsOf(s \o t) = ObjectsOf(s) \cup ObjectsOf(t)
      BY ObjectsOfConcat
    <2> DEFINE one   == buildAlertmanager \o CRDS
               two   == one \o Operator
               three == two \o OperatorCR
               four  == three \o Rules
               five  == four \o Monitors
    <2>4. /\ StageBuild \in Seq(S)
          /\ ObjectsOf(StageBuild) =
               ObjectsOf(buildAlertmanager) \cup ObjectsOf(CRDS) \cup ObjectsOf(Operator)
                 \cup ObjectsOf(OperatorCR) \cup ObjectsOf(Rules) \cup ObjectsOf(Monitors)
                 \cup ObjectsOf(Secrets)
      <3>1. one \in Seq(S) /\ ObjectsOf(one) = ObjectsOf(buildAlertmanager) \cup ObjectsOf(CRDS)
        BY <2>2, <2>3, Zenon
      <3>2. two \in Seq(S) /\ ObjectsOf(two) = ObjectsOf(one) \cup ObjectsOf(Operator)
        BY <2>2, <2>3, <3>1, Zenon
      <3>3. three \in Seq(S) /\ ObjectsOf(three) = ObjectsOf(two) \cup ObjectsOf(OperatorCR)
        BY <2>2, <2>3, <3>2, Zenon
      <3>4. four \in Seq(S) /\ ObjectsOf(four) = ObjectsOf(three) \cup ObjectsOf(Rules)
        BY <2>2, <2>3, <3>3, Zenon
      <3>5. five \in Seq(S) /\ ObjectsOf(five) = ObjectsOf(four) \cup ObjectsOf(Monitors)
        BY <2>2, <2>3, <3>4, Zenon
      <3>6. StageBuild = five \o Secrets
        BY Zenon DEF StageBuild
      <3>7. StageBuild \in Seq(S)
            /\ ObjectsOf(StageBuild) = ObjectsOf(five) \cup ObjectsOf(Secrets)
        BY <2>2, <2>3, <3>5, <3>6, Zenon
      <3> HIDE DEF one, two, three, four, five
      <3> QED
        BY <3>1, <3>2, <3>3, <3>4, <3>5, <3>7
    <2>5. ObjectsOf(mixed) = ObjectsOf(buildAlertmanager) \cup ObjectsOf(Rules)
                                \cup ObjectsOf(Monitors) \cup ObjectsOf(Secrets)
      <3> DEFINE am   == buildAlertmanager \o Rules
                 both == am \o Monitors
      <3>1. am \in Seq(S) /\ ObjectsOf(am) = ObjectsOf(buildAlertmanager) \cup ObjectsOf(Rules)
        BY <2>2, <2>3, Zenon
      <3>2. both \in Seq(S) /\ ObjectsOf(both) = ObjectsOf(am) \cup ObjectsOf(Monitors)
        BY <2>2, <2>3, <3>1, Zenon
      <3>3. ObjectsOf(mixed) = ObjectsOf(both) \cup ObjectsOf(Secrets)
        BY <2>2, <2>3, <3>2, Zenon
      <3> HIDE DEF am, both, mixed
      <3> QED
        BY <3>1, <3>2, <3>3
    <2>6. ObjectsOf(StageFiles(rendered)) =
            ObjectsOf(StageBuild) \cup ObjectsOf(Gateway(rendered)) \cup ObjectsOf(Cache(rendered))
      <3> DEFINE first == StageBuild \o Gateway(rendered)
      <3>1. first \in Seq(S) /\ ObjectsOf(first) = ObjectsOf(StageBuild) \cup ObjectsOf(Gateway(rendered))
        BY <2>2, <2>3, <2>4, Zenon
      <3>2. StageFiles(rendered) = first \o Cache(rendered)
        BY Zenon DEF StageFiles
      <3>3. ObjectsOf(StageFiles(rendered)) = ObjectsOf(first) \cup ObjectsOf(Cache(rendered))
        BY <2>2, <2>3, <3>1, <3>2, Zenon
      <3> HIDE DEF first
      <3> QED
        BY <3>1, <3>3
    <2>7. Wanted = ObjectsOf(StageFiles(rendered))
      BY <1>2 DEF Wanted, WantedOnStage, RolloutInv
    <2>8. UNION Groups =
            ObjectsOf(CRDS) \cup ObjectsOf(Operator) \cup ObjectsOf(OperatorCR)
              \cup ObjectsOf(mixed) \cup ObjectsOf(Gateway(rendered)) \cup ObjectsOf(Cache(rendered))
      BY <1>2 DEF Groups, StageGroups, RolloutInv
    <2> HIDE DEF mixed
    <2> QED
      BY <2>4, <2>5, <2>6, <2>7, <2>8
  <1> QED
    BY <1>1, <1>2 DEF RolloutInv

(* The labels of two releases of the cache with the same version are the    *)
(* same.                                                                    *)
LEMMA CacheVersions ==
  ASSUME NEW v, NEW w, <<"version", w.memcached>> \in CacheLabels(v)
  PROVE  CacheLabels(v) = CacheLabels(w)
  <1>1. \A u : CacheLabels(u) = {<<"component", "api-memcached">>, <<"instance", "rhobs">>,
                                 <<"name", "memcached">>, <<"part-of", "observatorium">>,
                                 <<"version", u.memcached>>}
    BY DEF CacheLabels, gatewayCache
  <1>2. w.memcached = v.memcached
    BY <1>1
  <1> QED
    BY <1>1, <1>2

\* The cache to be applied has the labels of the version that was rendered.
LEMMA RenderedCache ==
  ASSUME RolloutInv, NEW g \in Groups, NEW o \in g, Id(o) = CacheWorkload
  PROVE  o.selector = CacheLabels(rendered)
  <1>1. o.kind = "StatefulSet" /\ o.name = "api-memcached"
    BY NamesOfWorkloads DEF Id
  <1>2. CASE env = "local"
    <2>1. g \in {Range(crds), LocalOperatorObjects, Range(LocalCRs), LocalSharedObjects}
      BY <1>2, LocalGroupsAre DEF Groups
    <2> QED
      BY <1>1, <2>1, KindsOfFiles DEF LocalOperatorObjects, SharedAt
  <1>3. CASE env = "stage"
    <2>1. g \in {Range(crds), Range(operatorResources), Range(StageCRs),
                 AlertmanagerObjects \cup SharedObjects, GatewayObjects(rendered),
                 CacheObjects(rendered)}
      BY <1>3, StageGroupsAre DEF Groups, RolloutInv
    <2>2. o = AlertmanagerAt(5) \/ o = memcachedStatefulSet(gatewayCache(rendered))
      BY <1>1, <2>1, KindsOfFiles, KindsOfTargets DEF SharedAt
    <2>3. AlertmanagerAt(5).name = "alertmanager"
      BY AlertmanagerSheet DEF Is
    <2>4. memcachedStatefulSet(gatewayCache(rendered)).selector = CacheLabels(rendered)
      BY CacheSheet DEF Is
    <2> QED
      BY <1>1, <2>2, <2>3, <2>4
  <1> QED
    BY <1>2, <1>3 DEF RolloutInv

(* The selector of a workload that is not the cache's is the same in every  *)
(* release.                                                                 *)
LEMMA SameSelector ==
  ASSUME NEW e \in {"stage", "local"}, NEW a, NEW b, Known(e, a), Known(e, b),
         Id(a) = Id(b), Id(a) \in FixedWorkloads
  PROVE  a.selector = b.selector
  <1>1. ASSUME NEW o, Known(e, o), Id(o) \in FixedWorkloads
        PROVE  o.selector = SelectorOf(Id(o))
    <2>1. /\ OperatorDeployment.name = "thanos-operator-controller-manager"
          /\ OperatorDeployment.selector = ControllerManager
          /\ AlertmanagerAt(5).selector = AlertmanagerLabels
      BY ManagerSheet, AlertmanagerSheet DEF Is
    <2>2. ASSUME NEW v
          PROVE  /\ gatewayDeployment(v).name = "observatorium-api"
                 /\ gatewayDeployment(v).selector = GatewaySelector
                 /\ memcachedStatefulSet(gatewayCache(v)).name = "api-memcached"
      BY GatewaySheet, CacheSheet DEF Is
    <2>3. CASE Id(o) = OperatorWorkload
      <3>1. o.kind = "Deployment" /\ o.name = "thanos-operator-controller-manager"
        BY <2>3, NamesOfWorkloads DEF Id
      <3>2. o = OperatorDeployment
        BY <1>1, <2>2, <3>1, KnownOfKind
      <3> QED
        BY <2>1, <2>3, <3>2, NamesOfWorkloads DEF SelectorOf
    <2>4. CASE Id(o) = GatewayWorkload
      <3>1. o.kind = "Deployment" /\ o.name = "observatorium-api"
        BY <2>4, NamesOfWorkloads DEF Id
      <3>2. \E v \in Versioned : o = gatewayDeployment(v)
        BY <1>1, <2>1, <3>1, KnownOfKind
      <3> QED
        BY <2>2, <2>4, <3>2 DEF SelectorOf
    <2>5. CASE Id(o) = AlertmanagerWorkload
      <3>1. o.kind = "StatefulSet" /\ o.name = "alertmanager"
        BY <2>5, NamesOfWorkloads DEF Id
      <3>2. o = AlertmanagerAt(5)
        BY <1>1, <2>2, <3>1, KnownOfKind
      <3> QED
        BY <2>1, <2>5, <3>2, NamesOfWorkloads DEF SelectorOf
    <2> QED
      BY <1>1, <2>3, <2>4, <2>5, NamesOfWorkloads
  <1> QED
    BY <1>1

(* A cluster that has come to rest, with what others must provide, runs     *)
(* what was rendered last, but for a cache that was rendered again          *)
(* (cache.go:123-129, 185, 234): what RolloutCompletes says of the states   *)
(* in which nothing is left to do.                                          *)
THEOREM AtRestAsRendered == RolloutSpec => [](Settled /\ provided => AsRendered)
  <1>1. RolloutInv /\ NothingElseDangles => (Settled /\ provided => AsRendered)
    <2> SUFFICES ASSUME RolloutInv, NothingElseDangles, Settled, provided, NEW o \in Wanted
                 PROVE  \/ o \in live /\ (Id(o) \in Workloads => pods[Id(o)] = {o.labels})
                        \/ Id(o) = CacheWorkload /\ CacheStuck
      BY DEF AsRendered
    <2>1. PICK g \in Groups : o \in g
      BY WantedIsApplied
    <2>2. CASE o \in live
      <3>1. \A id \in o.refs : Exists(id)
        BY <2>2, Zenon DEF NothingElseDangles, Exists
      <3>2. ~ Outdated(o)
        BY <2>2 DEF Settled
      <3>3. Id(o) \in Workloads => pods[Id(o)] = {o.labels}
        BY <3>1, <3>2 DEF Outdated, Startable
      <3> QED
        BY <2>2, <3>3
    <2>3. CASE o \notin live
      <3>1. Id(o) \in Workloads /\ ~ Accepts(o)
        BY <2>1, <2>3, GroupsAreLive, LeftOut, AllAreHomed
      <3>2. o.kind \notin DOMAIN PluralOf
        BY <3>1, NamesOfWorkloads, ThanosKinds DEF Id
      <3>3. PICK old \in live : Id(old) = Id(o) /\ old.selector # o.selector
        BY <3>1, <3>2 DEF Accepts
      <3>4. Known(env, old) /\ Known(env, o)
        BY <2>1, GroupsAreOfVersion DEF RolloutInv, Known
      <3>5. Id(o) = CacheWorkload
        BY <3>1, <3>3, <3>4, SameSelector DEF RolloutInv, FixedWorkloads
      <3>6. o.selector = CacheLabels(rendered)
        BY <2>1, <3>5, RenderedCache
      <3>7. \E v \in Versioned : old.selector = CacheLabels(v)
        <4>1. old.kind = "StatefulSet" /\ old.name = "api-memcached"
          BY <3>3, <3>5, NamesOfWorkloads DEF Id
        <4>2. AlertmanagerAt(5).name = "alertmanager"
          BY AlertmanagerSheet DEF Is
        <4>3. PICK v \in Versioned : old = memcachedStatefulSet(gatewayCache(v))
          BY <3>4, <4>1, <4>2, KnownOfKind DEF RolloutInv
        <4>4. memcachedStatefulSet(gatewayCache(v)).selector = CacheLabels(v)
          BY CacheSheet DEF Is
        <4> QED
          BY <4>3, <4>4
      <3>8. <<"version", rendered.memcached>> \notin old.selector
        BY <3>3, <3>6, <3>7, CacheVersions
      <3> QED
        BY <3>3, <3>5, <3>8 DEF CacheStuck
    <2> QED
      BY <2>2, <2>3
  <1> QED
    BY <1>1, RolloutInvariant, NothingDangles, PTL

-----------------------------------------------------------------------------
(* Every move of the cluster is progress.  Between two releases what can be *)
(* wanted of a cluster is one finite set of objects, of which no two have a *)
(* kind and name in common: applying a file never takes away what another   *)
(* file has brought, and controllers only add.                              *)

(* The kinds and names of each file.                                        *)
DefinitionKinds == {"CustomResourceDefinition"}
OperatorKinds   == {"Role", "ClusterRole", "RoleBinding", "ClusterRoleBinding", "Namespace"}
CustomKinds     == {"ThanosReceive", "ThanosQuery", "ThanosRuler", "ThanosCompact",
                    "ThanosStore"}
OperatorNames ==
    {<<"ServiceAccount", "thanos-operator-controller-manager">>,
     <<"Service", "thanos-operator-controller-manager-metrics-service">>,
     <<"Deployment", "thanos-operator-controller-manager">>}
CustomNames == {<<"Route", "thanos-query-frontend-rhobs">>}
MixedNames ==
    {<<"Service", "alertmanager-cluster">>, <<"Service", "alertmanager">>,
     <<"ServiceAccount", "alertmanager">>, <<"ServiceMonitor", "alertmanager">>,
     <<"StatefulSet", "alertmanager">>, <<"Route", "alertmanager">>,
     <<"PrometheusRule", "telemeter-rules">>,
     <<"ServiceMonitor", "thanos-operator-controller-manager-metrics">>,
     TelemeterSecret, DefaultSecret}

(* A file whose objects are all of these kinds or names, and two that have  *)
(* neither a kind nor a name in common.                                     *)
Named(g, kinds, names) == \A o \in g : o.kind \in kinds \/ Id(o) \in names
Unlike(kinds, names, others, otherNames) ==
    /\ kinds \cap others = {} /\ names \cap otherNames = {}
    /\ \A id \in names : id[1] \notin others
    /\ \A id \in otherNames : id[1] \notin kinds

\* Each object has a kind or a name that is of its file alone.
LEMMA NamesOfFiles ==
    /\ Named(Range(crds), DefinitionKinds, {})
    /\ Named(Range(operatorResources), OperatorKinds, OperatorNames)
    /\ Named(LocalOperatorObjects, OperatorKinds, OperatorNames)
    /\ Named(Range(StageCRs), CustomKinds, CustomNames)
    /\ Named(Range(LocalCRs), CustomKinds, CustomNames)
    /\ Named(AlertmanagerObjects \cup SharedObjects, {}, MixedNames)
    /\ Named(LocalSharedObjects, {}, MixedNames)
    /\ \A v : Named(GatewayObjects(v), {}, GatewayIds)
    /\ \A v : Named(CacheObjects(v), {}, CacheIds)
  <1>1. Named(Range(crds), DefinitionKinds, {})
    BY KindsOfFiles DEF Named, DefinitionKinds
  <1>2. ASSUME NEW o \in Range(operatorResources)
        PROVE  o.kind \in OperatorKinds \/ Id(o) \in OperatorNames
    <2>1. CASE o \in UserObjects
      BY <2>1, UserSheet DEF OperatorKinds
    <2>2. CASE o \in ManagerObjects
      BY <2>2, ManagerSheet DEF Is, Id, ManagerObjects, OperatorKinds, OperatorNames
    <2> QED
      BY <2>1, <2>2, OperatorList
  <1>3. ASSUME NEW o \in Range(StageCRs) \cup Range(LocalCRs)
        PROVE  o.kind \in CustomKinds \/ Id(o) \in CustomNames
    <2>1. Id(o)[1] = o.kind
      BY DEF Id
    <2> QED
      BY <2>1, CustomResourceLists, CustomIds DEF CustomKinds, CustomNames, StoreObjects
  <1>4. /\ Named(AlertmanagerObjects \cup SharedObjects, {}, MixedNames)
        /\ Named(LocalSharedObjects, {}, MixedNames)
    BY MixedIds DEF Named, MixedNames, AlertmanagerObjects, SharedObjects, SecretObjects,
                    LocalSharedObjects
  <1>5. \A v : Named(GatewayObjects(v), {}, GatewayIds)
    BY IdsOfTargets DEF Named, Ids
  <1>6. \A v : Named(CacheObjects(v), {}, CacheIds)
    BY IdsOfTargets DEF Named, Ids
  <1>7. localNamespace.kind \in OperatorKinds
    BY NamespaceSheet DEF Is, OperatorKinds
  <1> QED
    BY <1>1, <1>2, <1>3, <1>4, <1>5, <1>6, <1>7 DEF Named, LocalOperatorObjects

OfOtherNames(g, h) == \A a \in g : \A b \in h : Id(a) # Id(b)

\* The objects of files that are unlike are of different kinds or names.
LEMMA UnlikeFiles ==
  ASSUME NEW g, NEW h, NEW kinds, NEW names, NEW others, NEW otherNames,
         Named(g, kinds, names), Named(h, others, otherNames),
         Unlike(kinds, names, others, otherNames)
  PROVE  OfOtherNames(g, h) /\ OfOtherNames(h, g)
  <1> SUFFICES ASSUME NEW a \in g, NEW b \in h, Id(a) = Id(b) PROVE FALSE
    BY DEF OfOtherNames
  <1>1. Id(a)[1] = a.kind /\ Id(b)[1] = b.kind
    BY DEF Id
  <1> QED
    BY <1>1 DEF Named, Unlike

\* The files of every target are unlike, but the two lists of custom resources.
LEMMA FilesAreUnlike ==
    /\ Unlike(DefinitionKinds, {}, OperatorKinds, OperatorNames)
    /\ Unlike(DefinitionKinds, {}, CustomKinds, CustomNames)
    /\ Unlike(DefinitionKinds, {}, {}, MixedNames)
    /\ Unlike(DefinitionKinds, {}, {}, GatewayIds)
    /\ Unlike(DefinitionKinds, {}, {}, CacheIds)
    /\ Unlike(OperatorKinds, OperatorNames, CustomKinds, CustomNames)
    /\ Unlike(OperatorKinds, OperatorNames, {}, MixedNames)
    /\ Unlike(OperatorKinds, OperatorNames, {}, GatewayIds)
    /\ Unlike(OperatorKinds, OperatorNames, {}, CacheIds)
    /\ Unlike(CustomKinds, CustomNames, {}, MixedNames)
    /\ Unlike(CustomKinds, CustomNames, {}, GatewayIds)
    /\ Unlike(CustomKinds, CustomNames, {}, CacheIds)
    /\ Unlike({}, MixedNames, {}, GatewayIds)
    /\ Unlike({}, MixedNames, {}, CacheIds)
    /\ Unlike({}, GatewayIds, {}, CacheIds)
  <1>1. /\ DefinitionKinds \cap OperatorKinds = {} /\ DefinitionKinds \cap CustomKinds = {}
        /\ OperatorKinds \cap CustomKinds = {}
    BY DEF DefinitionKinds, OperatorKinds, CustomKinds
  <1>2. \A id \in OperatorNames \cup CustomNames \cup MixedNames \cup GatewayIds \cup CacheIds :
           id[1] \notin DefinitionKinds \cup OperatorKinds \cup CustomKinds
    BY DEF OperatorNames, CustomNames, MixedNames, GatewayIds, CacheIds, DefinitionKinds,
           OperatorKinds, CustomKinds, TelemeterSecret, DefaultSecret
  <1>3. /\ OperatorNames \cap CustomNames = {} /\ OperatorNames \cap MixedNames = {}
        /\ OperatorNames \cap GatewayIds = {} /\ OperatorNames \cap CacheIds = {}
        /\ CustomNames \cap MixedNames = {}
        /\ CustomNames \cap GatewayIds = {} /\ CustomNames \cap CacheIds = {}
        /\ MixedNames \cap GatewayIds = {} /\ MixedNames \cap CacheIds = {}
        /\ GatewayIds \cap CacheIds = {}
    BY DEF OperatorNames, CustomNames, MixedNames, GatewayIds, CacheIds, TelemeterSecret,
           DefaultSecret
  <1> QED
    BY <1>1, <1>2, <1>3 DEF Unlike

\* Whatever the release, no two groups name the same object in different ways.
LEMMA GroupsAgree ==
  ASSUME NEW e \in {"stage", "local"}, NEW v \in Versioned
  PROVE  OneEach(UNION GroupsAt(e, v))
  <1>1. ASSUME NEW g \in GroupsAt(e, v), NEW h \in GroupsAt(e, v), g # h
        PROVE  OfOtherNames(g, h)
    <2>1. CASE e = "stage"
      <3>1. g \in StageGroups[v] /\ h \in StageGroups[v]
        BY <2>1 DEF GroupsAt
      <3> DEFINE mixed == AlertmanagerObjects \cup SharedObjects
      <3>2. /\ Named(Range(crds), DefinitionKinds, {})
            /\ Named(Range(operatorResources), OperatorKinds, OperatorNames)
            /\ Named(Range(StageCRs), CustomKinds, CustomNames)
            /\ Named(mixed, {}, MixedNames)
            /\ Named(GatewayObjects(v), {}, GatewayIds) /\ Named(CacheObjects(v), {}, CacheIds)
        BY NamesOfFiles
      <3>3. g \in {Range(crds), Range(operatorResources), Range(StageCRs), mixed,
                   GatewayObjects(v), CacheObjects(v)}
            /\ h \in {Range(crds), Range(operatorResources), Range(StageCRs), mixed,
                      GatewayObjects(v), CacheObjects(v)}
        BY <3>1, StageGroupsAre
      <3> HIDE DEF mixed
      <3> QED
        BY <1>1, <3>2, <3>3, FilesAreUnlike, UnlikeFiles
    <2>2. CASE e = "local"
      <3>1. g \in LocalGroups /\ h \in LocalGroups
        BY <2>2 DEF GroupsAt
      <3> QED
        BY <1>1, <3>1, LocalGroupsAre, NamesOfFiles, FilesAreUnlike, UnlikeFiles
    <2> QED
      BY <2>1, <2>2
  <1> SUFFICES ASSUME NEW g \in GroupsAt(e, v), NEW h \in GroupsAt(e, v),
                      NEW a \in g, NEW b \in h, Id(a) = Id(b)
               PROVE  a = b
    BY DEF OneEach
  <1>2. g = h
    BY <1>1 DEF OfOtherNames
  <1> QED
    BY <1>2, GroupsFit DEF OneEach

(* What the files rendered last and the operator bring to a cluster, and    *)
(* the workloads of which new pods have been started, old ones retired.     *)
Goal == (UNION Groups) \cup Made
Started == {w \in Workloads : \E o \in live : Id(o) = w /\ o.labels \in pods[w]}
Retired == {w \in Workloads : \E o \in live : Id(o) = w /\ pods[w] = {o.labels}}

(* How much is left to do: an object that arrives may undo the eight steps  *)
(* of the workloads.                                                        *)
MovesLeft ==
    9 * Cardinality(Goal \ live)
        + Cardinality(Workloads \ Started) + Cardinality(Workloads \ Retired)

\* The goal has one object of a kind and name.
LEMMA GoalAgrees ==
  ASSUME RolloutInv
  PROVE  OneEach(Goal)
  <1>1. OneEach(UNION Groups)
    BY RenderedGroups, GroupsAgree DEF RolloutInv
  <1>2. ASSUME NEW o \in UNION Groups
        PROVE  Id(o) \notin Ids(Made)
    <2>1. PICK g \in GroupsAt(env, rendered) : o \in g
      BY <1>2, RenderedGroups
    <2> QED
      BY <2>1, GroupsFit DEF RolloutInv, Fits
  <1>3. \A o \in Made : Id(o) \in Ids(Made)
    BY DEF Ids
  <1>4. OneEach(Made)
    BY MadeIds
  <1> QED
    BY <1>1, <1>2, <1>3, <1>4 DEF Goal, OneEach

\* Sets written out are finite.
LEMMA SmallSets ==
  ASSUME NEW a, NEW b, NEW c, NEW d
  PROVE  /\ IsFiniteSet({}) /\ IsFiniteSet({a}) /\ IsFiniteSet({a, b})
         /\ IsFiniteSet({a, b, c}) /\ IsFiniteSet({a, b, c, d})
  <1>1. IsFiniteSet({}) /\ IsFiniteSet({a}) /\ IsFiniteSet({b}) /\ IsFiniteSet({c})
        /\ IsFiniteSet({d})
    BY FS_EmptySet, FS_Singleton
  <1>2. IsFiniteSet({a} \cup {b}) /\ IsFiniteSet({c} \cup {d})
    BY <1>1, FS_Union
  <1>3. IsFiniteSet(({a} \cup {b}) \cup {c})
    BY <1>1, <1>2, FS_Union
  <1>4. IsFiniteSet(({a} \cup {b}) \cup ({c} \cup {d}))
    BY <1>2, FS_Union
  <1>5. /\ {a} \cup {b} = {a, b} /\ ({a} \cup {b}) \cup {c} = {a, b, c}
        /\ ({a} \cup {b}) \cup ({c} \cup {d}) = {a, b, c, d}
    OBVIOUS
  <1> QED
    BY <1>1, <1>2, <1>3, <1>4, <1>5, Zenon

\* So is every file, of whatever release, and what the operator makes.
LEMMA FilesAreFinite ==
  ASSUME NEW v
  PROVE  /\ IsFiniteSet(Range(crds)) /\ IsFiniteSet(Range(operatorResources))
         /\ IsFiniteSet(Range(StageCRs)) /\ IsFiniteSet(Range(LocalCRs))
         /\ IsFiniteSet(LocalOperatorObjects) /\ IsFiniteSet(LocalSharedObjects)
         /\ IsFiniteSet(AlertmanagerObjects \cup SharedObjects)
         /\ IsFiniteSet(GatewayObjects(v)) /\ IsFiniteSet(CacheObjects(v))
         /\ IsFiniteSet(Made)
  <1>1. \A a, b, c, d : /\ IsFiniteSet({a}) /\ IsFiniteSet({a, b})
                        /\ IsFiniteSet({a, b, c}) /\ IsFiniteSet({a, b, c, d})
    BY SmallSets
  <1>2. ASSUME NEW S, NEW T, IsFiniteSet(S), IsFiniteSet(T) PROVE IsFiniteSet(S \cup T)
    BY <1>2, FS_Union
  <1>3. IsFiniteSet(Range(crds))
    <2> DEFINE crd(i) == Obj("CustomResourceDefinition", CRDKinds[i], {})
    <2>1. Range(crds) = {crd(1), crd(2), crd(3), crd(4)} \cup {crd(5)}
      <3>1. 1 .. 5 = {1, 2, 3, 4, 5}
        OBVIOUS
      <3>2. Range(crds) = {crd(i) : i \in {1, 2, 3, 4, 5}}
        BY <3>1, DefinitionList
      <3> HIDE DEF crd
      <3> QED
        BY <3>2
    <2> HIDE DEF crd
    <2>2. IsFiniteSet({crd(1), crd(2), crd(3), crd(4)}) /\ IsFiniteSet({crd(5)})
      BY <1>1
    <2> QED
      BY <1>2, <2>1, <2>2
  <1>4. IsFiniteSet(Range(operatorResources))
    <2> DEFINE account  == {OperatorAccount, LeaderElectionRole, ManagerRole, MetricsReaderRole}
               bindings == {ProxyRole, LeaderElectionBinding, MetricsService, ManagerBinding}
               others   == {ProxyBinding, OperatorDeployment}
               queries  == {QueryRoles[1], QueryRoles[2], CompactRoles[1], CompactRoles[2]}
               stores   == {ReceiveRoles[1], ReceiveRoles[2], RulerRoles[1], RulerRoles[2]}
               readers  == {StoreRoles[1], StoreRoles[2]}
    <2>1. ManagerObjects = (account \cup bindings) \cup others
      BY DEF ManagerObjects
    <2>2. UserObjects = (queries \cup stores) \cup readers
      BY DEF UserObjects
    <2>3. /\ IsFiniteSet(account) /\ IsFiniteSet(bindings) /\ IsFiniteSet(others)
          /\ IsFiniteSet(queries) /\ IsFiniteSet(stores) /\ IsFiniteSet(readers)
      BY <1>1
    <2> HIDE DEF account, bindings, others, queries, stores, readers
    <2>4. IsFiniteSet(ManagerObjects) /\ IsFiniteSet(UserObjects)
      BY <1>2, <2>1, <2>2, <2>3
    <2> QED
      BY <1>2, <2>4, OperatorList
  <1>5. IsFiniteSet(Range(StageCRs)) /\ IsFiniteSet(Range(LocalCRs))
    <2>1. IsFiniteSet(StoreObjects)
      BY <1>1 DEF StoreObjects
    <2>2. IsFiniteSet({receiveCR, QueryRoute, StageQuery, rulerCR} \cup StoreObjects)
      BY <1>1, <1>2, <2>1
    <2>3. IsFiniteSet(({receiveCR, LocalQuery, rulerCR, CompactAt(1)} \cup {CompactAt(2)})
                        \cup StoreObjects)
      BY <1>1, <1>2, <2>1
    <2>4. ({receiveCR, LocalQuery, rulerCR, CompactAt(1)} \cup {CompactAt(2)}) \cup StoreObjects
            = {receiveCR, LocalQuery, rulerCR, CompactAt(1), CompactAt(2)} \cup StoreObjects
      OBVIOUS
    <2> QED
      BY <2>2, <2>3, <2>4, CustomResourceLists
  <1>6. IsFiniteSet(AlertmanagerObjects \cup SharedObjects)
    <2>1. IsFiniteSet(SharedObjects)
      BY <1>1, <1>2 DEF SharedObjects, SecretObjects
    <2>2. AlertmanagerObjects = {AlertmanagerAt(1), SecuredService, AlertmanagerAt(3)}
                                  \cup {AlertmanagerAt(4), AlertmanagerAt(5), AlertmanagerRoute}
      BY DEF AlertmanagerObjects
    <2>3. IsFiniteSet(AlertmanagerObjects)
      BY <1>1, <1>2, <2>2
    <2> QED
      BY <1>2, <2>1, <2>3
  <1>7. IsFiniteSet(GatewayObjects(v)) /\ IsFiniteSet(CacheObjects(v))
    <2>1. GatewayObjects(v) =
            {gatewayRBAC, stageGatewayTenants, gatewayDeployment(v), createGatewayService(v)}
              \cup {gatewayServiceMonitor(v)}
      BY DEF GatewayObjects
    <2>2. IsFiniteSet(GatewayObjects(v))
      <3>1. /\ IsFiniteSet({gatewayRBAC, stageGatewayTenants, gatewayDeployment(v),
                            createGatewayService(v)})
            /\ IsFiniteSet({gatewayServiceMonitor(v)})
        BY <1>1, Zenon
      <3> QED
        BY <1>2, <2>1, <3>1, Zenon
    <2>3. IsFiniteSet(CacheObjects(v))
      BY <1>1 DEF CacheObjects
    <2> QED
      BY <2>2, <2>3
  <1>8. IsFiniteSet(Made)
    <2>1. Made = (MadeOf("ThanosQuery") \cup MadeOf("ThanosReceive")) \cup MadeOf("Service")
      BY DEF Made
    <2>2. /\ IsFiniteSet(MadeOf("ThanosQuery")) /\ IsFiniteSet(MadeOf("ThanosReceive"))
          /\ IsFiniteSet(MadeOf("Service"))
      <3>1. \A x : IsFiniteSet({x})
        BY <1>1
      <3>2. /\ \E x, y, z : MadeOf("ThanosQuery") = {x, y, z}
            /\ \E x : MadeOf("ThanosReceive") = {x}
            /\ \E x : MadeOf("Service") = {x}
        BY DEF MadeOf
      <3>3. IsFiniteSet(MadeOf("ThanosQuery"))
        <4>1. PICK x, y, z : MadeOf("ThanosQuery") = {x, y, z}
          BY <3>2
        <4>2. IsFiniteSet({x, y, z})
          BY SmallSets
        <4> QED
          BY <4>1, <4>2, Zenon
      <3> QED
        BY <3>1, <3>2, <3>3
    <2> QED
      BY <1>2, <2>1, <2>2
  <1>9. IsFiniteSet(LocalOperatorObjects) /\ IsFiniteSet(LocalSharedObjects)
    BY <1>1, <1>2, <1>4 DEF LocalOperatorObjects, LocalSharedObjects
  <1> QED
    BY <1>3, <1>4, <1>5, <1>6, <1>7, <1>8, <1>9

\* The goal is finite.
LEMMA GoalIsFinite ==
  ASSUME RolloutInv
  PROVE  IsFiniteSet(Goal)
  <1>1. ASSUME NEW a, NEW b, NEW c, NEW d, NEW f, NEW g,
               IsFiniteSet(a), IsFiniteSet(b), IsFiniteSet(c), IsFiniteSet(d), IsFiniteSet(f),
               IsFiniteSet(g)
        PROVE  /\ IsFiniteSet(UNION {a, b, c, d, f, g})
               /\ IsFiniteSet(UNION {a, b, c, d})
    <2>1. UNION {a, b, c, d, f, g} = ((a \cup b) \cup (c \cup d)) \cup (f \cup g)
      OBVIOUS
    <2>2. UNION {a, b, c, d} = (a \cup b) \cup (c \cup d)
      OBVIOUS
    <2>3. IsFiniteSet(a \cup b) /\ IsFiniteSet(c \cup d) /\ IsFiniteSet(f \cup g)
      BY <1>1, FS_Union
    <2>4. IsFiniteSet((a \cup b) \cup (c \cup d))
      BY <2>3, FS_Union
    <2>5. IsFiniteSet(((a \cup b) \cup (c \cup d)) \cup (f \cup g))
      BY <2>3, <2>4, FS_Union
    <2> QED
      BY <2>1, <2>2, <2>4, <2>5
  <1>2. IsFiniteSet(UNION Groups)
    <2>1. CASE env = "stage"
      <3>1. Groups = {Range(crds), Range(operatorResources), Range(StageCRs),
                      AlertmanagerObjects \cup SharedObjects, GatewayObjects(rendered),
                      CacheObjects(rendered)}
        BY <2>1, StageGroupsAre DEF Groups, RolloutInv
      <3> QED
        BY <1>1, <3>1, FilesAreFinite
    <2>2. CASE env = "local"
      <3>1. Groups = {Range(crds), LocalOperatorObjects, Range(LocalCRs), LocalSharedObjects}
        BY <2>2, LocalGroupsAre DEF Groups
      <3> QED
        BY <1>1, <3>1, FilesAreFinite
    <2> QED
      BY <2>1, <2>2 DEF RolloutInv
  <1>3. IsFiniteSet(Made)
    BY FilesAreFinite
  <1>4. IsFiniteSet((UNION Groups) \cup Made)
    BY <1>2, <1>3, FS_Union
  <1> QED
    BY <1>4 DEF Goal

\* What can be left of the workloads, and that less of a set is less to do.
LEMMA WorkloadsLeft ==
  ASSUME NEW S
  PROVE  /\ IsFiniteSet(Workloads \ S)
         /\ Cardinality(Workloads \ S) \in 0 .. 4
  <1>1. IsFiniteSet(Workloads) /\ Cardinality(Workloads) = 4
    <2> DEFINE one == {GatewayWorkload}
               two == one \cup {CacheWorkload}
               three == two \cup {OperatorWorkload}
               four == three \cup {AlertmanagerWorkload}
    <2>1. IsFiniteSet(one) /\ Cardinality(one) = 1
      BY FS_Singleton
    <2>2. CacheWorkload \notin one /\ OperatorWorkload \notin two
          /\ AlertmanagerWorkload \notin three
      BY NamesOfWorkloads
    <2> HIDE DEF one
    <2>3. IsFiniteSet(two) /\ Cardinality(two) = 2
      BY <2>1, <2>2, FS_AddElement
    <2> HIDE DEF two
    <2>4. IsFiniteSet(three) /\ Cardinality(three) = 3
      BY <2>2, <2>3, FS_AddElement
    <2> HIDE DEF three
    <2>5. IsFiniteSet(four) /\ Cardinality(four) = 4
      BY <2>2, <2>4, FS_AddElement
    <2>6. four = Workloads
      BY NamesOfWorkloads DEF three, two, one
    <2> QED
      BY <2>5, <2>6
  <1>2. IsFiniteSet(Workloads \ S) /\ Cardinality(Workloads \ S) <= 4
    BY <1>1, FS_Subset
  <1> QED
    BY <1>2, FS_CardinalityType

\* Less of a finite set is fewer.
LEMMA FewerLeft ==
  ASSUME NEW S, IsFiniteSet(S), NEW T, T \subseteq S
  PROVE  /\ Cardinality(S) \in Nat /\ Cardinality(T) \in Nat
         /\ Cardinality(T) <= Cardinality(S)
         /\ T # S => Cardinality(T) < Cardinality(S)
  <1>1. T \in SUBSET S
    OBVIOUS
  <1>2. IsFiniteSet(T) /\ Cardinality(T) <= Cardinality(S)
        /\ (Cardinality(S) = Cardinality(T) => S = T)
    BY <1>1, FS_Subset
  <1> QED
    BY <1>2, FS_CardinalityType

\* An object of the goal that is live stays until the goal changes.
LEMMA ApplyArrives ==
  ASSUME RolloutInv, NEW g \in Groups, Apply(g)
  PROVE  /\ UNCHANGED <<env, tags, rendered, pods, provided>> /\ Goal' = Goal
         /\ (Goal \ live') \subseteq (Goal \ live) /\ Goal \ live' # Goal \ live
  <1> DEFINE news == {o \in g \ live : Accepts(o) /\ Homed(o, g)}
             kept == {o \in live : Id(o) \notin Ids(news)}
  <1>1. /\ live' = Applied(g) /\ Applied(g) # live
        /\ UNCHANGED <<env, tags, rendered, pods, provided>>
    BY DEF Apply
  <1>2. Goal' = Goal
    BY <1>1 DEF Goal, Groups
  <1>3. Applied(g) = IF news = {} THEN live ELSE kept \cup news
    BY DEF Applied
  <1>4. news # {} /\ live' = kept \cup news
    BY <1>1, <1>3
  <1>5. news \subseteq Goal \ live
    BY DEF Goal
  <1>6. ASSUME NEW o \in Goal, o \in live
        PROVE  o \in kept
    <2> SUFFICES ASSUME Id(o) \in Ids(news) PROVE FALSE
      BY <1>6
    <2>1. PICK new \in news : Id(new) = Id(o)
      BY DEF Ids
    <2>2. new = o
      BY <1>5, <1>6, <2>1, GoalAgrees DEF OneEach
    <2> QED
      BY <1>5, <1>6, <2>1, <2>2
  <1> HIDE DEF news, kept
  <1> QED
    BY <1>1, <1>2, <1>4, <1>5, <1>6

\* So does what the operator makes.
LEMMA ReconcileArrives ==
  ASSUME RolloutInv, NEW o \in live, Reconcile(o)
  PROVE  /\ UNCHANGED <<env, tags, rendered, pods, provided>> /\ Goal' = Goal
         /\ (Goal \ live') \subseteq (Goal \ live) /\ Goal \ live' # Goal \ live
  <1>1. /\ live' = live \cup MadeOf(o.kind) /\ ~ MadeOf(o.kind) \subseteq live
        /\ UNCHANGED <<env, tags, rendered, pods, provided>>
    BY DEF Reconcile, Due
  <1>2. Goal' = Goal
    BY <1>1 DEF Goal, Groups
  <1>3. MadeOf(o.kind) \subseteq Goal
    BY MadeIsKnown DEF Goal
  <1> QED
    BY <1>1, <1>2, <1>3

\* Pods of a live object are started, then others of its workload are retired.
LEMMA PodsArrive ==
  ASSUME RolloutInv, NEW w \in live, StartPods(w) \/ RetirePods(w)
  PROVE  /\ UNCHANGED <<env, tags, rendered, live, provided>> /\ Goal' = Goal
         /\ Started \subseteq Started' /\ Retired \subseteq Retired'
         /\ Started' # Started \/ Retired' # Retired
  <1>1. UNCHANGED <<env, tags, rendered, live, provided>> /\ Id(w) \in Workloads
        /\ pods[Id(w)] # {w.labels}
    BY DEF StartPods, RetirePods, Outdated
  <1>2. Goal' = Goal
    BY <1>1 DEF Goal, Groups
  <1>3. \A o \in live : Id(o) = Id(w) => o = w
    BY DEF RolloutInv, OneEach
  <1>4. DOMAIN pods = Workloads
    BY DEF RolloutInv
  <1>5. ASSUME StartPods(w)
        PROVE  /\ Started \subseteq Started' /\ Retired \subseteq Retired' /\ Started' # Started
    <2>1. /\ w.labels \notin pods[Id(w)] /\ w.labels \in pods'[Id(w)]
          /\ \A u \in Workloads : pods[u] \subseteq pods'[u]
          /\ \A u \in Workloads \ {Id(w)} : pods'[u] = pods[u]
      BY <1>1, <1>4, <1>5 DEF StartPods
    <2>2. Id(w) \notin Started /\ Id(w) \notin Retired /\ Id(w) \in Started'
      BY <1>1, <1>3, <2>1 DEF Started, Retired
    <2>3. ASSUME NEW u \in Started PROVE u \in Started'
      BY <1>1, <2>1, <2>3 DEF Started
    <2>4. ASSUME NEW u \in Retired PROVE u \in Retired'
      BY <1>1, <2>1, <2>2, <2>4 DEF Retired
    <2> QED
      BY <2>2, <2>3, <2>4
  <1>6. ASSUME RetirePods(w)
        PROVE  /\ Started \subseteq Started' /\ Retired \subseteq Retired' /\ Retired' # Retired
    <2>1. /\ w.labels \in pods[Id(w)] /\ pods'[Id(w)] = {w.labels}
          /\ \A u \in Workloads \ {Id(w)} : pods'[u] = pods[u]
      BY <1>1, <1>4, <1>6 DEF RetirePods
    <2>2. Id(w) \in Started' /\ Id(w) \in Retired' /\ Id(w) \notin Retired
      BY <1>1, <1>3, <2>1 DEF Started, Retired
    <2>3. ASSUME NEW u \in Started PROVE u \in Started'
      BY <1>1, <2>1, <2>2, <2>3 DEF Started
    <2>4. ASSUME NEW u \in Retired PROVE u \in Retired'
      BY <1>1, <2>1, <2>2, <2>4 DEF Retired
    <2> QED
      BY <2>2, <2>3, <2>4
  <1> QED
    BY <1>1, <1>2, <1>5, <1>6

\* Whatever arrives leaves less to do, even if all workloads start anew for it.
LEMMA ArrivalsCount ==
  ASSUME RolloutInv, Goal' = Goal,
         (Goal \ live') \subseteq (Goal \ live), Goal \ live' # Goal \ live
  PROVE  MovesLeft' < MovesLeft
  <1> DEFINE missing == Goal \ live
             later   == Goal \ live'
  <1>1. IsFiniteSet(missing)
    BY GoalIsFinite, FS_Subset
  <1>2. /\ Cardinality(missing) \in Nat /\ Cardinality(later) \in Nat
        /\ Cardinality(later) < Cardinality(missing)
    BY <1>1, FewerLeft
  <1>3. /\ Cardinality(Workloads \ Started) \in 0 .. 4
        /\ Cardinality(Workloads \ Retired) \in 0 .. 4
    BY WorkloadsLeft
  <1>4. /\ Cardinality(Workloads \ Started') \in 0 .. 4
        /\ Cardinality(Workloads \ Retired') \in 0 .. 4
    BY WorkloadsLeft
  <1>5. (Goal \ live)' = later
    OBVIOUS
  <1>6. Workloads' = Workloads
    BY DEF Workloads
  <1>7. MovesLeft' = 9 * Cardinality(later) + Cardinality(Workloads \ Started')
                       + Cardinality(Workloads \ Retired')
    BY <1>5, <1>6 DEF MovesLeft
  <1> HIDE DEF missing, later
  <1>8. MovesLeft = 9 * Cardinality(missing) + Cardinality(Workloads \ Started)
                      + Cardinality(Workloads \ Retired)
    BY DEF MovesLeft, missing
  <1> QED
    BY <1>2, <1>3, <1>4, <1>7, <1>8

\* So does every pod that is started or retired.
LEMMA RollsCount ==
  ASSUME RolloutInv, Goal' = Goal, UNCHANGED live,
         Started \subseteq Started', Retired \subseteq Retired',
         Started' # Started \/ Retired' # Retired
  PROVE  MovesLeft' < MovesLeft
  <1> DEFINE missing == Goal \ live
  <1>1. IsFiniteSet(missing)
    BY GoalIsFinite, FS_Subset
  <1>2. Cardinality(missing) \in Nat
    BY <1>1, FS_CardinalityType
  <1>3. /\ IsFiniteSet(Workloads \ Started) /\ IsFiniteSet(Workloads \ Retired)
    BY WorkloadsLeft
  <1>4. (Goal \ live)' = missing /\ Workloads' = Workloads
    BY DEF Workloads
  <1>5. MovesLeft' = 9 * Cardinality(missing) + Cardinality(Workloads \ Started')
                       + Cardinality(Workloads \ Retired')
    BY <1>4 DEF MovesLeft
  <1>6. MovesLeft = 9 * Cardinality(missing) + Cardinality(Workloads \ Started)
                      + Cardinality(Workloads \ Retired)
    BY DEF MovesLeft
  <1>7. Started \subseteq Workloads /\ Retired \subseteq Workloads
    BY DEF Started, Retired
  <1>8. Started' \subseteq Workloads /\ Retired' \subseteq Workloads
    BY <1>4 DEF Started, Retired
  <1> HIDE DEF missing
  <1>9. /\ Workloads \ Started' \subseteq Workloads \ Started
        /\ Workloads \ Retired' \subseteq Workloads \ Retired
        /\ \/ Workloads \ Started' # Workloads \ Started
           \/ Workloads \ Retired' # Workloads \ Retired
    BY <1>7, <1>8
  <1> DEFINE a == Cardinality(Workloads \ Started)
             b == Cardinality(Workloads \ Retired)
             c == Cardinality(Workloads \ Started')
             d == Cardinality(Workloads \ Retired')
  <1>10. /\ a \in Nat /\ b \in Nat /\ c \in Nat /\ d \in Nat /\ c <= a /\ d <= b
         /\ c < a \/ d < b
    BY <1>3, <1>9, FewerLeft
  <1> HIDE DEF a, b, c, d
  <1>11. MovesLeft' = 9 * Cardinality(missing) + c + d
         /\ MovesLeft = 9 * Cardinality(missing) + a + b
    BY <1>5, <1>6 DEF a, b, c, d
  <1> QED
    BY <1>2, <1>10, <1>11

(* However many releases there are and in whatever order their files are    *)
(* applied, what is left to do is finite, every move of the cluster lowers  *)
(* it, and none changes what is wanted: so between two runs of a mage       *)
(* target (gateway.go, cache.go) only finitely many moves can be made.      *)
THEOREM EveryMoveIsProgress ==
  RolloutSpec =>
    /\ [](MovesLeft \in Nat)
    /\ [][ClusterNext => /\ MovesLeft' < MovesLeft
                         /\ UNCHANGED <<env, tags, rendered, provided>>]_clusterVars
  <1>1. RolloutInv => MovesLeft \in Nat
    <2> SUFFICES ASSUME RolloutInv PROVE MovesLeft \in Nat
      OBVIOUS
    <2>1. IsFiniteSet(Goal \ live)
      BY GoalIsFinite, FS_Subset
    <2>2. Cardinality(Goal \ live) \in Nat
      BY <2>1, FS_CardinalityType
    <2>3. /\ Cardinality(Workloads \ Started) \in 0 .. 4
          /\ Cardinality(Workloads \ Retired) \in 0 .. 4
      BY WorkloadsLeft
    <2> QED
      BY <2>2, <2>3 DEF MovesLeft
  <1>2. RolloutInv /\ ClusterNext =>
          MovesLeft' < MovesLeft /\ UNCHANGED <<env, tags, rendered, provided>>
    <2> SUFFICES ASSUME RolloutInv, ClusterNext
                 PROVE  MovesLeft' < MovesLeft /\ UNCHANGED <<env, tags, rendered, provided>>
      OBVIOUS
    <2>1. CASE ApplyAny
      BY <2>1, ApplyArrives, ArrivalsCount DEF ApplyAny
    <2>2. CASE RollAny
      BY <2>2, PodsArrive, RollsCount DEF RollAny
    <2>3. CASE ReconcileAny
      BY <2>3, ReconcileArrives, ArrivalsCount DEF ReconcileAny
    <2> QED
      BY <2>1, <2>2, <2>3 DEF ClusterNext
  <1> QED
    BY <1>1, <1>2, RolloutInvariant, PTL

-----------------------------------------------------------------------------
(* The life of a sample.                                                    *)

(* A store that has not loaded an uploaded block may still take its time,   *)
(* and the ingester has dropped only what is beyond its retention.          *)
NotYetDue ==
    uploadedAt # Never => \A s \in Stores[ring] \ loaded : DueBy(s, age)

LifeInv ==
    /\ TypeOK
    /\ uploadedAt <= age
    /\ ~ local => age > IngesterRetention[ring]
    /\ uploadedAt = Never => loaded = {}
    /\ NotYetDue

-----------------------------------------------------------------------------
(* The windows of the stores and the retentions (cr.go:224-226, 286-287,    *)
(* 351, 411-412, 505, 536).                                                 *)
LEMMA WindowValues ==
    /\ WindowOf("telemeter-0to2w") = [oldest |-> Unset, youngest |-> 336]
    /\ WindowOf("telemeter-90dplus") = [oldest |-> 2160, youngest |-> Unset]
    /\ WindowOf("default") = [oldest |-> Unset, youngest |-> 22]
    /\ IngesterRetention["telemeter"] = 4
    /\ IngesterRetention["default"] = 24
  BY DEF WindowOf, Window, IngesterRetention, Rings, Week, Day

\* Stores of the two rings.
LEMMA StoreValues ==
    /\ {"telemeter-0to2w", "telemeter-90dplus"} \subseteq Stores["telemeter"]
    /\ "default" \in Stores["default"]
  BY DEF Stores, Rings

(* Ages are natural numbers.                                                *)
LEMMA AgesAreNat ==
  ASSUME TypeOK
  PROVE  age \in Nat /\ uploadedAt \in Nat \cup {Never} /\ ring \in Rings
  BY RetentionAssumption DEF TypeOK, Never

-----------------------------------------------------------------------------
\* A new sample satisfies the invariant.
LEMMA InitLife == Init => LifeInv
  <1> SUFFICES ASSUME Init PROVE LifeInv
    OBVIOUS
  <1>1. TypeOK
    BY DEF Init, TypeOK, Never
  <1>2. uploadedAt <= age
    BY DEF Init, Never
  <1>3. NotYetDue
    BY DEF Init, NotYetDue
  <1> QED
    BY <1>1, <1>2, <1>3 DEF Init, LifeInv

(* Time: the guard of Grow is what NotYetDue says of the later age.         *)
LEMMA GrowLife ==
  ASSUME LifeInv, NEW a \in Ages, Grow(a)
  PROVE  LifeInv'
  <1>1. TypeOK'
    BY DEF LifeInv, TypeOK, Grow
  <1>2. a \in Nat /\ age \in Nat /\ uploadedAt \in Nat \cup {-1} /\ a > age
    BY AgesAreNat, RetentionAssumption DEF LifeInv, Grow, Never
  <1>3. (uploadedAt <= age)'
    BY <1>2 DEF LifeInv, Grow
  <1>4. (~ local => age > IngesterRetention[ring])'
    <2>1. ring \in Rings
      BY DEF LifeInv, TypeOK
    <2>2. IngesterRetention[ring] \in Nat
      BY <2>1 DEF IngesterRetention, Day
    <2> QED
      BY <1>2, <2>2 DEF LifeInv, Grow
  <1>5. NotYetDue'
    BY DEF Grow, NotYetDue, DueBy, TooOld, Enters, TooYoung
  <1> QED
    BY <1>1, <1>3, <1>4, <1>5 DEF LifeInv, Grow

(* A block that has just been uploaded is due at no store yet.              *)
LEMMA UploadLife ==
  ASSUME LifeInv, Upload
  PROVE  LifeInv'
  <1>1. TypeOK'
    BY DEF LifeInv, TypeOK, Upload
  <1>2. age \in Nat /\ SyncWithin \in Nat
    BY AgesAreNat, RetentionAssumption DEF LifeInv
  <1>3. (uploadedAt <= age)'
    BY <1>2 DEF Upload
  <1>4. uploadedAt' # Never
    BY <1>2 DEF Upload, Never
  <1>5. NotYetDue'
    <2> SUFFICES ASSUME NEW s \in Stores[ring]
                 PROVE  DueBy(s, age)'
      BY DEF NotYetDue, Upload
    <2>1. WindowOf(s).youngest \in Int
      <3>1. ring \in Rings
        BY DEF LifeInv, TypeOK
      <3>2. s \in {"telemeter-0to2w", "telemeter-2wto90d", "telemeter-90dplus", "default"}
        BY <3>1 DEF Stores, Rings
      <3> QED
        BY <3>2 DEF WindowOf, Window, Week, Day, Unset
    <2>2. Enters(s, age) >= age
      BY <1>2, <2>1 DEF Enters, TooYoung
    <2>3. Enters(s, age) \in Int
      BY <1>2, <2>1 DEF Enters
    <2>4. age <= Enters(s, age) + SyncWithin
      BY <1>2, <2>2, <2>3
    <2> QED
      BY <2>4 DEF Upload, DueBy
  <1> QED
    BY <1>1, <1>3, <1>4, <1>5 DEF LifeInv, Upload

LEMMA LoadLife ==
  ASSUME LifeInv, NEW s \in Stores[ring], Load(s)
  PROVE  LifeInv'
  <1>1. TypeOK'
    BY DEF LifeInv, TypeOK, Load
  <1>2. NotYetDue'
    BY DEF LifeInv, Load, NotYetDue, DueBy, TooOld, Enters, TooYoung
  <1> QED
    BY <1>1, <1>2 DEF LifeInv, Load

LEMMA DropLife ==
  ASSUME LifeInv, DropLocal
  PROVE  LifeInv'
  <1>1. TypeOK'
    BY DEF LifeInv, TypeOK, DropLocal
  <1>2. NotYetDue'
    BY DEF LifeInv, DropLocal, NotYetDue, DueBy, TooOld, Enters, TooYoung
  <1> QED
    BY <1>1, <1>2 DEF LifeInv, DropLocal

(* LifeInv is an invariant: each action keeps it.                           *)
THEOREM LifeInvariant == Spec => []LifeInv
  <1>1. LifeInv /\ [Next]_vars => LifeInv'
    <2> SUFFICES ASSUME LifeInv, [Next]_vars PROVE LifeInv'
      OBVIOUS
    <2>1. ASSUME NEW a \in Ages, Grow(a) PROVE LifeInv'
      BY <2>1, GrowLife
    <2>2. CASE Upload
      BY <2>2, UploadLife
    <2>3. ASSUME NEW s \in Stores[ring], Load(s) PROVE LifeInv'
      BY <2>3, LoadLife
    <2>4. CASE DropLocal
      BY <2>4, DropLife
    <2>5. CASE UNCHANGED vars
      BY <2>5 DEF LifeInv, vars, TypeOK, NotYetDue, DueBy, TooOld, Enters, TooYoung
    <2> QED
      BY <2>1, <2>2, <2>3, <2>4, <2>5 DEF Next
  <1> QED
    BY <1>1, InitLife, PTL DEF Spec

-----------------------------------------------------------------------------
(* What has been dropped is in the oldest tier's window up to 90 days and   *)
(* in the youngest tier's from there on.                                    *)
LEMMA TelemeterIsServed ==
  ASSUME LifeInv, UploadedInTime, ~ local, ring = "telemeter"
  PROVE  \E s \in loaded : InWindow(s, age)
  <1>1. /\ age \in Nat /\ uploadedAt \in Nat /\ SyncWithin \in 0 .. 2
        /\ age > 4 /\ uploadedAt + SyncWithin <= 4 /\ uploadedAt # Never
    BY AgesAreNat, WindowValues, RetentionAssumption DEF LifeInv, UploadedInTime, Never
  <1>2. CASE age <= 2160
    <2> DEFINE s == "telemeter-90dplus"
    <2>1. InWindow(s, age)
      BY <1>1, <1>2, WindowValues DEF InWindow, TooOld, TooYoung, Unset
    <2>2. ~ DueBy(s, age)
      <3>1. Enters(s, uploadedAt) = uploadedAt
        BY WindowValues DEF Enters, TooYoung, Unset
      <3> QED
        BY <1>1, <2>1, <3>1 DEF DueBy, InWindow
    <2>3. s \in loaded
      BY <1>1, <2>2, StoreValues DEF LifeInv, NotYetDue
    <2> QED
      BY <2>1, <2>3
  <1>3. CASE age > 2160
    <2> DEFINE s == "telemeter-0to2w"
    <2>1. InWindow(s, age)
      BY <1>1, <1>3, WindowValues DEF InWindow, TooOld, TooYoung, Unset
    <2>2. ~ DueBy(s, age)
      <3>1. Enters(s, uploadedAt) = 336
        BY <1>1, WindowValues DEF Enters, TooYoung, Unset
      <3> QED
        BY <1>1, <1>3, <2>1, <3>1 DEF DueBy, InWindow
    <2>3. s \in loaded
      BY <1>1, <2>2, StoreValues DEF LifeInv, NotYetDue
    <2> QED
      BY <2>1, <2>3
  <1> QED
    BY <1>1, <1>2, <1>3

(* The overlap of two hours covers what its store takes to load a block.    *)
LEMMA DefaultIsServed ==
  ASSUME LifeInv, UploadedInTime, ~ local, ring = "default"
  PROVE  \E s \in loaded : InWindow(s, age)
  <1> DEFINE s == "default"
  <1>1. /\ age \in Nat /\ uploadedAt \in Nat /\ SyncWithin \in 0 .. 2
        /\ age > 24 /\ uploadedAt + SyncWithin <= 24 /\ uploadedAt # Never
    BY AgesAreNat, WindowValues, RetentionAssumption DEF LifeInv, UploadedInTime, Never
  <1>2. InWindow(s, age)
    BY <1>1, WindowValues DEF InWindow, TooOld, TooYoung, Unset
  <1>3. ~ DueBy(s, age)
    <2>1. Enters(s, uploadedAt) = IF uploadedAt < 22 THEN 22 ELSE uploadedAt
      BY <1>1, WindowValues DEF Enters, TooYoung, Unset
    <2> QED
      BY <1>1, <1>2, <2>1 DEF DueBy, InWindow
  <1>4. s \in loaded
    BY <1>1, <1>3, StoreValues DEF LifeInv, NotYetDue
  <1> QED
    BY <1>2, <1>4

(* A sample uploaded while the ingesters keep it is served at every age     *)
(* (cr.go:224-226, 351, 411-412 against 505, 536).                          *)
THEOREM SamplesAreServed == Spec => []UploadedInTimeIsServed
  <1>1. LifeInv => UploadedInTimeIsServed
    <2> SUFFICES ASSUME LifeInv, UploadedInTime, ~ local
                 PROVE  \E s \in loaded : InWindow(s, age)
      BY DEF UploadedInTimeIsServed, Served
    <2>1. ring = "telemeter" \/ ring = "default"
      BY DEF LifeInv, TypeOK, Rings
    <2> QED
      BY <2>1, TelemeterIsServed, DefaultIsServed
  <1> QED
    BY <1>1, LifeInvariant, PTL

-----------------------------------------------------------------------------
(* Where a round stands: the records of the rules before next are of this   *)
(* round, the others of the round before, or out of sight if that was       *)
(* missed.  Only the rule of Subscribed reads records further down.         *)
OfThisRound(r)     == recorded[r] = now /\ basis[r] = now
OfTheRoundBefore(r) == recorded[r] = now - interval /\ basis[r] = now - interval
OutOfSight(r)      == recorded[r] = NoSample \/ recorded[r] + 2 * interval <= now

Others == 1 .. 22 \ {6}

SubscribedIsBehind ==
    IF next <= 6 \/ gap
    THEN recorded[Subscribed] < now
    ELSE recorded[Subscribed] = now /\ basis[Subscribed] = now - interval

GroupInv ==
    /\ RulerTypeOK
    /\ gap \/ now >= interval
    /\ \A i \in Others :
          IF i < next THEN OfThisRound(rules[i].record)
          ELSE IF gap THEN OutOfSight(rules[i].record)
                      ELSE OfTheRoundBefore(rules[i].record)
    /\ SubscribedIsBehind

-----------------------------------------------------------------------------
(* The list of rules (telemeter_rules.go:70-192).                           *)
LEMMA RuleCount ==
    /\ Len(rules) = 22
    /\ DOMAIN rules = 1 .. 22
  BY DEF rules

\* The records are those of the 22 rules.
LEMMA RecordsOfRules ==
    /\ Records = {rules[i].record : i \in 1 .. 22}
    /\ rules[6].record = Subscribed
    /\ \A i \in 1 .. 22 : rules[i].record \in Records
  <1>1. rules[6].record = Subscribed
    BY DEF rules, Rule
  <1> QED
    BY <1>1, RuleCount DEF Records

(* No two rules make the same record.                                       *)
LEMMA RecordsDiffer ==
  ASSUME NEW i \in 1 .. 22, NEW j \in 1 .. 22, i # j
  PROVE  rules[i].record # rules[j].record
  BY DEF rules, Rule, RuleOfEither, Subscribed, Workload

(* Every rule but the sixth reads only what stands before it, and never the *)
(* record of the sixth.                                                     *)
LEMMA ReadsStandBefore ==
  ASSUME NEW i \in Others
  PROVE  \A r \in rules[i].reads \cup rules[i].either :
             \E j \in Others : j < i /\ r = rules[j].record
  BY DEF Others, rules, Rule, RuleOfEither, Subscribed, Workload

LEMMA SubscribedReads ==
    /\ rules[6].reads = {rules[j].record : j \in 7 .. 10}
    /\ rules[6].either = {}
  BY DEF rules, Rule, Subscribed

-----------------------------------------------------------------------------
(* Times are numbers, and next is the index of a rule or one beyond.        *)
LEMMA TimesAreInt ==
  ASSUME RulerTypeOK
  PROVE  /\ now \in Nat /\ now <= LastMinute /\ next \in 1 .. 23 /\ LastMinute \in Nat
         /\ Lookback \in 5 .. 8
         /\ \A r \in Records : recorded[r] \in Int /\ recorded[r] >= -1 /\ basis[r] \in Int
  BY RuleCount, LookbackAssumption DEF RulerTypeOK, NoSample

(* A record of this round or of the round before is seen, one that missed   *)
(* a round is not: the interval is below every lookback allowed, and two of *)
(* them are not.                                                            *)
LEMMA WhatIsSeen ==
  ASSUME RulerTypeOK, gap \/ now >= interval, NEW r \in Records
  PROVE  /\ OfThisRound(r) => Visible(r)
         /\ ~ gap /\ OfTheRoundBefore(r) => Visible(r)
         /\ OutOfSight(r) => ~ Visible(r)
  BY TimesAreInt DEF OfThisRound, OfTheRoundBefore, OutOfSight, Visible, NoSample, interval

(* What one evaluation does to the two tables.                              *)
Sets(r, oldest) ==
    /\ recorded' = [recorded EXCEPT ![r] = now]
    /\ basis' = [basis EXCEPT ![r] = oldest]

\* What one evaluation does.
LEMMA EvaluateStep ==
  ASSUME Evaluate, RulerTypeOK
  PROVE  /\ next \in 1 .. 22 /\ next' = next + 1 /\ now' = now /\ gap' = gap
         /\ HasValue(rules[next]) =>
              Sets(rules[next].record,
                   Min({now} \cup {basis[r] : r \in
                        {x \in rules[next].reads \cup rules[next].either : Visible(x)}}))
         /\ ~ HasValue(rules[next]) => recorded' = recorded /\ basis' = basis
  BY RuleCount, TimesAreInt DEF Evaluate, Sets

(* The sixth rule aside, what a rule reads is of this round already.        *)
LEMMA OthersAreOfThisRound ==
  ASSUME GroupInv, Evaluate, next # 6
  PROVE  Sets(rules[next].record, now)
  <1> DEFINE rule == rules[next]
             read == {x \in rule.reads \cup rule.either : Visible(x)}
             seen == {now} \cup {basis[r] : r \in read}
  <1>1. next \in Others /\ now \in Int
    BY EvaluateStep, TimesAreInt DEF GroupInv, Others
  <1>2. ASSUME NEW r \in rule.reads \cup rule.either
        PROVE  Visible(r) /\ basis[r] = now
    <2>1. PICK j \in Others : j < next /\ r = rules[j].record
      BY <1>1, <1>2, ReadsStandBefore
    <2>2. OfThisRound(r) /\ r \in Records
      BY <2>1, RecordsOfRules DEF GroupInv, Others
    <2> QED
      BY <2>2, WhatIsSeen DEF GroupInv, OfThisRound
  <1>3. HasValue(rule)
    BY <1>2 DEF HasValue
  <1>4. seen = {now}
    BY <1>2
  <1>5. Min(seen) = now
    BY <1>1, <1>4, LeastIs
  <1> QED
    BY <1>3, <1>5, EvaluateStep DEF GroupInv

(* The sixth rule sees the round before, or nothing.                        *)
LEMMA TheSixthIsBehind ==
  ASSUME GroupInv, Evaluate, next = 6
  PROVE  /\ gap => recorded' = recorded /\ basis' = basis
         /\ ~ gap => Sets(Subscribed, now - interval)
  <1>1. now \in Int /\ now - interval <= now /\ now - interval \in Int
    BY TimesAreInt DEF GroupInv, interval
  <1>2. ASSUME NEW r \in rules[6].reads
        PROVE  /\ r \in Records
               /\ IF gap THEN OutOfSight(r) ELSE OfTheRoundBefore(r)
    <2>1. PICK j \in 7 .. 10 : r = rules[j].record
      BY <1>2, SubscribedReads
    <2> QED
      BY <2>1, RecordsOfRules DEF GroupInv, Others
  <1>3. rules[7].record \in rules[6].reads
    BY SubscribedReads
  <1>4. CASE gap
    <2>1. ~ Visible(rules[7].record)
      BY <1>2, <1>3, <1>4, WhatIsSeen DEF GroupInv
    <2>2. ~ HasValue(rules[6])
      BY <1>3, <2>1 DEF HasValue
    <2> QED
      BY <1>4, <2>2, EvaluateStep DEF GroupInv
  <1>5. CASE ~ gap
    <2> DEFINE read == {x \in rules[6].reads \cup rules[6].either : Visible(x)}
               seen == {now} \cup {basis[r] : r \in read}
    <2>1. \A r \in rules[6].reads : Visible(r) /\ basis[r] = now - interval
      BY <1>2, <1>5, WhatIsSeen DEF GroupInv, OfTheRoundBefore
    <2>2. HasValue(rules[6])
      BY <2>1, SubscribedReads DEF HasValue
    <2>3. read = rules[6].reads
      BY <2>1, SubscribedReads
    <2>4. seen = {now, now - interval}
      BY <1>3, <2>1, <2>3
    <2>5. Min(seen) = now - interval
      BY <1>1, <2>4, LeastIs
    <2>6. Sets(rules[6].record, Min(seen))
      BY <2>2, EvaluateStep DEF GroupInv
    <2> QED
      BY <1>5, <2>5, <2>6, RecordsOfRules
  <1> QED
    BY <1>4, <1>5

\* The empty group satisfies the invariant.
LEMMA RulerInitGroup == RulerInit => GroupInv
  <1> SUFFICES ASSUME RulerInit PROVE GroupInv
    OBVIOUS
  <1>1. RulerTypeOK
    BY LookbackAssumption, RuleCount DEF RulerInit, RulerTypeOK, NoSample
  <1>2. \A i \in Others : recorded[rules[i].record] = NoSample
    BY RecordsOfRules DEF RulerInit, Others
  <1>3. recorded[Subscribed] = NoSample
    BY RecordsOfRules DEF RulerInit
  <1> QED
    BY <1>1, <1>2, <1>3
    DEF GroupInv, RulerInit, SubscribedIsBehind, OutOfSight, NoSample, Others

(* One rule is evaluated: the types, and the record of its own alone.       *)
LEMMA EvaluateTypes ==
  ASSUME GroupInv, Evaluate
  PROVE  RulerTypeOK'
  <1>1. next' \in 1 .. Len(rules) + 1 /\ now' = now /\ gap' = gap
    BY EvaluateStep, RuleCount DEF GroupInv
  <1>2. /\ now \in {NoSample} \cup 0 .. LastMinute
        /\ ~ gap => now - interval \in {NoSample} \cup 0 .. LastMinute
    BY TimesAreInt DEF GroupInv, interval
  <1>3. /\ recorded' \in [Records -> {NoSample} \cup 0 .. LastMinute]
        /\ basis' \in [Records -> {NoSample} \cup 0 .. LastMinute]
    <2>1. CASE next = 6
      BY <1>2, <2>1, TheSixthIsBehind DEF GroupInv, RulerTypeOK, Sets
    <2>2. CASE next # 6
      BY <1>2, <2>2, OthersAreOfThisRound DEF GroupInv, RulerTypeOK, Sets
    <2> QED
      BY <2>1, <2>2
  <1> QED
    BY <1>1, <1>3 DEF GroupInv, RulerTypeOK

\* A rule sets its own record only.
LEMMA SetsOne ==
  ASSUME RulerTypeOK, NEW i \in 1 .. 22, NEW oldest, Sets(rules[i].record, oldest)
  PROVE  /\ recorded'[rules[i].record] = now /\ basis'[rules[i].record] = oldest
         /\ \A j \in 1 .. 22 \ {i} :
               /\ recorded'[rules[j].record] = recorded[rules[j].record]
               /\ basis'[rules[j].record] = basis[rules[j].record]
  BY RecordsDiffer, RecordsOfRules DEF Sets, RulerTypeOK

\* An evaluation keeps the invariant.
LEMMA EvaluateGroup ==
  ASSUME GroupInv, Evaluate
  PROVE  GroupInv'
  <1>1. RulerTypeOK'
    BY EvaluateTypes
  <1>2. next \in 1 .. 22 /\ next' = next + 1 /\ now' = now /\ gap' = gap
    BY EvaluateStep DEF GroupInv
  <1>3. now \in Int /\ now - interval < now /\ Subscribed = rules[6].record
    BY TimesAreInt, RecordsOfRules DEF GroupInv, interval
  <1>4. CASE next = 6
    <2>1. \A j \in Others :
             /\ recorded'[rules[j].record] = recorded[rules[j].record]
             /\ basis'[rules[j].record] = basis[rules[j].record]
      <3>1. CASE gap
        BY <1>4, <3>1, TheSixthIsBehind
      <3>2. CASE ~ gap
        BY <1>3, <1>4, <3>2, TheSixthIsBehind, SetsOne DEF GroupInv, Others
      <3> QED
        BY <3>1, <3>2
    <2>2. \A i \in Others : i < next' <=> i < next
      BY <1>2, <1>4 DEF Others
    <2>3. SubscribedIsBehind'
      <3>1. CASE gap
        BY <1>2, <1>4, <3>1, TheSixthIsBehind DEF GroupInv, SubscribedIsBehind
      <3>2. CASE ~ gap
        BY <1>2, <1>3, <1>4, <3>2, TheSixthIsBehind, SetsOne
        DEF GroupInv, SubscribedIsBehind, interval
      <3> QED
        BY <3>1, <3>2
    <2> QED
      BY <1>1, <1>2, <2>1, <2>2, <2>3
      DEF GroupInv, OfThisRound, OfTheRoundBefore, OutOfSight
  <1>5. CASE next # 6
    <2>1. /\ recorded'[rules[next].record] = now /\ basis'[rules[next].record] = now
          /\ \A j \in 1 .. 22 \ {next} :
                /\ recorded'[rules[j].record] = recorded[rules[j].record]
                /\ basis'[rules[j].record] = basis[rules[j].record]
      BY <1>2, <1>5, OthersAreOfThisRound, SetsOne DEF GroupInv
    <2>2. \A i \in Others : i < next' <=> i < next \/ i = next
      BY <1>2 DEF Others
    <2>3. ASSUME NEW i \in Others
          PROVE  (IF i < next THEN OfThisRound(rules[i].record)
                  ELSE IF gap THEN OutOfSight(rules[i].record)
                              ELSE OfTheRoundBefore(rules[i].record))'
      <3>1. CASE i = next
        BY <1>2, <2>1, <2>2, <3>1 DEF OfThisRound
      <3>2. CASE i # next
        <4>1. /\ recorded'[rules[i].record] = recorded[rules[i].record]
              /\ basis'[rules[i].record] = basis[rules[i].record]
          BY <2>1, <3>2 DEF Others
        <4> QED
          BY <1>2, <2>2, <3>2, <4>1 DEF GroupInv, OfThisRound, OfTheRoundBefore, OutOfSight
      <3> QED
        BY <3>1, <3>2
    <2>4. /\ recorded'[Subscribed] = recorded[Subscribed]
          /\ basis'[Subscribed] = basis[Subscribed]
          /\ next' <= 6 <=> next <= 6
      BY <1>2, <1>3, <1>5, <2>1
    <2>5. SubscribedIsBehind'
      BY <1>2, <2>4 DEF GroupInv, SubscribedIsBehind
    <2> QED
      BY <1>1, <1>2, <2>3, <2>5 DEF GroupInv
  <1> QED
    BY <1>4, <1>5

(* A new round: what was of this one is of the round before, or two rounds  *)
(* or more old.                                                             *)
LEMMA NextRoundGroup ==
  ASSUME GroupInv, NEW missed \in 0 .. 2, NextRound(missed)
  PROVE  GroupInv'
  <1>1. /\ now \in Nat /\ now' = now + (missed + 1) * interval /\ now' \in 0 .. LastMinute
        /\ next' = 1 /\ next > 22 /\ recorded' = recorded /\ basis' = basis
    BY TimesAreInt, RuleCount DEF GroupInv, NextRound, RoundDone, interval
  <1>2. /\ missed > 0 => gap' = TRUE
        /\ missed = 0 => gap' = FALSE
        /\ missed = 0 \/ missed > 0
    <2>1. gap' = (missed > 0) /\ missed \in Nat
      BY DEF NextRound
    <2>2. /\ missed > 0 => (missed > 0) = TRUE
          /\ missed = 0 => (missed > 0) = FALSE
          /\ missed = 0 \/ missed > 0
      BY <2>1
    <2> QED
      BY <2>1, <2>2, Zenon
  <1>3. RulerTypeOK'
    <2>1. gap' \in BOOLEAN
      BY <1>2, Zenon
    <2> QED
      BY <1>1, <2>1, RuleCount DEF GroupInv, RulerTypeOK
  <1>4. (gap \/ now >= interval)'
    BY <1>1, <1>2 DEF interval
  <1>5. \A i \in Others : OfThisRound(rules[i].record)
    BY <1>1, TimesAreInt DEF GroupInv, Others
  <1>6. ASSUME NEW i \in Others
        PROVE  (IF gap THEN OutOfSight(rules[i].record)
                       ELSE OfTheRoundBefore(rules[i].record))'
    <2>1. /\ recorded'[rules[i].record] = now
          /\ basis'[rules[i].record] = now
      BY <1>1, <1>5 DEF OfThisRound
    <2>2. CASE missed = 0
      <3>1. ~ gap' /\ now = now' - interval
        BY <1>1, <1>2, <2>2 DEF interval
      <3> QED
        BY <2>1, <3>1 DEF OfTheRoundBefore
    <2>3. CASE missed # 0
      <3>1. gap' /\ now + 2 * interval <= now'
        BY <1>1, <1>2, <2>3 DEF interval
      <3> QED
        BY <2>1, <3>1 DEF OutOfSight
    <2> QED
      BY <2>2, <2>3
  <1>7. SubscribedIsBehind'
    <2>1. recorded[Subscribed] \in Int /\ recorded[Subscribed] <= now
      BY <1>1, TimesAreInt, RecordsOfRules DEF GroupInv, SubscribedIsBehind
    <2> QED
      BY <1>1, <2>1 DEF SubscribedIsBehind, interval
  <1> QED
    BY <1>1, <1>3, <1>4, <1>6, <1>7 DEF GroupInv, Others

(* GroupInv is an invariant, for any number of rounds of which some are     *)
(* missed, and any lookback from five minutes to eight.                     *)
THEOREM GroupInvariant == RulerSpec => []GroupInv
  <1>1. GroupInv /\ [RulerNext]_rulerVars => GroupInv'
    <2> SUFFICES ASSUME GroupInv, [RulerNext]_rulerVars PROVE GroupInv'
      OBVIOUS
    <2>1. CASE Evaluate
      BY <2>1, EvaluateGroup
    <2>2. ASSUME NEW missed \in 0 .. 2, NextRound(missed) PROVE GroupInv'
      BY <2>2, NextRoundGroup
    <2>3. CASE UNCHANGED rulerVars
      BY <2>3 DEF rulerVars, GroupInv, RulerTypeOK, SubscribedIsBehind,
                  OfThisRound, OfTheRoundBefore, OutOfSight
    <2> QED
      BY <2>1, <2>2, <2>3 DEF RulerNext
  <1> QED
    BY <1>1, RulerInitGroup, PTL DEF RulerSpec

(* The state of the ruler stays well-typed.                                 *)
THEOREM RulerTypes == RulerSpec => []RulerTypeOK
  <1>1. GroupInv => RulerTypeOK
    BY DEF GroupInv
  <1> QED
    BY <1>1, GroupInvariant, PTL

(* After every round every record is of that round, but for the one of the  *)
(* sixth rule, which is of the round before or not there at all             *)
(* (telemeter_rules.go:70, 105 against 110-125).                            *)
THEOREM NoneIsFurtherBehind == RulerSpec => []OneRoundBehindAtMost
  <1>1. GroupInv => OneRoundBehindAtMost
    <2> SUFFICES ASSUME GroupInv, RoundDone, NEW r \in Records
                 PROVE  \/ recorded[r] = now /\ basis[r] = now
                        \/ /\ r = Subscribed
                           /\ IF gap THEN recorded[r] # now
                                     ELSE recorded[r] = now /\ basis[r] = now - interval
      BY DEF OneRoundBehindAtMost
    <2>1. next > 22 /\ next \in Int /\ now \in Nat /\ recorded[r] \in Int
      BY RuleCount, TimesAreInt DEF RoundDone, GroupInv
    <2>2. PICK i \in 1 .. 22 : r = rules[i].record
      BY RecordsOfRules
    <2>3. CASE i = 6
      BY <2>1, <2>2, <2>3, RecordsOfRules DEF GroupInv, SubscribedIsBehind
    <2>4. CASE i # 6
      BY <2>1, <2>2, <2>4 DEF GroupInv, OfThisRound, Others
    <2> QED
      BY <2>3, <2>4
  <1> QED
    BY <1>1, GroupInvariant, PTL

-----------------------------------------------------------------------------
(* A step of the stage is one of its rollout, of its sample or of its ruler *)
(* and leaves the other two alone: every behaviour of the stage is one of   *)
(* each of the three.                                                       *)
THEOREM PartsOfTheStage == StageSpec => Spec /\ RulerSpec /\ RolloutSpec
  <1>1. StageInit => Init /\ RulerInit /\ ClusterInit
    BY DEF StageInit
  <1>2. [StageNext]_StageVars =>
           [Next]_vars /\ [RulerNext]_rulerVars /\ [RolloutNext]_clusterVars
    BY DEF StageNext, SampleLives, RulesEvaluate, Rolls, StageVars
  <1> QED
    BY <1>1, <1>2, PTL DEF StageSpec, Spec, RulerSpec, RolloutSpec

(* The stage keeps its types: of the cluster that each kind and name is     *)
(* there at most once, of the ruler that its rounds stay in bounds, of the  *)
(* sample that only stores of its ring have loaded it.                      *)
THEOREM StageTypes == StageSpec => []StageTypeOK
  <1>1. LifeInv => TypeOK
    BY DEF LifeInv
  <1> QED
    BY <1>1, PartsOfTheStage, LifeInvariant, ClusterTypes, RulerTypes, PTL DEF StageTypeOK

(* What is proved of each part holds of the whole, in any order of their    *)
(* steps.                                                                   *)
THEOREM StageIsSound ==
    StageSpec =>
        [](/\ OnlyTheCacheGoesDark /\ NothingIsMissing /\ NothingElseDangles
           /\ EverythingIsScraped /\ UploadedInTimeIsServed /\ OneRoundBehindAtMost)
  BY PartsOfTheStage, OnlyTheCacheLosesItsPods, EveryEntryIsThere, NothingDangles,
     MonitorsScrape, SamplesAreServed, NoneIsFurtherBehind, PTL
=============================================================================
