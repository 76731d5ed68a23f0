-------------------------- MODULE Manifests_proofs --------------------------
(***************************************************************************)
(* Proofs about the generator of the manifests, for any set of             *)
(* configurations: any list of instances, also one that repeats them, any  *)
(* tenants and any two namespaces.                                         *)
(***************************************************************************)
EXTENDS Manifests, SequenceTheorems, TLAPS

-----------------------------------------------------------------------------
(* The list of calls. *)

N == Len(config.instances)

\* A step is one of the calls, for one of the instances or for none.
StepValues == [call : STRING, inst : STRING]

\* The fields of a configuration.
LEMMA ConfigTypes ==
  ASSUME config \in Configs
  PROVE  /\ N \in Nat /\ config.ns \in STRING /\ config.apiNs \in STRING
         /\ config.instances \in [1 .. N -> DOMAIN tenantsMapping]
         /\ Instances \subseteq DOMAIN tenantsMapping
         /\ DOMAIN config.tenants \subseteq TenantName
  BY ConfigsAssumption DEF N, Instances, ConfigsAssumption

\* Two lists one after the other, by position.
LEMMA Concatenated ==
  ASSUME NEW m \in Nat, NEW l \in Nat, NEW a, NEW b,
         DOMAIN a = 1 .. m, a = [k \in 1 .. m |-> a[k]],
         DOMAIN b = 1 .. l, b = [k \in 1 .. l |-> b[k]]
  PROVE  /\ Len(a \o b) = m + l
         /\ \A k \in 1 .. m : (a \o b)[k] = a[k]
         /\ \A j \in 1 .. l : (a \o b)[m + j] = b[j]
<1> DEFINE S == {a[k] : k \in 1 .. m} \cup {b[k] : k \in 1 .. l}
<1>1. a \in [1 .. m -> S] /\ b \in [1 .. l -> S]
  OBVIOUS
<1> HIDE DEF S
<1>2. a \in Seq(S) /\ Len(a) = m /\ b \in Seq(S) /\ Len(b) = l
  BY <1>1
<1>3. /\ Len(a \o b) = m + l
      /\ \A k \in 1 .. m + l : (a \o b)[k] = IF k <= m THEN a[k] ELSE b[k - m]
  BY <1>2, ConcatProperties
<1>4. ASSUME NEW j \in 1 .. l
      PROVE  (a \o b)[m + j] = b[j]
  <2>1. m + j \in 1 .. m + l /\ ~ (m + j <= m) /\ (m + j) - m = j
    OBVIOUS
  <2> QED
    BY <1>3, <2>1
<1>5. ASSUME NEW k \in 1 .. m
      PROVE  (a \o b)[k] = a[k]
  <2>1. k \in 1 .. m + l /\ k <= m
    OBVIOUS
  <2> QED
    BY <1>3, <2>1
<1> QED
  BY <1>3, <1>4, <1>5

\* Four calls for each instance, then six for the deployment.
LEMMA StepsShape ==
  ASSUME config \in Configs
  PROVE  /\ Len(Steps) = 4 * N + 6
         /\ \A k \in 1 .. 4 * N :
               Steps[k] = [call |-> InstanceCalls[((k - 1) % 4) + 1],
                           inst |-> config.instances[((k - 1) \div 4) + 1]]
         /\ \A j \in 1 .. 6 : Steps[4 * N + j] = [call |-> CommonCalls[j], inst |-> ""]
<1> DEFINE a == [k \in 1 .. (4 * N) |-> [call |-> InstanceCalls[((k - 1) % 4) + 1],
                                         inst |-> config.instances[((k - 1) \div 4) + 1]]]
           b == [j \in 1 .. 6 |-> [call |-> CommonCalls[j], inst |-> ""]]
<1>1. 4 * N \in Nat /\ 6 \in Nat
  BY ConfigTypes
<1>2. Len(CommonCalls) = 6
  BY DEF CommonCalls
<1>3. Steps = a \o b
  BY <1>2 DEF Steps, N
<1>4. DOMAIN a = 1 .. 4 * N /\ a = [k \in 1 .. 4 * N |-> a[k]]
  OBVIOUS
<1>5. DOMAIN b = 1 .. 6 /\ b = [k \in 1 .. 6 |-> b[k]]
  OBVIOUS
<1>6. \A k \in 1 .. 4 * N :
         a[k] = [call |-> InstanceCalls[((k - 1) % 4) + 1],
                 inst |-> config.instances[((k - 1) \div 4) + 1]]
  OBVIOUS
<1>7. \A j \in 1 .. 6 : b[j] = [call |-> CommonCalls[j], inst |-> ""]
  OBVIOUS
<1> HIDE DEF a, b
<1>8. /\ Len(a \o b) = 4 * N + 6
      /\ \A k \in 1 .. 4 * N : (a \o b)[k] = a[k]
      /\ \A j \in 1 .. 6 : (a \o b)[4 * N + j] = b[j]
  BY <1>1, <1>4, <1>5, Concatenated
<1> QED
  BY <1>3, <1>6, <1>7, <1>8

\* Where each call stands.
LEMMA InstanceStep ==
  ASSUME config \in Configs, NEW p \in 1 .. N, NEW j \in 1 .. 4, next = 4 * p - 4 + j
  PROVE  ~ Done /\ Steps[next].call = InstanceCalls[j] /\ Inst = config.instances[p]
<1>1. N \in Nat
  BY ConfigTypes
<1>2. next \in 1 .. 4 * N /\ ((next - 1) % 4) + 1 = j /\ ((next - 1) \div 4) + 1 = p
  BY <1>1
<1>3. Steps[next] = [call |-> InstanceCalls[j], inst |-> config.instances[p]]
  BY <1>2, StepsShape
<1>4. Len(Steps) = 4 * N + 6
  BY StepsShape
<1>5. ~ Done
  BY <1>1, <1>2, <1>4 DEF Done
<1> QED
  BY <1>3, <1>5 DEF Inst

\* After the instances come the six calls that all of them share.
LEMMA CommonStep ==
  ASSUME config \in Configs, NEW j \in 1 .. 6, next = 4 * N + j
  PROVE  ~ Done /\ Steps[next].call = CommonCalls[j]
<1>1. N \in Nat
  BY ConfigTypes
<1>2. Steps[next] = [call |-> CommonCalls[j], inst |-> ""]
  BY StepsShape
<1>3. Len(Steps) = 4 * N + 6
  BY StepsShape
<1>4. ~ Done
  BY <1>1, <1>3 DEF Done
<1>5. [call |-> CommonCalls[j], inst |-> ""].call = CommonCalls[j]
  OBVIOUS
<1> QED
  BY <1>2, <1>4, <1>5, Zenon

\* Where each call stands in the list of calls.
LEMMA StepPosition ==
  ASSUME config \in Configs, next \in 1 .. 4 * N + 7
  PROVE  \/ \E p \in 1 .. N, j \in 1 .. 4 : next = 4 * p - 4 + j
         \/ \E j \in 1 .. 6 : next = 4 * N + j
         \/ next = 4 * N + 7 /\ Done
<1>1. N \in Nat
  BY ConfigTypes
<1>2. CASE next <= 4 * N
  <2> DEFINE p == ((next - 1) \div 4) + 1
             j == ((next - 1) % 4) + 1
  <2>1. p \in 1 .. N /\ j \in 1 .. 4 /\ next = 4 * p - 4 + j
    BY <1>1, <1>2
  <2> QED
    BY <2>1
<1>3. CASE next \in 4 * N + 1 .. 4 * N + 6
  <2>1. next - 4 * N \in 1 .. 6 /\ next = 4 * N + (next - 4 * N)
    BY <1>1, <1>3
  <2> QED
    BY <2>1
<1>4. CASE next = 4 * N + 7
  <2>1. Len(Steps) = 4 * N + 6
    BY StepsShape
  <2> QED
    BY <1>1, <1>4, <2>1 DEF Done
<1> QED
  BY <1>1, <1>2, <1>3, <1>4

InstanceCall == {"ingestor", "compact", "store", "ruler"}

LEMMA CallPositions ==
  ASSUME config \in Configs, next \in 1 .. 4 * N + 7
  PROVE  /\ \A c \in InstanceCall : At(c) =>
               /\ next \in 1 .. 4 * N /\ Inst \in Instances
               /\ \A p \in 1 .. N, j \in 1 .. 4 :
                     next = 4 * p - 4 + j => c = InstanceCalls[j] /\ Inst = config.instances[p]
         /\ At("router") => next = 4 * N + 1
         /\ At("query-rule") => next = 4 * N + 2
         /\ At("query") => next = 4 * N + 3
         /\ At("frontend") => next = 4 * N + 4
         /\ At("alertmanager") => next = 4 * N + 5
         /\ At("api") => next = 4 * N + 6
<1>1. N \in Nat
  BY ConfigTypes
<1>2. /\ InstanceCalls[1] = "ingestor" /\ InstanceCalls[2] = "compact"
      /\ InstanceCalls[3] = "store" /\ InstanceCalls[4] = "ruler"
  BY DEF InstanceCalls
<1>3. /\ CommonCalls[1] = "router" /\ CommonCalls[2] = "query-rule"
      /\ CommonCalls[3] = "query" /\ CommonCalls[4] = "frontend"
      /\ CommonCalls[5] = "alertmanager" /\ CommonCalls[6] = "api"
  BY DEF CommonCalls
<1>4. ASSUME NEW p \in 1 .. N, NEW j \in 1 .. 4, next = 4 * p - 4 + j
      PROVE  /\ \A c : At(c) => c = InstanceCalls[j]
             /\ InstanceCalls[j] \in InstanceCall
             /\ Inst = config.instances[p] /\ Inst \in Instances /\ next \in 1 .. 4 * N
  BY <1>1, <1>2, <1>4, InstanceStep DEF At, InstanceCall, Instances, N
<1>5. ASSUME NEW j \in 1 .. 6, next = 4 * N + j
      PROVE  /\ \A c : At(c) => c = CommonCalls[j]
             /\ CommonCalls[j] \notin InstanceCall
  BY <1>1, <1>3, <1>5, CommonStep DEF At, InstanceCall
<1>6. Done => \A c : ~ At(c)
  BY DEF At
<1>7. CASE \E p \in 1 .. N, j \in 1 .. 4 : next = 4 * p - 4 + j
  <2>1. \A c \in {"router", "query-rule", "query", "frontend", "alertmanager", "api"} : ~ At(c)
    BY <1>4, <1>7 DEF InstanceCall
  <2> QED
    BY <1>4, <1>7, <2>1
<1>8. CASE \E j \in 1 .. 6 : next = 4 * N + j
  <2> PICK j \in 1 .. 6 : next = 4 * N + j
    BY <1>8
  <2>1. \A c \in InstanceCall : ~ At(c)
    BY <1>5
  <2>2. \A c : At(c) => c = CommonCalls[j]
    BY <1>5
  <2> QED
    BY <1>3, <2>1, <2>2
<1> QED
  BY <1>6, <1>7, <1>8, StepPosition DEF InstanceCall

-----------------------------------------------------------------------------
(* The invariant: what the calls made so far have left behind. *)

Has(name) == \E s \in services : s.name = name

Endpoints ==
    {URL(Ingestor(i), Grpc) : i \in Instances} \cup {URL(Store(i), Grpc) : i \in Instances}
        \cup {URL(Ruler(i), Port("10902")) : i \in Instances}

\* The instance at p has had its calls as far as next has come.
InstanceMade(p, i) ==
    /\ next > 4 * p - 3 => /\ URL(Ingestor(i), Grpc) \in storesRegister
                           /\ i \in ingestors /\ Has(Ingestor(i))
    /\ next > 4 * p - 1 => /\ URL(Store(i), Grpc) \in storesRegister
                           /\ Has(Store(i)) /\ Has(IndexCache(i))
    /\ next > 4 * p     => URL(Ruler(i), Port("10902")) \in storesRegister /\ Has(Ruler(i))

InstancesInv ==
    /\ storesRegister \subseteq Endpoints
    /\ ingestors \subseteq Instances
    /\ \A p \in 1 .. N : InstanceMade(p, config.instances[p])

Hashrings ==
    {[hashring |-> i, tenants |-> {t.id : t \in MetricTenants(i)}] : i \in Instances}
Limits == {t.id : t \in {u \in UNION {MetricTenants(i) : i \in Instances} : u.limited}}

RouterInv ==
    /\ next <= 4 * N + 1 => hashrings = {} /\ limits = {}
    /\ next > 4 * N + 1 => /\ hashrings = Hashrings /\ limits = Limits /\ Has(Router)
                           /\ Ref(Router, MetaMonitoringURL) \in refs /\ JaegerAgent \in refs
    /\ apiTenants \subseteq MakeObsTenants(config.tenants)

AdhocURL == URL(Query, Port("10902"))

QueryInv ==
    /\ next > 4 * N + 2 => Has(QueryRule) /\ \A u \in storesRegister : Ref(QueryRule, u) \in refs
    /\ next > 4 * N + 3 => /\ Has(Query) /\ queryAdhocURL = AdhocURL
                           /\ \A u \in storesRegister : Ref(Query, u) \in refs
    /\ next > 4 * N + 4 => /\ Has(QueryFrontend) /\ Has(RangeCache)
                           /\ Ref(QueryFrontend, AdhocURL) \in refs

OthersInv ==
    /\ next > 4 * N + 5 => Has(Alertmanager) /\ Has(AlertCluster)
    /\ next > 4 * N + 6 => Has(API) /\ Has(RulesObjstore) /\ Has(ApiCache) /\ Has(Gubernator)

\* What is dialled is, or will be, a service of one of the two namespaces, or one
\* of the two addresses outside, which no file answers; the queries dial what has
\* registered.
Targets ==
    (UNION {{Ingestor(i), Store(i), Ruler(i), IndexCache(i)} : i \in Instances})
        \cup {QueryRule, Query, QueryFrontend, RangeCache, Router, Alertmanager, AlertCluster,
              API, RulesObjstore, ApiCache, Gubernator}

Namespaces == {config.ns, config.apiNs}

Outside == {TraceWriter, MetaMonitoringURL}

RefInv(r) ==
    /\ r.to \in Outside \/ (r.to.name \in Targets /\ r.to.ns \in Namespaces)
    /\ r.to.port[1] \in {"srv", "port"}
    /\ r.by \in {Query, QueryRule} => r.to \in storesRegister

RefsInv ==
    /\ \A r \in refs : RefInv(r)
    /\ \A s \in services : s = [name |-> s.name, ns |-> s.ns] /\ s.ns \in Namespaces
    /\ \A u \in Outside : ~ Has(u.name)

ManifestsInv ==
    /\ config \in Configs /\ next \in 1 .. 4 * N + 7
    /\ InstancesInv /\ RouterInv /\ QueryInv /\ OthersInv /\ RefsInv

\* Before any call the invariant holds.
LEMMA FirstCalls ==
  ASSUME ConfigsAssumption, Init
  PROVE  ManifestsInv
<1>1. config \in Configs /\ next = 1 /\ N \in Nat
  BY ConfigTypes DEF Init
<1>2. InstancesInv
  <2>1. ASSUME NEW p \in 1 .. N
        PROVE  InstanceMade(p, config.instances[p])
    <3>1. ~ (next > 4 * p - 3) /\ ~ (next > 4 * p - 1) /\ ~ (next > 4 * p)
      BY <1>1
    <3> QED
      BY <3>1 DEF InstanceMade
  <2> QED
    BY <2>1 DEF InstancesInv, Init
<1>3. RouterInv /\ QueryInv /\ OthersInv
  BY <1>1 DEF RouterInv, QueryInv, OthersInv, Init
<1>4. RefsInv
  BY DEF RefsInv, Has, Init
<1> QED
  BY <1>1, <1>2, <1>3, <1>4 DEF ManifestsInv

-----------------------------------------------------------------------------
(* What every call does, and which call is made where. *)

LEMMA CallsAdd ==
  ASSUME Next
  PROVE  /\ config' = config /\ next' = next + 1
         /\ services \subseteq services' /\ refs \subseteq refs'
         /\ storesRegister \subseteq storesRegister' /\ ingestors \subseteq ingestors'
         /\ \A m : Has(m) => Has(m)'
<1>1. /\ config' = config /\ next' = next + 1
      /\ services \subseteq services' /\ refs \subseteq refs'
  BY DEF Next, MakeTenantReceiveIngestor, MakeCompactor, MakeStore, MakeRuler, MakeReceiveRouter,
         MakeQueryConfig, MakeQueryFrontend, MakeAlertManager, MakeAPI, Emit
<1>2. storesRegister \subseteq storesRegister' /\ ingestors \subseteq ingestors'
  BY DEF Next, MakeTenantReceiveIngestor, MakeCompactor, MakeStore, MakeRuler, MakeReceiveRouter,
         MakeQueryConfig, MakeQueryFrontend, MakeAlertManager, MakeAPI, Register, registers,
         routing
<1>3. \A m : Has(m) => Has(m)'
  BY <1>1 DEF Has
<1> QED
  BY <1>1, <1>2, <1>3

LEMMA CallAt ==
  ASSUME config \in Configs, next \in 1 .. 4 * N + 7, Next
  PROVE  /\ next <= 4 * N + 6
         /\ \A p \in 1 .. N : /\ next = 4 * p - 3 =>
                                    MakeTenantReceiveIngestor /\ Inst = config.instances[p]
                              /\ next = 4 * p - 1 => MakeStore /\ Inst = config.instances[p]
                              /\ next = 4 * p => MakeRuler /\ Inst = config.instances[p]
         /\ next = 4 * N + 1 => MakeReceiveRouter
         /\ next = 4 * N + 2 => MakeQueryConfig(TRUE)
         /\ next = 4 * N + 3 => MakeQueryConfig(FALSE)
         /\ next = 4 * N + 4 => MakeQueryFrontend
         /\ next = 4 * N + 5 => MakeAlertManager
         /\ next = 4 * N + 6 => MakeAPI
<1>1. N \in Nat
  BY ConfigTypes
<1>2. \/ At("ingestor") /\ MakeTenantReceiveIngestor
      \/ At("compact") /\ MakeCompactor
      \/ At("store") /\ MakeStore
      \/ At("ruler") /\ MakeRuler
      \/ At("router") /\ MakeReceiveRouter
      \/ At("query-rule") /\ MakeQueryConfig(TRUE)
      \/ At("query") /\ MakeQueryConfig(FALSE)
      \/ At("frontend") /\ MakeQueryFrontend
      \/ At("alertmanager") /\ MakeAlertManager
      \/ At("api") /\ MakeAPI
  <2>1. \A b \in BOOLEAN : MakeQueryConfig(b) =>
            \/ At("query-rule") /\ MakeQueryConfig(TRUE)
            \/ At("query") /\ MakeQueryConfig(FALSE)
    <3>1. MakeQueryConfig(TRUE) => At("query-rule")
      BY DEF MakeQueryConfig
    <3>2. MakeQueryConfig(FALSE) => At("query")
      BY DEF MakeQueryConfig
    <3> QED
      BY <3>1, <3>2
  <2>2. /\ MakeTenantReceiveIngestor => At("ingestor")
        /\ MakeCompactor => At("compact")
        /\ MakeStore => At("store")
        /\ MakeRuler => At("ruler")
        /\ MakeReceiveRouter => At("router")
        /\ MakeQueryFrontend => At("frontend")
        /\ MakeAlertManager => At("alertmanager")
        /\ MakeAPI => At("api")
    BY DEF MakeTenantReceiveIngestor, MakeCompactor, MakeStore, MakeRuler, MakeReceiveRouter,
           MakeQueryFrontend, MakeAlertManager, MakeAPI
  <2> QED
    BY <2>1, <2>2, Zenon DEF Next
<1>3. /\ InstanceCalls[1] = "ingestor" /\ InstanceCalls[2] = "compact"
      /\ InstanceCalls[3] = "store" /\ InstanceCalls[4] = "ruler"
  BY DEF InstanceCalls
<1>4. ASSUME NEW c \in InstanceCall, At(c)
      PROVE  /\ next \in 1 .. 4 * N
             /\ \A p \in 1 .. N :
                   /\ next = 4 * p - 3 => c = "ingestor" /\ Inst = config.instances[p]
                   /\ next = 4 * p - 1 => c = "store" /\ Inst = config.instances[p]
                   /\ next = 4 * p => c = "ruler" /\ Inst = config.instances[p]
  <2>1. ASSUME NEW p \in 1 .. N, NEW j \in 1 .. 4, next = 4 * p - 4 + j
        PROVE  c = InstanceCalls[j] /\ Inst = config.instances[p]
    BY <1>4, <2>1, CallPositions
  <2>2. next \in 1 .. 4 * N
    BY <1>4, CallPositions
  <2>3. ASSUME NEW p \in 1 .. N
        PROVE  /\ next = 4 * p - 3 => next = 4 * p - 4 + 1
               /\ next = 4 * p - 1 => next = 4 * p - 4 + 3
               /\ next = 4 * p => next = 4 * p - 4 + 4
    BY <1>1
  <2> QED
    BY <1>3, <2>1, <2>2, <2>3
<1>5. \A c \in {"router", "query-rule", "query", "frontend", "alertmanager", "api"} :
         At(c) => ~ (next <= 4 * N) /\ next <= 4 * N + 6
  BY <1>1, CallPositions
<1>6. ASSUME NEW p \in 1 .. N, next \in {4 * p - 3, 4 * p - 1, 4 * p}
      PROVE  next <= 4 * N /\ next \notin {4 * N + k : k \in 1 .. 6}
  BY <1>1, <1>6
<1>7. ASSUME NEW c \in InstanceCall, At(c)
      PROVE  /\ next <= 4 * N + 6
             /\ next # 4 * N + 1 /\ next # 4 * N + 2 /\ next # 4 * N + 3
             /\ next # 4 * N + 4 /\ next # 4 * N + 5 /\ next # 4 * N + 6
             /\ \A d \in {"router", "query-rule", "query", "frontend", "alertmanager", "api"} : ~ At(d)
             /\ \A d \in InstanceCall \ {c} : ~ At(d)
  <2>1. next \in 1 .. 4 * N
    BY <1>4, <1>7
  <2>2. \A d : At(d) => d = c
    BY <1>7 DEF At
  <2> QED
    BY <1>1, <2>1, <2>2, <1>7 DEF InstanceCall
<1>8. ASSUME NEW d \in {"router", "query-rule", "query", "frontend", "alertmanager", "api"}, At(d)
      PROVE  /\ next <= 4 * N + 6
             /\ \A p \in 1 .. N : next # 4 * p - 3 /\ next # 4 * p - 1 /\ next # 4 * p
             /\ next = 4 * N + 1 => d = "router"
             /\ next = 4 * N + 2 => d = "query-rule"
             /\ next = 4 * N + 3 => d = "query"
             /\ next = 4 * N + 4 => d = "frontend"
             /\ next = 4 * N + 5 => d = "alertmanager"
             /\ next = 4 * N + 6 => d = "api"
  <2>1. ~ (next <= 4 * N) /\ next <= 4 * N + 6
    BY <1>5, <1>8
  <2>2. \A p \in 1 .. N : next # 4 * p - 3 /\ next # 4 * p - 1 /\ next # 4 * p
    BY <1>6, <2>1
  <2>3. /\ d = "router" => next = 4 * N + 1
        /\ d = "query-rule" => next = 4 * N + 2
        /\ d = "query" => next = 4 * N + 3
        /\ d = "frontend" => next = 4 * N + 4
        /\ d = "alertmanager" => next = 4 * N + 5
        /\ d = "api" => next = 4 * N + 6
    BY <1>8, CallPositions
  <2> QED
    BY <1>1, <2>1, <2>2, <2>3
<1>9. CASE At("ingestor") /\ MakeTenantReceiveIngestor
  BY <1>4, <1>7, <1>9 DEF InstanceCall
<1>10. CASE At("compact") /\ MakeCompactor
  BY <1>4, <1>7, <1>10 DEF InstanceCall
<1>11. CASE At("store") /\ MakeStore
  BY <1>4, <1>7, <1>11 DEF InstanceCall
<1>12. CASE At("ruler") /\ MakeRuler
  BY <1>4, <1>7, <1>12 DEF InstanceCall
<1>13. CASE At("router") /\ MakeReceiveRouter
  BY <1>8, <1>13
<1>14. CASE At("query-rule") /\ MakeQueryConfig(TRUE)
  BY <1>8, <1>14
<1>15. CASE At("query") /\ MakeQueryConfig(FALSE)
  BY <1>8, <1>15
<1>16. CASE At("frontend") /\ MakeQueryFrontend
  BY <1>8, <1>16
<1>17. CASE At("alertmanager") /\ MakeAlertManager
  BY <1>8, <1>17
<1>18. CASE At("api") /\ MakeAPI
  BY <1>8, <1>18
<1> QED
  BY <1>2, <1>9, <1>10, <1>11, <1>12, <1>13, <1>14, <1>15, <1>16, <1>17, <1>18, Zenon

\* What is computed from the configuration stays with it.
LEMMA SameConfig ==
  ASSUME config' = config
  PROVE  /\ N' = N /\ Instances' = Instances /\ Namespaces' = Namespaces
         /\ \A name, port : URL(name, port)' = URL(name, port)
         /\ Endpoints' = Endpoints /\ Targets' = Targets
         /\ Hashrings' = Hashrings /\ Limits' = Limits /\ AdhocURL' = AdhocURL
<1>1. N' = N /\ Instances' = Instances /\ Namespaces' = Namespaces
  BY DEF N, Instances, Namespaces
<1>2. \A name, port : URL(name, port)' = URL(name, port)
  BY DEF URL
<1>3. \A i : MetricTenants(i)' = MetricTenants(i)
  BY DEF MetricTenants
<1>4. Endpoints' = Endpoints /\ AdhocURL' = AdhocURL
  BY <1>1, <1>2 DEF Endpoints, AdhocURL
<1>5. Targets' = Targets
  BY <1>1 DEF Targets
<1>6. Hashrings' = Hashrings /\ Limits' = Limits
  BY <1>1, <1>3 DEF Hashrings, Limits
<1> QED
  BY <1>1, <1>2, <1>4, <1>5, <1>6

\* A call emits the services it names.
LEMMA EmitHas ==
  ASSUME NEW names, NEW ns, NEW dialled, Emit(names, ns, dialled)
  PROVE  \A m \in names : Has(m)'
<1>1. ASSUME NEW m \in names
      PROVE  Has(m)'
  <2>1. [name |-> m, ns |-> ns] \in services'
    BY DEF Emit
  <2>2. [name |-> m, ns |-> ns].name = m
    OBVIOUS
  <2> QED
    BY <2>1, <2>2 DEF Has
<1> QED
  BY <1>1

\* Each kind of call keeps the invariant.
LEMMA InstancesStep ==
  ASSUME ManifestsInv, Next
  PROVE  InstancesInv'
<1>1. /\ config \in Configs /\ N \in Nat /\ next \in 1 .. 4 * N + 7 /\ InstancesInv
  BY ConfigTypes DEF ManifestsInv
<1>2. config' = config /\ next' = next + 1
  BY CallsAdd
<1>3. storesRegister' \subseteq Endpoints
  <2>1. \A c \in InstanceCall : At(c) => Inst \in Instances
    BY <1>1, CallPositions
  <2>2. CASE MakeTenantReceiveIngestor
    BY <1>1, <2>1, <2>2 DEF MakeTenantReceiveIngestor, Register, InstancesInv, Endpoints, InstanceCall
  <2>3. CASE MakeStore
    BY <1>1, <2>1, <2>3 DEF MakeStore, Register, InstancesInv, Endpoints, InstanceCall
  <2>4. CASE MakeRuler
    BY <1>1, <2>1, <2>4 DEF MakeRuler, Register, InstancesInv, Endpoints, InstanceCall
  <2>5. CASE ~ (MakeTenantReceiveIngestor \/ MakeStore \/ MakeRuler)
    BY <1>1, <2>5 DEF Next, MakeCompactor, MakeReceiveRouter, MakeQueryConfig, MakeQueryFrontend,
                      MakeAlertManager, MakeAPI, registers, InstancesInv
  <2> QED
    BY <2>2, <2>3, <2>4, <2>5
<1>4. ingestors' \subseteq Instances
  <2>1. At("ingestor") => Inst \in Instances
    BY <1>1, CallPositions DEF InstanceCall
  <2> QED
    BY <1>1, <2>1 DEF Next, MakeTenantReceiveIngestor, MakeCompactor, MakeStore, MakeRuler,
          MakeReceiveRouter, MakeQueryConfig, MakeQueryFrontend, MakeAlertManager, MakeAPI,
          routing, InstancesInv
<1>5. ASSUME NEW p \in 1 .. N, NEW i, i = config.instances[p]
      PROVE  InstanceMade(p, i)'
  <2>1. InstanceMade(p, i)
    BY <1>1, <1>5 DEF InstancesInv
  <2>2. /\ storesRegister \subseteq storesRegister' /\ ingestors \subseteq ingestors'
        /\ \A m : Has(m) => Has(m)'
        /\ \A name, port : URL(name, port)' = URL(name, port)
    BY <1>2, CallsAdd, SameConfig
  <2>3. next' > 4 * p - 3 => /\ URL(Ingestor(i), Grpc)' \in storesRegister'
                             /\ i \in ingestors' /\ Has(Ingestor(i))'
    <3>1. CASE next > 4 * p - 3
      BY <2>1, <2>2, <3>1 DEF InstanceMade
    <3>2. CASE next = 4 * p - 3
      <4>1. MakeTenantReceiveIngestor /\ Inst = i
        BY <1>1, <3>2, <1>5, CallAt
      <4>2. Register(URL(Ingestor(i), Grpc)) /\ i \in ingestors'
            /\ Emit({Ingestor(i)}, config.ns, {JaegerAgent})
        BY <4>1 DEF MakeTenantReceiveIngestor
      <4>3. URL(Ingestor(i), Grpc) \in storesRegister'
        BY <4>2 DEF Register
      <4>4. URL(Ingestor(i), Grpc)' = URL(Ingestor(i), Grpc)
        BY <2>2
      <4>5. Has(Ingestor(i))'
        BY <4>2, EmitHas
      <4> QED
        BY <4>2, <4>3, <4>4, <4>5
    <3> QED
      BY <1>1, <1>2, <3>1, <3>2
  <2>4. next' > 4 * p - 1 => /\ URL(Store(i), Grpc)' \in storesRegister'
                             /\ Has(Store(i))' /\ Has(IndexCache(i))'
    <3>1. CASE next > 4 * p - 1
      BY <2>1, <2>2, <3>1 DEF InstanceMade
    <3>2. CASE next = 4 * p - 1
      <4>1. MakeStore /\ Inst = i
        BY <1>1, <3>2, <1>5, CallAt
      <4>2. /\ Register(URL(Store(i), Grpc))
            /\ \E d : Emit({Store(i), IndexCache(i), BucketCache(i)}, config.ns, d)
        BY <4>1 DEF MakeStore
      <4>3. URL(Store(i), Grpc) \in storesRegister'
        BY <4>2 DEF Register
      <4>4. URL(Store(i), Grpc)' = URL(Store(i), Grpc)
        BY <2>2
      <4>5. Has(Store(i))' /\ Has(IndexCache(i))'
        BY <4>2, EmitHas
      <4> QED
        BY <4>2, <4>3, <4>4, <4>5
    <3> QED
      BY <1>1, <1>2, <3>1, <3>2
  <2>5. next' > 4 * p => /\ URL(Ruler(i), Port("10902"))' \in storesRegister'
                         /\ Has(Ruler(i))'
    <3>1. CASE next > 4 * p
      BY <2>1, <2>2, <3>1 DEF InstanceMade
    <3>2. CASE next = 4 * p
      <4>1. MakeRuler /\ Inst = i
        BY <1>1, <3>2, <1>5, CallAt
      <4>2. /\ Register(URL(Ruler(i), Port("10902")))
            /\ \E d : Emit({Ruler(i)}, config.ns, d)
        BY <4>1 DEF MakeRuler
      <4>3. URL(Ruler(i), Port("10902")) \in storesRegister'
        BY <4>2 DEF Register
      <4>4. URL(Ruler(i), Port("10902"))' = URL(Ruler(i), Port("10902"))
        BY <2>2
      <4>5. Has(Ruler(i))'
        BY <4>2, EmitHas
      <4> QED
        BY <4>2, <4>3, <4>4, <4>5
    <3> QED
      BY <1>1, <1>2, <3>1, <3>2
  <2> QED
    BY <2>3, <2>4, <2>5 DEF InstanceMade
<1>6. \A p \in 1 .. N : InstanceMade(p, config.instances[p])'
  BY <1>2, <1>5
<1> QED
  BY <1>2, <1>3, <1>4, <1>6, SameConfig DEF InstancesInv

\* What only one call changes stays when it is not made.
LEMMA OnlyThere ==
  ASSUME config \in Configs, next \in 1 .. 4 * N + 7, Next
  PROVE  /\ next > 4 * N => storesRegister' = storesRegister
         /\ next # 4 * N + 1 => hashrings' = hashrings /\ limits' = limits
         /\ next # 4 * N + 3 => queryAdhocURL' = queryAdhocURL
         /\ apiTenants' \in {apiTenants, ApiTenants}
<1>1. N \in Nat
  BY ConfigTypes
<1>2. next > 4 * N => storesRegister' = storesRegister
  <2>1. next > 4 * N => ~ (MakeTenantReceiveIngestor \/ MakeStore \/ MakeRuler)
    <3>1. next > 4 * N => \A c \in InstanceCall : ~ At(c)
      BY <1>1, CallPositions
    <3> QED
      BY <3>1 DEF MakeTenantReceiveIngestor, MakeStore, MakeRuler, InstanceCall
  <2> QED
    BY <2>1 DEF Next, MakeCompactor, MakeReceiveRouter, MakeQueryConfig, MakeQueryFrontend,
                MakeAlertManager, MakeAPI, registers
<1>3. next # 4 * N + 1 => hashrings' = hashrings /\ limits' = limits
  <2>1. next # 4 * N + 1 => ~ MakeReceiveRouter
    BY CallPositions DEF MakeReceiveRouter
  <2> QED
    BY <2>1 DEF Next, MakeTenantReceiveIngestor, MakeCompactor, MakeStore, MakeRuler,
                MakeQueryConfig, MakeQueryFrontend, MakeAlertManager, MakeAPI, routing
<1>4. next # 4 * N + 3 => queryAdhocURL' = queryAdhocURL
  <2>1. next # 4 * N + 3 => ~ MakeQueryConfig(FALSE)
    BY CallPositions DEF MakeQueryConfig
  <2>2. MakeQueryConfig(TRUE) => queryAdhocURL' = queryAdhocURL
    BY DEF MakeQueryConfig, SetQueryURL
  <2>3. \/ MakeQueryConfig(TRUE) \/ MakeQueryConfig(FALSE)
        \/ queryAdhocURL' = queryAdhocURL
    BY Zenon DEF Next, MakeTenantReceiveIngestor, MakeCompactor, MakeStore, MakeRuler, Register,
                MakeReceiveRouter, MakeQueryFrontend, MakeAlertManager, MakeAPI, registers
  <2> QED
    BY <2>1, <2>2, <2>3
<1>5. apiTenants' \in {apiTenants, ApiTenants}
  BY DEF Next, MakeTenantReceiveIngestor, MakeCompactor, MakeStore, MakeRuler,
         MakeReceiveRouter, MakeQueryConfig, MakeQueryFrontend, MakeAlertManager, MakeAPI
<1> QED
  BY <1>2, <1>3, <1>4, <1>5

LEMMA RouterStep ==
  ASSUME ManifestsInv, Next
  PROVE  RouterInv'
<1>1. /\ config \in Configs /\ N \in Nat /\ next \in 1 .. 4 * N + 7 /\ RouterInv
  BY ConfigTypes DEF ManifestsInv
<1>2. /\ config' = config /\ next' = next + 1 /\ refs \subseteq refs'
      /\ \A m : Has(m) => Has(m)'
  BY CallsAdd
<1>3. N' = N /\ Hashrings' = Hashrings /\ Limits' = Limits
  BY <1>2, SameConfig
<1>8. apiTenants' \subseteq MakeObsTenants(config.tenants)
  BY <1>1, OnlyThere DEF RouterInv, ApiTenants
<1>4. next' <= 4 * N + 1 => hashrings' = {} /\ limits' = {}
  BY <1>1, <1>2, OnlyThere DEF RouterInv
<1>5. CASE next = 4 * N + 1
  <2>1. /\ hashrings' = Hashrings /\ limits' = Limits
        /\ Emit({Router}, config.ns, {Ref(Router, MetaMonitoringURL), JaegerAgent})
    BY <1>1, <1>5, CallAt DEF MakeReceiveRouter, Hashrings, Limits
  <2>2. Has(Router)'
    BY <2>1, EmitHas
  <2>3. Ref(Router, MetaMonitoringURL) \in refs' /\ JaegerAgent \in refs'
    BY <2>1 DEF Emit
  <2> QED
    BY <1>1, <1>2, <1>3, <1>4, <1>8, <2>1, <2>2, <2>3 DEF RouterInv
<1>6. CASE next # 4 * N + 1
  <2>1. next' > 4 * N + 1 => next > 4 * N + 1
    BY <1>1, <1>2, <1>6
  <2> QED
    BY <1>1, <1>2, <1>3, <1>4, <1>6, <1>8, <2>1, OnlyThere DEF RouterInv
<1> QED
  BY <1>5, <1>6

LEMMA QueryStep ==
  ASSUME ManifestsInv, Next
  PROVE  QueryInv'
<1>1. /\ config \in Configs /\ N \in Nat /\ next \in 1 .. 4 * N + 7 /\ QueryInv
  BY ConfigTypes DEF ManifestsInv
<1>2. /\ config' = config /\ next' = next + 1 /\ \A m : Has(m) => Has(m)'
      /\ refs \subseteq refs'
  BY CallsAdd
<1>3. N' = N /\ AdhocURL' = AdhocURL
  BY <1>2, SameConfig
<1>4. next > 4 * N => storesRegister' = storesRegister
  BY <1>1, OnlyThere
<1>5. next' > 4 * N + 2 =>
         Has(QueryRule)' /\ \A u \in storesRegister' : Ref(QueryRule, u) \in refs'
  <2>1. CASE next > 4 * N + 2
    BY <1>1, <1>2, <1>4, <2>1 DEF QueryInv
  <2>2. CASE next = 4 * N + 2
    <3>1. Emit({QueryRule}, config.ns, {Ref(QueryRule, s) : s \in storesRegister} \cup {JaegerAgent})
      BY <1>1, <2>2, CallAt DEF MakeQueryConfig
    <3>2. \A s \in storesRegister : Ref(QueryRule, s) \in refs'
      BY <3>1 DEF Emit
    <3> QED
      BY <1>1, <1>4, <2>2, <3>1, <3>2, EmitHas
  <2> QED
    BY <1>1, <1>2, <2>1, <2>2
<1>6. next' > 4 * N + 3 =>
         /\ Has(Query)' /\ queryAdhocURL' = AdhocURL
         /\ \A u \in storesRegister' : Ref(Query, u) \in refs'
  <2>1. CASE next > 4 * N + 3
    BY <1>1, <1>2, <1>4, <2>1, OnlyThere DEF QueryInv
  <2>2. CASE next = 4 * N + 3
    <3>1. /\ Emit({Query}, config.ns, {Ref(Query, s) : s \in storesRegister} \cup {JaegerAgent})
          /\ queryAdhocURL' = AdhocURL
      BY <1>1, <2>2, CallAt DEF MakeQueryConfig, SetQueryURL, AdhocURL
    <3>2. \A s \in storesRegister : Ref(Query, s) \in refs'
      BY <3>1 DEF Emit
    <3> QED
      BY <1>1, <1>4, <2>2, <3>1, <3>2, EmitHas
  <2> QED
    BY <1>1, <1>2, <2>1, <2>2
<1>7. next' > 4 * N + 4 => /\ Has(QueryFrontend)' /\ Has(RangeCache)'
                           /\ Ref(QueryFrontend, AdhocURL) \in refs'
  <2>1. CASE next > 4 * N + 4
    BY <1>1, <1>2, <2>1 DEF QueryInv
  <2>2. CASE next = 4 * N + 4
    <3>1. Emit({QueryFrontend, RangeCache}, config.ns,
               {Ref(QueryFrontend, queryAdhocURL),
                Ref(QueryFrontend, URL(RangeCache, <<"srv", "_client">>)), JaegerAgent})
      BY <1>1, <2>2, CallAt DEF MakeQueryFrontend
    <3>2. queryAdhocURL = AdhocURL
      BY <1>1, <2>2 DEF QueryInv
    <3>3. Ref(QueryFrontend, AdhocURL) \in refs'
      BY <3>1, <3>2 DEF Emit
    <3> QED
      BY <3>1, <3>3, EmitHas
  <2> QED
    BY <1>1, <1>2, <2>1, <2>2
<1> QED
  BY <1>3, <1>5, <1>6, <1>7 DEF QueryInv

LEMMA OthersStep ==
  ASSUME ManifestsInv, Next
  PROVE  OthersInv'
<1>1. /\ config \in Configs /\ N \in Nat /\ next \in 1 .. 4 * N + 7 /\ OthersInv
  BY ConfigTypes DEF ManifestsInv
<1>2. /\ config' = config /\ next' = next + 1 /\ \A m : Has(m) => Has(m)'
  BY CallsAdd
<1>3. next' > 4 * N + 5 => Has(Alertmanager)' /\ Has(AlertCluster)'
  <2>1. CASE next > 4 * N + 5
    BY <1>1, <1>2, <2>1 DEF OthersInv
  <2>2. CASE next = 4 * N + 5
    <3>1. \E d : Emit({Alertmanager, AlertCluster}, config.ns, d)
      BY <1>1, <2>2, CallAt DEF MakeAlertManager
    <3> QED
      BY <3>1, EmitHas
  <2> QED
    BY <1>1, <1>2, <2>1, <2>2
<1>4. next' > 4 * N + 6 =>
         Has(API)' /\ Has(RulesObjstore)' /\ Has(ApiCache)' /\ Has(Gubernator)'
  <2>1. CASE next > 4 * N + 6
    BY <1>1, <1>2, <2>1 DEF OthersInv
  <2>2. CASE next = 4 * N + 6
    <3>1. \E d : Emit({API, RulesObjstore, ApiCache, Gubernator, Reloader, UpFrontend,
                       UpRule, Avalanche}, config.apiNs, d)
      BY <1>1, <2>2, CallAt DEF MakeAPI
    <3> QED
      BY <3>1, EmitHas
  <2> QED
    BY <1>1, <1>2, <2>1, <2>2
<1>5. N' = N
  BY <1>2, SameConfig
<1>6. next' > 4 * N' + 5 => Has(Alertmanager)' /\ Has(AlertCluster)'
  BY <1>3, <1>5
<1>7. next' > 4 * N' + 6 =>
         Has(API)' /\ Has(RulesObjstore)' /\ Has(ApiCache)' /\ Has(Gubernator)'
  BY <1>4, <1>5
<1> QED
  BY <1>6, <1>7 DEF OthersInv

-----------------------------------------------------------------------------
(* What is dialled. *)

\* The names of the two queries are no other's.
LEMMA QueryNames ==
  /\ \A i : Store(i) \notin {Query, QueryRule} /\ Ruler(i) \notin {Query, QueryRule}
  /\ Query # QueryRule
  /\ {QueryFrontend, Alertmanager, API, Reloader, UpFrontend, UpRule, Avalanche}
        \cap {Query, QueryRule} = {}
  BY DEF Store, Ruler, Query, QueryRule, QueryFrontend, Alertmanager, API, Reloader, UpFrontend,
         UpRule, Avalanche

\* What an instance or a part of the deployment may dial.
LEMMA RefFields ==
  ASSUME NEW by, NEW name, NEW port
  PROVE  /\ Ref(by, URL(name, port)).by = by
         /\ Ref(by, URL(name, port)).to.name = name
         /\ Ref(by, URL(name, port)).to.ns = config.ns
         /\ Ref(by, URL(name, port)).to.port = port
  BY DEF Ref, URL

\* A target that is dialled at one of its ports is well addressed.
LEMMA GoodRef ==
  ASSUME NEW by, by \notin {Query, QueryRule}, NEW name \in Targets, NEW port,
         port[1] \in {"srv", "port"}
  PROVE  RefInv(Ref(by, URL(name, port)))
  BY RefFields DEF RefInv, Namespaces

LEMMA Ports == Grpc[1] = "srv" /\ <<"srv", "_client">>[1] = "srv" /\ \A n : Port(n)[1] = "port"
  BY DEF Grpc, Port

\* No file defines a service with the name of an address outside.
LEMMA OutsideNames ==
  ASSUME NEW u \in Outside
  PROVE  /\ \A i : u.name \notin {Ingestor(i), Compactor(i), Store(i), IndexCache(i),
                                  BucketCache(i), Ruler(i)}
         /\ u.name \notin {Router, Query, QueryRule, QueryFrontend, RangeCache, Alertmanager,
                           AlertCluster, API, RulesObjstore, ApiCache, Gubernator, Reloader,
                           UpFrontend, UpRule, Avalanche}
         /\ u.name # NoURL.name
<1>1. /\ TraceWriter.name = <<"otel-trace-writer-collector-headless">>
      /\ MetaMonitoringURL.name = <<"prometheus-app-sre">>
  BY DEF TraceWriter, MetaMonitoringURL
<1>2. u.name \in {<<"otel-trace-writer-collector-headless">>, <<"prometheus-app-sre">>}
  BY <1>1 DEF Outside
<1>3. \A i : u.name \notin {Ingestor(i), Compactor(i), Store(i), IndexCache(i),
                            BucketCache(i), Ruler(i)}
  BY <1>2 DEF Ingestor, Compactor, Store, IndexCache, BucketCache, Ruler
<1>4. u.name \notin {Router, Query, QueryRule, QueryFrontend, RangeCache, Alertmanager,
                    AlertCluster, API}
  BY <1>2 DEF Router, Query, QueryRule, QueryFrontend, RangeCache, Alertmanager, AlertCluster, API
<1>5. u.name \notin {RulesObjstore, ApiCache, Gubernator, Reloader, UpFrontend, UpRule, Avalanche}
  BY <1>2 DEF RulesObjstore, ApiCache, Gubernator, Reloader, UpFrontend, UpRule, Avalanche
<1>6. u.name # NoURL.name
  <2>1. /\ NoURL.name # <<"otel-trace-writer-collector-headless">>
        /\ NoURL.name # <<"prometheus-app-sre">>
    BY DEF NoURL
  <2> QED
    BY <1>2, <2>1, Zenon
<1> QED
  BY <1>3, <1>4, <1>5, <1>6

\* The two that dial them are not queries.
LEMMA OutsideRefs == RefInv(JaegerAgent) /\ RefInv(Ref(Router, MetaMonitoringURL))
<1>1. /\ JaegerAgent.by \notin {Query, QueryRule} /\ JaegerAgent.to = TraceWriter
      /\ Ref(Router, MetaMonitoringURL).by \notin {Query, QueryRule}
      /\ Ref(Router, MetaMonitoringURL).to = MetaMonitoringURL
  BY DEF JaegerAgent, Ref, Query, QueryRule, Router
<1>2. TraceWriter.port[1] = "port" /\ MetaMonitoringURL.port[1] = "port"
  BY DEF TraceWriter, MetaMonitoringURL, Port
<1> QED
  BY <1>1, <1>2 DEF RefInv, Outside

\* The endpoints of the instances are dialled.
LEMMA EndpointsAreTargets ==
  ASSUME NEW u \in Endpoints
  PROVE  u.name \in Targets /\ u.ns = config.ns /\ u.port[1] \in {"srv", "port"}
<1>1. CASE \E i \in Instances : u = URL(Ingestor(i), Grpc)
  BY <1>1, Ports DEF URL, Targets
<1>2. CASE \E i \in Instances : u = URL(Store(i), Grpc)
  BY <1>2, Ports DEF URL, Targets
<1>3. CASE \E i \in Instances : u = URL(Ruler(i), Port("10902"))
  BY <1>3, Ports DEF URL, Targets
<1> QED
  BY <1>1, <1>2, <1>3 DEF Endpoints

\* An emission keeps the invariant when what it dials is good.
LEMMA EmitRefs ==
  ASSUME NEW names, NEW ns \in Namespaces, NEW dialled, Emit(names, ns, dialled),
         RefsInv, storesRegister \subseteq storesRegister',
         \A r \in dialled : RefInv(r), \A u \in Outside : u.name \notin names
  PROVE  RefsInv'
<1>1. config' = config /\ refs' = refs \cup dialled
      /\ services' = services \cup {[name |-> n, ns |-> ns] : n \in names}
  BY DEF Emit
<1>2. Targets' = Targets /\ Namespaces' = Namespaces
  BY <1>1, SameConfig
<1>3. ASSUME NEW r, RefInv(r)
      PROVE  RefInv(r)'
  BY <1>2, <1>3 DEF RefInv
<1>4. \A r \in refs' : RefInv(r)'
  BY <1>1, <1>3 DEF RefsInv
<1>5. \A s \in services' : s = [name |-> s.name, ns |-> s.ns] /\ s.ns \in Namespaces
  BY <1>1 DEF RefsInv
<1>6. \A u \in Outside : ~ Has(u.name)'
  <2>1. \A n \in names : [name |-> n, ns |-> ns].name = n
    OBVIOUS
  <2> QED
    BY <1>1, <2>1 DEF RefsInv, Has
<1> QED
  BY <1>2, <1>4, <1>5, <1>6 DEF RefsInv

LEMMA RefsStep ==
  ASSUME ManifestsInv, Next
  PROVE  RefsInv'
<1>1. /\ config \in Configs /\ N \in Nat /\ next \in 1 .. 4 * N + 7 /\ RefsInv
  BY ConfigTypes DEF ManifestsInv
<1>2. storesRegister \subseteq storesRegister' /\ storesRegister \subseteq Endpoints
  BY CallsAdd DEF ManifestsInv, InstancesInv
<1>3. config.ns \in Namespaces /\ config.apiNs \in Namespaces
  BY DEF Namespaces
<1>4. \A c \in InstanceCall : At(c) => Inst \in Instances
  BY <1>1, CallPositions
<1>5. CASE MakeTenantReceiveIngestor
  BY <1>1, <1>2, <1>3, <1>5, EmitRefs, OutsideRefs, OutsideNames DEF MakeTenantReceiveIngestor
<1>6. CASE MakeCompactor
  BY <1>1, <1>2, <1>3, <1>6, EmitRefs, OutsideNames DEF MakeCompactor
<1>7. CASE MakeStore
  <2>1. PICK i \in Instances :
           Emit({Store(i), IndexCache(i), BucketCache(i)}, config.ns,
                {Ref(Store(i), URL(IndexCache(i), <<"srv", "_client">>)), JaegerAgent})
    BY <1>4, <1>7 DEF MakeStore, InstanceCall
  <2>2. IndexCache(i) \in Targets
    BY DEF Targets
  <2>3. RefInv(Ref(Store(i), URL(IndexCache(i), <<"srv", "_client">>)))
    BY <2>2, GoodRef, QueryNames, Ports
  <2> QED
    BY <1>1, <1>2, <1>3, <2>1, <2>3, EmitRefs, OutsideRefs, OutsideNames
<1>8. CASE MakeRuler
  <2>1. PICK i \in Instances :
           Emit({Ruler(i)}, config.ns,
                {Ref(Ruler(i), URL(QueryRule, Port("10902"))),
                 Ref(Ruler(i), URL(Alertmanager, Port("9093"))),
                 Ref(Ruler(i), URL(RulesObjstore, Port("10902"))), JaegerAgent})
    BY <1>4, <1>8 DEF MakeRuler, InstanceCall
  <2>2. {QueryRule, Alertmanager, RulesObjstore} \subseteq Targets
    BY DEF Targets
  <2>3. /\ RefInv(Ref(Ruler(i), URL(QueryRule, Port("10902"))))
        /\ RefInv(Ref(Ruler(i), URL(Alertmanager, Port("9093"))))
        /\ RefInv(Ref(Ruler(i), URL(RulesObjstore, Port("10902"))))
    BY <2>2, GoodRef, QueryNames, Ports
  <2> QED
    BY <1>1, <1>2, <1>3, <2>1, <2>3, EmitRefs, OutsideRefs, OutsideNames
<1>9. CASE MakeReceiveRouter
  BY <1>1, <1>2, <1>3, <1>9, EmitRefs, OutsideRefs, OutsideNames DEF MakeReceiveRouter
<1>10. ASSUME NEW b \in BOOLEAN, MakeQueryConfig(b)
       PROVE  RefsInv'
  <2>1. PICK name \in {Query, QueryRule} :
           Emit({name}, config.ns, {Ref(name, s) : s \in storesRegister} \cup {JaegerAgent})
    BY <1>10 DEF MakeQueryConfig
  <2>2. ASSUME NEW s \in storesRegister
        PROVE  RefInv(Ref(name, s))
    <3>1. s.name \in Targets /\ s.ns = config.ns /\ s.port[1] \in {"srv", "port"}
      BY <1>2, EndpointsAreTargets
    <3>2. Ref(name, s).to = s
      BY DEF Ref
    <3> QED
      BY <1>3, <3>1, <3>2 DEF RefInv
  <2> QED
    BY <1>1, <1>2, <1>3, <2>1, <2>2, EmitRefs, OutsideRefs, OutsideNames
<1>11. CASE MakeQueryFrontend
  <2>1. Emit({QueryFrontend, RangeCache}, config.ns,
             {Ref(QueryFrontend, queryAdhocURL),
              Ref(QueryFrontend, URL(RangeCache, <<"srv", "_client">>)), JaegerAgent})
        /\ next = 4 * N + 4
    BY <1>1, <1>11, CallPositions DEF MakeQueryFrontend
  <2>2. queryAdhocURL = URL(Query, Port("10902"))
    BY <1>1, <2>1 DEF ManifestsInv, QueryInv, AdhocURL
  <2>3. {Query, RangeCache} \subseteq Targets /\ QueryFrontend \notin {Query, QueryRule}
    BY QueryNames DEF Targets
  <2>4. /\ RefInv(Ref(QueryFrontend, queryAdhocURL))
        /\ RefInv(Ref(QueryFrontend, URL(RangeCache, <<"srv", "_client">>)))
    BY <2>2, <2>3, GoodRef, Ports
  <2> QED
    BY <1>1, <1>2, <1>3, <2>1, <2>4, EmitRefs, OutsideRefs, OutsideNames
<1>12. CASE MakeAlertManager
  <2>1. Emit({Alertmanager, AlertCluster}, config.ns,
             {Ref(Alertmanager, URL(AlertCluster, Port("9094")))})
    BY <1>12 DEF MakeAlertManager
  <2>2. AlertCluster \in Targets /\ Alertmanager \notin {Query, QueryRule}
    BY QueryNames DEF Targets
  <2>3. RefInv(Ref(Alertmanager, URL(AlertCluster, Port("9094"))))
    BY <2>2, GoodRef, Ports
  <2> QED
    BY <1>1, <1>2, <1>3, <2>1, <2>3, EmitRefs, OutsideNames
<1>13. CASE MakeAPI
  <2> DEFINE dialled == {Ref(d[1], [name |-> d[2], ns |-> config.apiNs, port |-> Port(d[3])])
                            : d \in ApiDials} \cup {JaegerAgent}
  <2>1. Emit({API, RulesObjstore, ApiCache, Gubernator, Reloader, UpFrontend, UpRule, Avalanche},
             config.apiNs, dialled)
    BY <1>13 DEF MakeAPI
  <2>2. ASSUME NEW d \in ApiDials
        PROVE  d[1] \notin {Query, QueryRule} /\ d[2] \in Targets
    <3>1. \A a \in {API, Reloader, UpFrontend, UpRule, Avalanche} : a \notin {Query, QueryRule}
      BY QueryNames
    <3>2. {Gubernator, QueryFrontend, Router, RulesObjstore, Alertmanager, ApiCache, API}
              \subseteq Targets
      BY DEF Targets
    <3>3. /\ d[1] \in {API, Reloader, UpFrontend, UpRule, Avalanche}
          /\ d[2] \in {Gubernator, QueryFrontend, Router, RulesObjstore, Alertmanager, ApiCache, API}
      BY DEF ApiDials
    <3> QED
      BY <3>1, <3>2, <3>3
  <2>3. ASSUME NEW d \in ApiDials
        PROVE  RefInv(Ref(d[1], [name |-> d[2], ns |-> config.apiNs, port |-> Port(d[3])]))
    BY <1>3, <2>2, Ports DEF RefInv, Ref
  <2>4. \A r \in dialled : RefInv(r)
    BY <2>3, OutsideRefs
  <2> HIDE DEF dialled
  <2> QED
    BY <1>1, <1>2, <1>3, <2>1, <2>4, EmitRefs, OutsideNames
<1> QED
  BY <1>5, <1>6, <1>7, <1>8, <1>9, <1>10, <1>11, <1>12, <1>13 DEF Next

-----------------------------------------------------------------------------
(* The theorems. *)

\* The calls made so far have left what the later ones read (metrics.go:123).
THEOREM CallsInvariant == Spec => []ManifestsInv
<1>1. Init => ManifestsInv
  BY FirstCalls, ConfigsAssumption
<1>2. ManifestsInv /\ [Next]_vars => ManifestsInv'
  <2> SUFFICES ASSUME ManifestsInv, [Next]_vars
               PROVE  ManifestsInv'
    OBVIOUS
  <2>1. CASE Next
    <3>1. /\ config \in Configs /\ N \in Nat /\ next \in 1 .. 4 * N + 7
      BY ConfigTypes DEF ManifestsInv
    <3>2. config' = config /\ next' = next + 1 /\ N' = N /\ next <= 4 * N + 6
      BY <2>1, <3>1, CallsAdd, CallAt, SameConfig
    <3>3. next' \in 1 .. 4 * N' + 7
      BY <3>1, <3>2
    <3> QED
      BY <2>1, <3>1, <3>2, <3>3, InstancesStep, RouterStep, QueryStep, OthersStep, RefsStep
         DEF ManifestsInv
  <2>2. CASE UNCHANGED vars
    <3>1. /\ config' = config /\ next' = next /\ services' = services /\ refs' = refs
          /\ storesRegister' = storesRegister /\ queryAdhocURL' = queryAdhocURL
          /\ hashrings' = hashrings /\ ingestors' = ingestors /\ limits' = limits
          /\ apiTenants' = apiTenants
      BY <2>2 DEF vars, registers, routing
    <3>2. /\ N' = N /\ Instances' = Instances /\ Namespaces' = Namespaces
          /\ Endpoints' = Endpoints /\ Targets' = Targets
          /\ Hashrings' = Hashrings /\ Limits' = Limits /\ AdhocURL' = AdhocURL
      BY <3>1, SameConfig
    <3>3. \A m : Has(m)' <=> Has(m)
      BY <3>1 DEF Has
    <3>4. ASSUME NEW p, NEW i, InstanceMade(p, i)
          PROVE  InstanceMade(p, i)'
      BY <3>1, <3>3, <3>4 DEF InstanceMade, URL
    <3>5. InstancesInv'
      BY <3>1, <3>2, <3>4 DEF ManifestsInv, InstancesInv
    <3>6. RouterInv' /\ QueryInv'
      BY <3>1, <3>2, <3>3 DEF ManifestsInv, RouterInv, QueryInv
    <3>7. OthersInv'
      BY <3>1, <3>2, <3>3 DEF ManifestsInv, OthersInv
    <3>8. RefsInv'
      BY <3>1, <3>2, <3>3 DEF ManifestsInv, RefsInv, RefInv
    <3> QED
      BY <3>1, <3>2, <3>5, <3>6, <3>7, <3>8 DEF ManifestsInv
  <2> QED
    BY <2>1, <2>2
<1> QED
  BY <1>1, <1>2, PTL DEF Spec

\* The tenants of a hashring and the limits, without the detour over records.
LEMMA TenantsOfAnInstance ==
  ASSUME NEW i
  PROVE  /\ {t.id : t \in MetricTenants(i)} = {ID(n) : n \in tenantsMapping[i]}
         /\ \A t \in MetricTenants(i) : t.limited =>
               \E n \in tenantsMapping[i] \cap DOMAIN config.tenants :
                  t.id = ID(n) /\ config.tenants[n] = "limited"
         /\ \A n \in tenantsMapping[i] \cap DOMAIN config.tenants :
               config.tenants[n] = "limited" =>
                  \E t \in MetricTenants(i) : t.limited /\ t.id = ID(n)
<1> DEFINE T(n) == [id |-> ID(n),
                    limited |-> n \in DOMAIN config.tenants /\ config.tenants[n] = "limited"]
<1>1. MetricTenants(i) = {T(n) : n \in tenantsMapping[i]}
  BY DEF MetricTenants, BuildMetricTenants
<1>2. ASSUME NEW n
      PROVE  /\ T(n).id = ID(n)
             /\ T(n).limited <=> n \in DOMAIN config.tenants /\ config.tenants[n] = "limited"
  OBVIOUS
<1> HIDE DEF T
<1> QED
  BY <1>1, <1>2

\* Limits are set for the tenants of instances that are configured so.
LEMMA LimitedTenants ==
  ASSUME NEW id
  PROVE  id \in Limits <=>
           \E i \in Instances : \E n \in tenantsMapping[i] \cap DOMAIN config.tenants :
              id = ID(n) /\ config.tenants[n] = "limited"
<1>1. id \in Limits <=> \E i \in Instances : \E t \in MetricTenants(i) : t.limited /\ id = t.id
  BY DEF Limits
<1> QED
  BY <1>1, TenantsOfAnInstance

LEMMA OnlyConfiguredAreLimited == Limits \subseteq {ID(n) : n \in DOMAIN config.tenants}
  BY LimitedTenants

\* When all calls have been made, each instance has had its own.
LEMMA AllMade ==
  ASSUME ManifestsInv, Done
  PROVE  /\ config \in Configs /\ N \in Nat /\ next = 4 * N + 7
         /\ \A i \in Instances :
               /\ {URL(Ingestor(i), Grpc), URL(Store(i), Grpc), URL(Ruler(i), Port("10902"))}
                      \subseteq storesRegister
               /\ i \in ingestors
               /\ Has(Ingestor(i)) /\ Has(Store(i)) /\ Has(IndexCache(i)) /\ Has(Ruler(i))
<1>1. config \in Configs /\ N \in Nat /\ next \in 1 .. 4 * N + 7
  BY ConfigTypes DEF ManifestsInv
<1>2. Len(Steps) = 4 * N + 6
  BY <1>1, StepsShape
<1>3. next = 4 * N + 7
  BY <1>1, <1>2 DEF Done
<1>4. ASSUME NEW p \in 1 .. N
      PROVE  next > 4 * p - 3 /\ next > 4 * p - 1 /\ next > 4 * p
  BY <1>1, <1>3
<1>5. ASSUME NEW i \in Instances
      PROVE  /\ {URL(Ingestor(i), Grpc), URL(Store(i), Grpc), URL(Ruler(i), Port("10902"))}
                     \subseteq storesRegister
             /\ i \in ingestors
             /\ Has(Ingestor(i)) /\ Has(Store(i)) /\ Has(IndexCache(i)) /\ Has(Ruler(i))
  <2>1. PICK p \in 1 .. N : i = config.instances[p]
    BY DEF Instances, N
  <2>2. InstanceMade(p, i)
    BY <2>1 DEF ManifestsInv, InstancesInv
  <2> QED
    BY <1>4, <2>2 DEF InstanceMade
<1> QED
  BY <1>1, <1>3, <1>5

\* The generator's state is well typed, for any configurations.
THEOREM TypeCorrect == Spec => []TypeOK
<1>1. ASSUME ManifestsInv
      PROVE  TypeOK
  <2>1. config \in Configs /\ N \in Nat /\ next \in 1 .. 4 * N + 7
    BY <1>1, ConfigTypes DEF ManifestsInv
  <2>2. Len(Steps) = 4 * N + 6
    BY <2>1, StepsShape
  <2>3. next \in 1 .. (Len(Steps) + 1)
    BY <2>1, <2>2
  <2>4. {r.to.port[1] : r \in refs} \subseteq {"srv", "port"}
    BY <1>1 DEF ManifestsInv, RefsInv, RefInv
  <2>5. {s.ns : s \in services} \subseteq {config.ns, config.apiNs}
    <3>1. \A s \in services : s.ns \in {config.ns, config.apiNs}
      BY <1>1 DEF ManifestsInv, RefsInv, Namespaces
    <3> QED
      BY <3>1
  <2>6. hashrings \in {{}, Hashrings} /\ limits \in {{}, Limits} /\ ingestors \subseteq Instances
    <3>1. next <= 4 * N + 1 \/ next > 4 * N + 1
      BY <2>1
    <3> QED
      BY <1>1, <3>1 DEF ManifestsInv, RouterInv, InstancesInv
  <2>7. {h.hashring : h \in hashrings} \cup ingestors \subseteq Instances
    <3>1. \A h \in Hashrings : h.hashring \in Instances
      BY DEF Hashrings
    <3> QED
      BY <2>6, <3>1
  <2>8. limits \subseteq {ID(n) : n \in DOMAIN config.tenants}
    BY <2>1, <2>6, OnlyConfiguredAreLimited
  <2> QED
    BY <2>3, <2>4, <2>5, <2>7, <2>8 DEF TypeOK
<1> QED
  BY <1>1, CallsInvariant, PTL

\* Both queries are given the endpoints of every instance, and the frontend the
\* ad hoc query, however many instances there are (metrics.go:123).
THEOREM ReadsSeeEverything == Spec => []ReadPathComplete
<1>1. ASSUME ManifestsInv, Done
      PROVE  /\ \A q \in {Query, QueryRule} :
                   {u.name : u \in Dialled(q)}
                     = UNION {{Ingestor(i), Store(i), Ruler(i)} : i \in Instances}
             /\ Query \in {u.name : u \in Dialled(QueryFrontend)}
             /\ NoURL \notin {r.to : r \in refs}
  <2>1. /\ config \in Configs /\ N \in Nat /\ next = 4 * N + 7
        /\ next > 4 * N + 2 /\ next > 4 * N + 3 /\ next > 4 * N + 4
    BY <1>1, AllMade
  <2>2. \A q \in {Query, QueryRule} : \A u \in storesRegister : Ref(q, u) \in refs
    BY <1>1, <2>1 DEF ManifestsInv, QueryInv
  <2>3. ASSUME NEW q \in {Query, QueryRule}
        PROVE  Dialled(q) = storesRegister
    <3>1. Dialled(q) \subseteq storesRegister
      BY <1>1 DEF Dialled, ManifestsInv, RefsInv, RefInv
    <3>2. ASSUME NEW u \in storesRegister
          PROVE  u \in Dialled(q)
      <4>1. Ref(q, u) \in refs /\ Ref(q, u).by = q /\ Ref(q, u).to = u
        BY <2>2 DEF Ref
      <4> QED
        BY <4>1 DEF Dialled
    <3> QED
      BY <3>1, <3>2
  <2>4. \A name, port : URL(name, port).name = name
    BY DEF URL
  <2>5. storesRegister = Endpoints
    <3>1. Endpoints \subseteq storesRegister
      BY <1>1, AllMade DEF Endpoints
    <3> QED
      BY <1>1, <3>1 DEF ManifestsInv, InstancesInv
  <2>6. {u.name : u \in Endpoints}
          = {Ingestor(i) : i \in Instances} \cup {Store(i) : i \in Instances}
                \cup {Ruler(i) : i \in Instances}
    BY <2>4 DEF Endpoints
  <2>7. {Ingestor(i) : i \in Instances} \cup {Store(i) : i \in Instances}
                \cup {Ruler(i) : i \in Instances}
          = UNION {{Ingestor(i), Store(i), Ruler(i)} : i \in Instances}
    OBVIOUS
  <2>8. Query \in {u.name : u \in Dialled(QueryFrontend)}
    <3>1. /\ Ref(QueryFrontend, AdhocURL) \in refs
          /\ Ref(QueryFrontend, AdhocURL).by = QueryFrontend
          /\ Ref(QueryFrontend, AdhocURL).to = AdhocURL /\ AdhocURL.name = Query
      BY <1>1, <2>1 DEF ManifestsInv, QueryInv, Ref, AdhocURL, URL
    <3> QED
      BY <3>1 DEF Dialled
  <2>9. NoURL \notin {r.to : r \in refs}
    <3>1. NoURL.name \notin Targets
      BY DEF NoURL, Targets, Ingestor, Store, Ruler, IndexCache, QueryRule, Query, QueryFrontend,
             RangeCache, Router, Alertmanager, AlertCluster, API, RulesObjstore, ApiCache,
             Gubernator
    <3>2. NoURL \notin Outside
      BY OutsideNames
    <3> QED
      BY <1>1, <3>1, <3>2 DEF ManifestsInv, RefsInv, RefInv
  <2> QED
    BY <2>3, <2>5, <2>6, <2>7, <2>8, <2>9
<1>2. ManifestsInv => ReadPathComplete
  BY <1>1 DEF ReadPathComplete
<1> QED
  BY <1>2, CallsInvariant, PTL

\* Nobody dials a name that no file defines, but for the collector of the traces
\* and the Prometheus of the limits, for any instances (the names are put together
\* by their makers and by those who dial them, each for itself).
THEOREM NothingDialledIsMissing == Spec => []AddressesExist
<1>1. ASSUME ManifestsInv, Done, config.ns = config.apiNs, NEW r \in refs, r.to \notin Outside
      PROVE  Answered(r.to)
  <2>1. /\ config \in Configs /\ N \in Nat /\ next = 4 * N + 7
        /\ next > 4 * N + 1 /\ next > 4 * N + 2 /\ next > 4 * N + 3
        /\ next > 4 * N + 4 /\ next > 4 * N + 5 /\ next > 4 * N + 6
    BY <1>1, AllMade
  <2>2. r.to.name \in Targets /\ r.to.ns = config.ns
    BY <1>1 DEF ManifestsInv, RefsInv, RefInv, Namespaces
  <2>3. \A m \in Targets : Has(m)
    <3>1. /\ Has(QueryRule) /\ Has(Query) /\ Has(QueryFrontend) /\ Has(RangeCache) /\ Has(Router)
          /\ Has(Alertmanager) /\ Has(AlertCluster) /\ Has(API) /\ Has(RulesObjstore)
          /\ Has(ApiCache) /\ Has(Gubernator)
      BY <1>1, <2>1 DEF ManifestsInv, RouterInv, QueryInv, OthersInv
    <3>2. \A i \in Instances : Has(Ingestor(i)) /\ Has(Store(i)) /\ Has(IndexCache(i)) /\ Has(Ruler(i))
      BY <1>1, AllMade
    <3> QED
      BY <3>1, <3>2 DEF Targets
  <2>4. PICK s \in services : s.name = r.to.name
    BY <2>2, <2>3 DEF Has
  <2>5. s = [name |-> s.name, ns |-> s.ns] /\ s.ns = config.ns
    BY <1>1, <2>4 DEF ManifestsInv, RefsInv, Namespaces
  <2> QED
    BY <2>2, <2>4, <2>5 DEF Answered
<1>2. ASSUME ManifestsInv, Done, NEW u \in Outside
      PROVE  u \in {r.to : r \in refs} /\ ~ Answered(u)
  <2>1. Ref(Router, MetaMonitoringURL) \in refs /\ JaegerAgent \in refs
    BY <1>2, AllMade DEF ManifestsInv, RouterInv
  <2>2. Ref(Router, MetaMonitoringURL).to = MetaMonitoringURL /\ JaegerAgent.to = TraceWriter
    BY DEF JaegerAgent, Ref
  <2>3. ~ Answered(u)
    <3>1. [name |-> u.name, ns |-> u.ns].name = u.name
      OBVIOUS
    <3> QED
      BY <1>2, <3>1 DEF ManifestsInv, RefsInv, Has, Answered
  <2> QED
    BY <2>1, <2>2, <2>3 DEF Outside
<1>3. ManifestsInv => AddressesExist
  <2> SUFFICES ASSUME ManifestsInv, Done, config.ns = config.apiNs
               PROVE  {u \in {r.to : r \in refs} : ~ Answered(u)} = {TraceWriter, MetaMonitoringURL}
    BY DEF AddressesExist
  <2>1. \A u \in {r.to : r \in refs} : ~ Answered(u) => u \in Outside
    BY <1>1
  <2>2. \A u \in Outside : u \in {r.to : r \in refs} /\ ~ Answered(u)
    BY <1>2
  <2>3. Outside = {TraceWriter, MetaMonitoringURL}
    BY DEF Outside
  <2> HIDE DEF Outside, Answered
  <2> QED
    BY <2>1, <2>2, <2>3
<1> QED
  BY <1>3, CallsInvariant, PTL

\* No tenant is one of two instances, and an ID is that of one name.
LEMMA InstancesShareNoTenant ==
  /\ \A i, j \in DOMAIN tenantsMapping :
        i # j => tenantsMapping[i] \cap tenantsMapping[j] = {}
  /\ \A m, n : ID(m) = ID(n) => m = n
  /\ \A n : ID(n) # NoID
  BY DEF tenantsMapping, ID, NoID

\* Writes of a tenant reach the hashring of its instance and only that one, it is
\* limited if its configuration says so, and what the API writes has a hashring and
\* a limit of its own exactly for the tenants of the default instance, for any
\* instances and tenants (makeReceiveRouter, metrics.go:683; makeObsTenants,
\* rhobs.go:383).
THEOREM WritesReachOnePlace == Spec => []WritePathSound
<1>1. ASSUME ManifestsInv, Done
      PROVE  WritePathSound
  <2>1. config \in Configs /\ N \in Nat /\ next = 4 * N + 7 /\ next > 4 * N + 1
    BY <1>1, AllMade
  <2>2. /\ hashrings = Hashrings /\ limits = Limits
        /\ apiTenants \subseteq MakeObsTenants(config.tenants)
    BY <1>1, <2>1 DEF ManifestsInv, RouterInv
  <2>3. Instances \subseteq DOMAIN tenantsMapping
    BY <2>1, ConfigTypes
  <2> DEFINE Ring(i) == [hashring |-> i, tenants |-> {ID(n) : n \in tenantsMapping[i]}]
  <2>4. hashrings = {Ring(i) : i \in Instances}
    BY <2>2, TenantsOfAnInstance DEF Hashrings
  <2>5. \A i : Ring(i).hashring = i /\ Ring(i).tenants = {ID(n) : n \in tenantsMapping[i]}
    OBVIOUS
  <2> HIDE DEF Ring
  <2>6. \A g, h \in hashrings : g.tenants \cap h.tenants # {} => g = h
    <3> SUFFICES ASSUME NEW g \in hashrings, NEW h \in hashrings, g.tenants \cap h.tenants # {}
                 PROVE  g = h
      OBVIOUS
    <3>1. PICK i \in Instances, j \in Instances : g = Ring(i) /\ h = Ring(j)
      BY <2>4
    <3>2. PICK m \in tenantsMapping[i], n \in tenantsMapping[j] : ID(m) = ID(n)
      BY <2>5, <3>1
    <3>3. i = j
      BY <2>3, <3>2, InstancesShareNoTenant
    <3> QED
      BY <3>1, <3>3
  <2>7. {h.hashring : h \in hashrings} = ingestors
    <3>1. ingestors = Instances
      BY <1>1, AllMade DEF ManifestsInv, InstancesInv
    <3> QED
      BY <2>4, <2>5, <3>1
  <2>8. \A i \in Instances : \E h \in hashrings :
           h.hashring = i /\ h.tenants = {ID(n) : n \in tenantsMapping[i]}
    BY <2>4, <2>5
  <2>9. ASSUME NEW n
        PROVE  /\ ID(n) \in limits <=> Limited(n) /\ Deployed(n)
               /\ (\E h \in hashrings : ID(n) \in h.tenants) <=> Deployed(n)
    <3>1. ID(n) \in limits <=>
            \E i \in Instances : \E m \in tenantsMapping[i] \cap DOMAIN config.tenants :
               ID(n) = ID(m) /\ config.tenants[m] = "limited"
      BY <2>2, LimitedTenants
    <3>2. ID(n) \in limits <=> Limited(n) /\ Deployed(n)
      BY <3>1, InstancesShareNoTenant DEF Limited, Deployed
    <3>3. (\E h \in hashrings : ID(n) \in h.tenants) <=> Deployed(n)
      BY <2>4, <2>5, InstancesShareNoTenant DEF Deployed
    <3> QED
      BY <3>2, <3>3
  <2>10. NoID \notin limits /\ \A h \in hashrings : NoID \notin h.tenants
    <3>1. NoID \notin limits
      BY <2>2, LimitedTenants, InstancesShareNoTenant
    <3>2. \A h \in hashrings : NoID \notin h.tenants
      BY <2>4, <2>5, InstancesShareNoTenant
    <3> QED
      BY <3>1, <3>2
  <2>11. ASSUME NEW t \in apiTenants
         PROVE  LET known == t.name \in tenantsMapping.default /\ "default" \in Instances
                IN  /\ (\E h \in hashrings : t.id \in h.tenants) <=> known
                    /\ t.id \in limits <=> known /\ Limited(t.name)
    <3>1. t.id = IF t.name \in tenantsMapping.default THEN ID(t.name) ELSE NoID
      BY <2>2 DEF MakeObsTenants
    <3>2. ASSUME t.name \in tenantsMapping.default
          PROVE  Deployed(t.name) <=> "default" \in Instances
      <4>1. tenantsMapping["default"] = tenantsMapping.default /\ "default" \in DOMAIN tenantsMapping
        BY DEF tenantsMapping
      <4> QED
        BY <2>3, <3>2, <4>1, InstancesShareNoTenant DEF Deployed
    <3>3. CASE t.name \in tenantsMapping.default
      <4>1. t.id = ID(t.name) /\ (Deployed(t.name) <=> "default" \in Instances)
        BY <3>1, <3>2, <3>3
      <4> QED
        BY <2>9, <3>3, <4>1
    <3>4. CASE t.name \notin tenantsMapping.default
      <4>1. t.id = NoID
        BY <3>1, <3>4
      <4> QED
        BY <2>10, <3>4, <4>1
    <3> QED
      BY <3>3, <3>4
  <2>12. \A n \in TenantName : ID(n) \in limits <=> Limited(n) /\ Deployed(n)
    BY <2>9
  <2> QED
    BY <2>6, <2>7, <2>8, <2>11, <2>12 DEF WritePathSound
<1>2. ManifestsInv => WritePathSound
  BY <1>1 DEF WritePathSound
<1> QED
  BY <1>2, CallsInvariant, PTL
=============================================================================
