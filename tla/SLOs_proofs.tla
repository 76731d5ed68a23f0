---------------------------- MODULE SLOs_proofs ----------------------------
(***************************************************************************)
(* Proofs about the SLO generator.  First, of any objective whose row is   *)
(* sound: what relabelling makes of its alerts.  Then the rows of the      *)
(* source: that each is sound, that their names differ, and what tells the *)
(* rows of one instance from those of another on its cluster.  Last the    *)
(* generator: what it has added is what it was asked for so far.           *)
(***************************************************************************)
EXTENDS SLOs, SequenceTheorems, FiniteSetTheorems, TLAPS

-----------------------------------------------------------------------------
(* Labels.                                                                  *)

(* The keys of the selectors in slo.go.                                     *)
MatchKeys == {"job", "handler", "group", "method", "client", "container", "namespace",
              "service", "query", "route"}

(* What pyrra and makePrometheusRule rely on: the service is either         *)
(* propagated or matched, and no lookup has left a matcher empty.           *)
Sound(obj) ==
    /\ DOMAIN obj.match \subseteq MatchKeys
    /\ \A k \in DOMAIN obj.match : obj.match[k] # ""
    /\ \/ /\ obj.propagated \in {propagatedService("telemeter"),
                                 propagatedService("observatorium-api")}
          /\ "service" \notin DOMAIN obj.match
       \/ /\ obj.propagated = notPropagated
          /\ "service" \in DOMAIN obj.match
          /\ obj.match["service"] = "observatorium-alertmanager"
    /\ obj.alertName # "SLOMetricAbsent" /\ obj.name # << >>

\* The labels that all alerts of an objective have.
LEMMA BaseOf ==
  ASSUME NEW obj, Sound(obj)
  PROVE  LET b == BaseLabels(obj)
         IN  /\ DOMAIN b = DOMAIN obj.match \cup {"service", "slo"}
             /\ b["slo"] = obj.name
             /\ b["service"] \in {"telemeter", "observatorium-api",
                                  "observatorium-alertmanager"}
             /\ \A k \in DOMAIN obj.match \ {"service"} : b[k] = obj.match[k]
<1> DEFINE m == Merged(obj.match, [slo |-> obj.name])
           b == Merged(obj.propagated, m)
<1>1. /\ DOMAIN m = DOMAIN obj.match \cup {"slo"}
      /\ \A k \in DOMAIN obj.match : m[k] = obj.match[k]
      /\ m["slo"] = obj.name
  <2>1. "slo" \notin DOMAIN obj.match
    BY DEF Sound, MatchKeys
  <2> DEFINE named == [slo |-> obj.name]
  <2>2. DOMAIN named = {"slo"} /\ named["slo"] = obj.name
    OBVIOUS
  <2> HIDE DEF named
  <2>4. m = Merged(obj.match, named)
    BY DEF named
  <2> HIDE DEF m
  <2>3. /\ DOMAIN m = DOMAIN obj.match \cup DOMAIN named
        /\ \A k \in DOMAIN obj.match : m[k] = obj.match[k]
        /\ \A k \in DOMAIN named \ DOMAIN obj.match : m[k] = named[k]
    BY <2>4 DEF Merged
  <2> QED
    BY <2>1, <2>2, <2>3
<1>2. BaseLabels(obj) = b
  BY DEF BaseLabels
<1>6. b = Merged(obj.propagated, m)
  OBVIOUS
<1> HIDE DEF m, b
<1>3. /\ DOMAIN b = DOMAIN obj.propagated \cup DOMAIN m
      /\ \A k \in DOMAIN obj.propagated : b[k] = obj.propagated[k]
      /\ \A k \in DOMAIN m \ DOMAIN obj.propagated : b[k] = m[k]
  BY <1>6 DEF Merged
<1>4. CASE obj.propagated = notPropagated
  <2>1. /\ DOMAIN obj.propagated = {} /\ "service" \in DOMAIN obj.match
        /\ obj.match["service"] = "observatorium-alertmanager"
    BY <1>4 DEF Sound, notPropagated, propagatedService
  <2> QED
    BY <2>1, <1>1, <1>2, <1>3
<1>5. CASE obj.propagated # notPropagated
  <2>1. /\ obj.propagated \in {[service |-> "telemeter"], [service |-> "observatorium-api"]}
        /\ "service" \notin DOMAIN obj.match
    BY <1>5 DEF Sound, propagatedService
  <2>2. /\ DOMAIN obj.propagated = {"service"}
        /\ obj.propagated["service"] \in {"telemeter", "observatorium-api"}
    BY <2>1
  <2> QED
    BY <2>1, <2>2, <1>1, <1>2, <1>3
<1> QED
  BY <1>4, <1>5

\* What pruning does to labels.
LEMMA PrunedLabels ==
  ASSUME NEW l
  PROVE  /\ DOMAIN Pruned(l) = DOMAIN l \ {"le", "client", "container"}
         /\ \A k \in DOMAIN Pruned(l) : k # "service" => Pruned(l)[k] = l[k]
         /\ "service" \in DOMAIN l =>
               Pruned(l)["service"] = IF l["service"] = "observatorium-alertmanager"
                                      THEN "observatorium-api" ELSE l["service"]
  BY DEF Pruned, Without

\* What renaming does to labels that have neither window.
LEMMA RenamedAbsent ==
  ASSUME NEW l, "long" \notin DOMAIN l, "short" \notin DOMAIN l
  PROVE  /\ DOMAIN Renamed(l) = DOMAIN l
         /\ \A k \in DOMAIN l : Renamed(l)[k] = l[k]
<1> DEFINE w == Without(l, {"long", "short"})
           n == Merged(notPropagated, notPropagated)
<1>0. Renamed(l) = Merged(w, n)
  BY DEF Renamed
<1> HIDE DEF w, n
<1>1. /\ DOMAIN Renamed(l) = DOMAIN w \cup DOMAIN n
      /\ \A k \in DOMAIN w : Renamed(l)[k] = w[k]
      /\ \A k \in DOMAIN n \ DOMAIN w : Renamed(l)[k] = n[k]
  BY <1>0 DEF Merged
<1>2. DOMAIN n = {} /\ DOMAIN w = DOMAIN l /\ \A k \in DOMAIN l : w[k] = l[k]
  BY DEF Merged, notPropagated, Without, w, n
<1> QED
  BY <1>1, <1>2

\* What it does to labels that have both.
LEMMA RenamedWindows ==
  ASSUME NEW l, "long" \in DOMAIN l, "short" \in DOMAIN l,
         "long_burnrate_window" \notin DOMAIN l, "short_burnrate_window" \notin DOMAIN l
  PROVE  /\ DOMAIN Renamed(l) = (DOMAIN l \ {"long", "short"})
                                   \cup {"long_burnrate_window", "short_burnrate_window"}
         /\ \A k \in DOMAIN l \ {"long", "short"} : Renamed(l)[k] = l[k]
         /\ Renamed(l)["long_burnrate_window"] = l["long"]
         /\ Renamed(l)["short_burnrate_window"] = l["short"]
<1> DEFINE w == Without(l, {"long", "short"})
           long == [long_burnrate_window |-> l["long"]]
           short == [short_burnrate_window |-> l["short"]]
           n == Merged(long, short)
<1>0. Renamed(l) = Merged(w, n)
  BY DEF Renamed
<1> HIDE DEF w, n
<1>1. /\ DOMAIN Renamed(l) = DOMAIN w \cup DOMAIN n
      /\ \A k \in DOMAIN w : Renamed(l)[k] = w[k]
      /\ \A k \in DOMAIN n \ DOMAIN w : Renamed(l)[k] = n[k]
  BY <1>0 DEF Merged
<1>2. /\ DOMAIN w = DOMAIN l \ {"long", "short"}
      /\ \A k \in DOMAIN w : w[k] = l[k]
  BY DEF Without, w
<1>3. /\ DOMAIN n = {"long_burnrate_window", "short_burnrate_window"}
      /\ n["long_burnrate_window"] = l["long"] /\ n["short_burnrate_window"] = l["short"]
  BY DEF Merged, n
<1> QED
  BY <1>1, <1>2, <1>3

\* Only the severity of labels is changed by demoting them.
LEMMA DemotedLabels ==
  ASSUME NEW alert, NEW l, "severity" \in DOMAIN l, l["severity"] \in {"critical", "warning"}
  PROVE  /\ DOMAIN Demoted(alert, l) = DOMAIN l
         /\ \A k \in DOMAIN l \ {"severity"} : Demoted(alert, l)[k] = l[k]
         /\ Demoted(alert, l)["severity"] \in {"high", "medium"}
<1>1. CASE alert = "SLOMetricAbsent"
  BY <1>1 DEF Demoted
<1>2. CASE alert # "SLOMetricAbsent" /\ l["severity"] = "critical"
  BY <1>2 DEF Demoted
<1>3. CASE alert # "SLOMetricAbsent" /\ l["severity"] = "warning"
  BY <1>3 DEF Demoted
<1> QED
  BY <1>1, <1>2, <1>3

-----------------------------------------------------------------------------
(* The alerts of an objective in its rule file.                             *)
WindowLabels == {"short", "long", "exhaustion", "severity"}
Kept(obj)    == (DOMAIN obj.match \ {"client", "container"}) \cup {"service", "slo", "severity"}

AbsentOf(obj)  == Relabelled([alert  |-> "SLOMetricAbsent",
                              labels |-> Merged(BaseLabels(obj), [severity |-> "critical"])])
BurnOf(obj, w) == Relabelled([alert  |-> obj.alertName,
                              labels |-> Merged(BaseLabels(obj), w)])
AlertsOf(obj)  == {Relabelled(a) : a \in PyrraAlerts(obj)}

\* The four windows, which differ in the short one.
LEMMA WindowsAre ==
  /\ \A w \in Windows : /\ DOMAIN w = WindowLabels
                        /\ w["severity"] \in {"critical", "warning"}
                        /\ \A k \in WindowLabels : w[k] # ""
  /\ \A w, v \in Windows : w["short"] = v["short"] => w = v
  BY DEF Windows, WindowLabels

\* What is left of an alert's labels, and with which values.
LEMMA RelabelledIs ==
  ASSUME NEW obj, Sound(obj), NEW more, NEW alert,
         "severity" \in DOMAIN more, more["severity"] \in {"critical", "warning"},
         DOMAIN more \cap (MatchKeys \cup {"slo", "long_burnrate_window",
                                           "short_burnrate_window"}) = {},
         "long" \in DOMAIN more <=> "short" \in DOMAIN more
  PROVE  LET a == Relabelled([alert |-> alert, labels |-> Merged(BaseLabels(obj), more)])
             windows == IF "long" \in DOMAIN more
                        THEN {"long_burnrate_window", "short_burnrate_window"} ELSE {}
         IN  /\ a.alert = alert
             /\ DOMAIN a.labels = Kept(obj) \cup windows
                                    \cup (DOMAIN more \ {"le", "long", "short"})
             /\ a.labels["slo"] = obj.name
             /\ a.labels["service"] \in {"telemeter", "observatorium-api"}
             /\ a.labels["severity"] \in {"high", "medium"}
             /\ \A k \in Kept(obj) \ {"service", "slo", "severity"} :
                   a.labels[k] = obj.match[k]
             /\ \A k \in DOMAIN more \ {"le", "long", "short", "severity"} :
                   a.labels[k] = more[k]
             /\ "long" \in DOMAIN more =>
                   /\ a.labels["long_burnrate_window"] = more["long"]
                   /\ a.labels["short_burnrate_window"] = more["short"]
<1> DEFINE b == BaseLabels(obj)
           l == Merged(b, more)
           p == Pruned(l)
           r == Renamed(p)
           d == Demoted(alert, r)
           windows == IF "long" \in DOMAIN more
                      THEN {"long_burnrate_window", "short_burnrate_window"} ELSE {}
<1>1. Relabelled([alert |-> alert, labels |-> l]) = [alert |-> alert, labels |-> d]
  BY DEF Relabelled
<1>2. /\ DOMAIN b = DOMAIN obj.match \cup {"service", "slo"}
      /\ b["slo"] = obj.name
      /\ b["service"] \in {"telemeter", "observatorium-api", "observatorium-alertmanager"}
      /\ \A k \in DOMAIN obj.match \ {"service"} : b[k] = obj.match[k]
  BY BaseOf
<1>3. DOMAIN obj.match \subseteq MatchKeys
  BY DEF Sound
<1>4. l = Merged(b, more)
  OBVIOUS
<1>5. p = Pruned(l)
  OBVIOUS
<1>6. r = Renamed(p)
  OBVIOUS
<1>7. d = Demoted(alert, r)
  OBVIOUS
<1> HIDE DEF b, l, p, r, d
<1>8. /\ DOMAIN l = DOMAIN b \cup DOMAIN more
      /\ \A k \in DOMAIN b : l[k] = b[k]
      /\ \A k \in DOMAIN more \ DOMAIN b : l[k] = more[k]
  BY <1>4 DEF Merged
<1>9. DOMAIN b \subseteq MatchKeys \cup {"slo"} /\ DOMAIN b \cap DOMAIN more = {}
  BY <1>2, <1>3 DEF MatchKeys
<1>10. /\ DOMAIN p = DOMAIN l \ {"le", "client", "container"}
       /\ \A k \in DOMAIN p \ {"service"} : p[k] = l[k]
       /\ p["service"] \in {"telemeter", "observatorium-api"}
  <2>1. /\ DOMAIN p = DOMAIN l \ {"le", "client", "container"}
        /\ \A k \in DOMAIN p : k # "service" => p[k] = l[k]
        /\ "service" \in DOMAIN l =>
              p["service"] = IF l["service"] = "observatorium-alertmanager"
                             THEN "observatorium-api" ELSE l["service"]
    BY <1>5, PrunedLabels
  <2>2. "service" \in DOMAIN l /\ l["service"] = b["service"]
    BY <1>2, <1>8
  <2> QED
    BY <1>2, <2>1, <2>2
<1>11. /\ {"long", "short", "long_burnrate_window", "short_burnrate_window", "le", "severity"}
             \cap DOMAIN b = {}
       /\ {"service", "slo"} \cap DOMAIN more = {}
  BY <1>9 DEF MatchKeys
<1>12. /\ DOMAIN r = (DOMAIN p \ {"long", "short"}) \cup windows
       /\ \A k \in DOMAIN p \ {"long", "short"} : r[k] = p[k]
       /\ "long" \in DOMAIN more => /\ r["long_burnrate_window"] = p["long"]
                                    /\ r["short_burnrate_window"] = p["short"]
  <2>1. CASE "long" \in DOMAIN more
    <3>1. /\ "long" \in DOMAIN p /\ "short" \in DOMAIN p
          /\ "long_burnrate_window" \notin DOMAIN p /\ "short_burnrate_window" \notin DOMAIN p
      BY <2>1, <1>8, <1>10, <1>11
    <3>2. windows = {"long_burnrate_window", "short_burnrate_window"}
      BY <2>1
    <3> HIDE DEF windows
    <3> QED
      BY <3>1, <3>2, <1>6, RenamedWindows
  <2>2. CASE "long" \notin DOMAIN more
    <3>1. "long" \notin DOMAIN p /\ "short" \notin DOMAIN p
      BY <2>2, <1>8, <1>10, <1>11
    <3>2. windows = {}
      BY <2>2
    <3> HIDE DEF windows
    <3> QED
      BY <3>1, <3>2, <2>2, <1>6, RenamedAbsent
  <2> QED
    BY <2>1, <2>2
<1>13. "severity" \in DOMAIN r /\ r["severity"] \in {"critical", "warning"}
  BY <1>8, <1>10, <1>11, <1>12
<1>14. /\ DOMAIN d = DOMAIN r /\ \A k \in DOMAIN r \ {"severity"} : d[k] = r[k]
       /\ d["severity"] \in {"high", "medium"}
  BY <1>7, <1>13, DemotedLabels
<1>15. DOMAIN d = Kept(obj) \cup windows \cup (DOMAIN more \ {"le", "long", "short"})
  <2> HIDE DEF windows
  <2>1. DOMAIN d = ((((DOMAIN obj.match \cup {"service", "slo"}) \cup DOMAIN more)
                        \ {"le", "client", "container"}) \ {"long", "short"}) \cup windows
    BY <1>2, <1>8, <1>10, <1>12, <1>14
  <2>2. /\ {"le", "long", "short"} \cap DOMAIN obj.match = {}
        /\ {"client", "container"} \cap DOMAIN more = {}
    BY <1>2, <1>9, <1>11 DEF MatchKeys
  <2> QED
    BY <2>1, <2>2 DEF Kept
<1>16. /\ d["slo"] = obj.name /\ d["service"] \in {"telemeter", "observatorium-api"}
  BY <1>2, <1>8, <1>10, <1>11, <1>12, <1>14
<1>17. ASSUME NEW k \in Kept(obj) \ {"service", "slo", "severity"}
       PROVE  d[k] = obj.match[k]
  <2>1. k \in DOMAIN obj.match /\ k \notin {"client", "container", "le", "long", "short"}
    BY <1>2, <1>11 DEF Kept
  <2> QED
    BY <2>1, <1>2, <1>8, <1>10, <1>12, <1>14, <1>17
<1>18. ASSUME NEW k \in DOMAIN more \ {"le", "long", "short", "severity"}
       PROVE  d[k] = more[k]
  <2>1. k \notin DOMAIN b /\ k # "service" /\ k \notin {"client", "container"}
    BY <1>2, <1>9, <1>11, <1>18 DEF MatchKeys
  <2> QED
    BY <2>1, <1>8, <1>10, <1>12, <1>14, <1>18
<1>19. "long" \in DOMAIN more => /\ d["long_burnrate_window"] = more["long"]
                                 /\ d["short_burnrate_window"] = more["short"]
  BY <1>8, <1>10, <1>11, <1>12, <1>14
<1> HIDE DEF windows
<1>20. /\ [alert |-> alert, labels |-> d].alert = alert
       /\ [alert |-> alert, labels |-> d].labels = d
  OBVIOUS
<1> QED
  BY <1>1, <1>14, <1>15, <1>16, <1>17, <1>18, <1>19, <1>20 DEF windows, l, b

\* The alert for absent metrics of a sound objective.
LEMMA AbsentIs ==
  ASSUME NEW obj, Sound(obj)
  PROVE  LET a == AbsentOf(obj)
         IN  /\ a.alert = "SLOMetricAbsent"
             /\ DOMAIN a.labels = Kept(obj)
             /\ a.labels["slo"] = obj.name
             /\ a.labels["service"] \in {"telemeter", "observatorium-api"}
             /\ a.labels["severity"] \in {"high", "medium"}
             /\ \A k \in Kept(obj) \ {"service", "slo", "severity"} :
                   a.labels[k] = obj.match[k]
<1> DEFINE more == [severity |-> "critical"]
<1>1. DOMAIN more = {"severity"} /\ more["severity"] = "critical"
  OBVIOUS
<1>2. AbsentOf(obj) = Relabelled([alert |-> "SLOMetricAbsent",
                                  labels |-> Merged(BaseLabels(obj), more)])
  BY DEF AbsentOf
<1> HIDE DEF more
<1>3. /\ "long" \notin DOMAIN more /\ "short" \notin DOMAIN more
      /\ DOMAIN more \ {"le", "long", "short"} = {"severity"}
      /\ DOMAIN more \cap (MatchKeys \cup {"slo", "long_burnrate_window",
                                            "short_burnrate_window"}) = {}
  BY <1>1 DEF MatchKeys
<1>4. "severity" \in Kept(obj)
  BY DEF Kept
<1> QED
  BY <1>1, <1>2, <1>3, <1>4, RelabelledIs

\* The one of a pair of windows.
LEMMA BurnIs ==
  ASSUME NEW obj, Sound(obj), NEW w \in Windows
  PROVE  LET a == BurnOf(obj, w)
         IN  /\ a.alert = obj.alertName
             /\ DOMAIN a.labels = Kept(obj) \cup {"exhaustion", "long_burnrate_window",
                                                  "short_burnrate_window"}
             /\ a.labels["slo"] = obj.name
             /\ a.labels["service"] \in {"telemeter", "observatorium-api"}
             /\ a.labels["severity"] \in {"high", "medium"}
             /\ \A k \in Kept(obj) \ {"service", "slo", "severity"} :
                   a.labels[k] = obj.match[k]
             /\ a.labels["exhaustion"] = w["exhaustion"]
             /\ a.labels["long_burnrate_window"] = w["long"]
             /\ a.labels["short_burnrate_window"] = w["short"]
<1>1. DOMAIN w = WindowLabels /\ w["severity"] \in {"critical", "warning"}
  BY WindowsAre
<1>2. BurnOf(obj, w) = Relabelled([alert |-> obj.alertName,
                                   labels |-> Merged(BaseLabels(obj), w)])
  BY DEF BurnOf
<1>3. /\ "long" \in DOMAIN w /\ "short" \in DOMAIN w /\ "severity" \in DOMAIN w
      /\ DOMAIN w \ {"le", "long", "short"} = {"severity", "exhaustion"}
      /\ DOMAIN w \cap (MatchKeys \cup {"slo", "long_burnrate_window",
                                         "short_burnrate_window"}) = {}
  BY <1>1 DEF MatchKeys, WindowLabels
<1>4. "severity" \in Kept(obj)
  BY DEF Kept
<1>5. "exhaustion" \in DOMAIN w \ {"le", "long", "short", "severity"}
  BY <1>3
<1> QED
  BY <1>1, <1>2, <1>3, <1>4, <1>5, RelabelledIs

\* The bound of a latency objective is pruned: its two alerts for absent metrics
\* become one.
LEMMA AlertsAre ==
  ASSUME NEW obj, Sound(obj)
  PROVE  AlertsOf(obj) = {AbsentOf(obj)} \cup {BurnOf(obj, w) : w \in Windows}
<1> DEFINE l == Merged(BaseLabels(obj), [severity |-> "critical"])
           le == Merged(l, [le |-> "5"])
           absent(labels) == [alert |-> "SLOMetricAbsent", labels |-> labels]
<1>1. Pruned(le) = Pruned(l)
  <2>1. /\ DOMAIN le = DOMAIN l \cup {"le"}
        /\ \A k \in DOMAIN l : le[k] = l[k]
    <3> HIDE DEF l
    <3> QED
      BY DEF Merged
  <2> HIDE DEF l, le
  <2>2. Without(le, {"le", "client", "container"}) = Without(l, {"le", "client", "container"})
    BY <2>1 DEF Without
  <2> QED
    BY <2>2 DEF Pruned
<1>2. Relabelled(absent(l)) = AbsentOf(obj)
  BY DEF AbsentOf
<1>3. Relabelled(absent(le)) = Relabelled(absent(l))
  <2> HIDE DEF l, le
  <2> QED
    BY <1>1 DEF Relabelled
<1>4. AbsentAlerts(obj) = {absent(l)} \/ AbsentAlerts(obj) = {absent(l), absent(le)}
  BY DEF AbsentAlerts
<1>5. BurnRateAlerts(obj)
        = {[alert |-> obj.alertName, labels |-> Merged(BaseLabels(obj), w)] : w \in Windows}
  BY DEF BurnRateAlerts
<1> HIDE DEF l, le, absent
<1>6. {Relabelled(a) : a \in AbsentAlerts(obj)} = {AbsentOf(obj)}
  BY <1>2, <1>3, <1>4
<1>7. {Relabelled(a) : a \in BurnRateAlerts(obj)} = {BurnOf(obj, w) : w \in Windows}
  BY <1>5 DEF BurnOf
<1> QED
  BY <1>6, <1>7 DEF AlertsOf, PyrraAlerts

(* What EveryAlertIsRouted asks of one alert.                               *)
Routed(a) ==
    /\ {"service", "severity", "slo"} \subseteq DOMAIN a.labels
    /\ a.labels["service"] \in {"telemeter", "observatorium-api"}
    /\ a.labels["severity"] \in {"high", "medium"}
    /\ DOMAIN a.labels \cap {"le", "client", "container", "long", "short"} = {}
    /\ a.labels["slo"] # << >>
    /\ \A k \in DOMAIN a.labels \ {"slo"} : a.labels[k] # ""

\* Whatever its selector, the alerts of a sound objective can be routed.
LEMMA SoundAlertsAreRouted ==
  ASSUME NEW obj, Sound(obj), NEW a \in AlertsOf(obj)
  PROVE  Routed(a) /\ a.labels["slo"] = obj.name
<1>1. /\ {"service", "severity", "slo"} \subseteq Kept(obj)
      /\ Kept(obj) \cap {"le", "client", "container", "long", "short"} = {}
      /\ \A k \in Kept(obj) \ {"service", "slo", "severity"} : obj.match[k] # ""
      /\ obj.name # << >>
  BY DEF Kept, Sound, MatchKeys
<1>2. CASE a = AbsentOf(obj)
  BY <1>1, <1>2, AbsentIs DEF Routed
<1>3. ASSUME NEW w \in Windows, a = BurnOf(obj, w)
      PROVE  Routed(a) /\ a.labels["slo"] = obj.name
  <2>1. w["exhaustion"] # "" /\ w["long"] # "" /\ w["short"] # ""
    BY WindowsAre DEF WindowLabels
  <2>2. /\ DOMAIN a.labels = Kept(obj) \cup {"exhaustion", "long_burnrate_window",
                                            "short_burnrate_window"}
        /\ a.labels["slo"] = obj.name
        /\ a.labels["service"] \in {"telemeter", "observatorium-api"}
        /\ a.labels["severity"] \in {"high", "medium"}
        /\ \A k \in Kept(obj) \ {"service", "slo", "severity"} : a.labels[k] = obj.match[k]
        /\ a.labels["exhaustion"] = w["exhaustion"]
        /\ a.labels["long_burnrate_window"] = w["long"]
        /\ a.labels["short_burnrate_window"] = w["short"]
    BY <1>3, BurnIs
  <2>3. ASSUME NEW k \in DOMAIN a.labels \ {"slo"}
        PROVE  a.labels[k] # ""
    <3>1. CASE k \in {"service", "severity"}
      BY <3>1, <2>2
    <3>2. CASE k \in {"exhaustion", "long_burnrate_window", "short_burnrate_window"}
      BY <3>2, <2>1, <2>2
    <3>3. CASE k \in Kept(obj) \ {"service", "slo", "severity"}
      BY <3>3, <1>1, <2>2
    <3> QED
      BY <2>2, <2>3, <3>1, <3>2, <3>3
  <2> QED
    BY <1>1, <2>2, <2>3 DEF Routed
<1> QED
  BY <1>2, <1>3, AlertsAre

-----------------------------------------------------------------------------
(* The rows of the source.                                                  *)

(* The environments that have rows of the API.                              *)
Served == {telemeterProduction, telemeterStaging, mstProduction, mstStage}

\* Every environment served is in every table with a value.
LEMMA TableValues ==
  ASSUME NEW e \in Served, NEW t \in {apiJobSelector, metricsNS, upNS}
  PROVE  At(t, e) # ""
  BY DEF At, Served, Tabled, apiJobSelector, metricsNS, upNS, telemeterProduction,
         telemeterStaging, mstProduction, mstStage, rhobsp02ue1Production

(* The names of the rows: those of the API, in order, and then those of the *)
(* remote write path, by instance.                                          *)
Names ==
    << <<"api", "metrics", "write", "availability", "slo">>,
       <<"api", "metrics", "rule", "query", "availability", "slo">>,
       <<"api", "metrics", "query", "availability", "slo">>,
       <<"api", "metrics", "query", "range", "availability", "slo">>,
       <<"api", "rules", "raw", "write", "availability", "slo">>,
       <<"api", "rules", "read", "availability", "slo">>,
       <<"api", "rules", "sync", "availability", "slo">>,
       <<"api", "alerting", "availability", "slo">>,
       <<"api", "alerting", "notif", "availability", "slo">>,
       <<"api", "metrics", "write", "latency", "slo">>,
       <<"api", "metrics", "rule", "read", "1M", "latency", "slo">>,
       <<"api", "metrics", "rule", "read", "10M", "latency", "slo">>,
       <<"api", "metrics", "rule", "read", "100M", "latency", "slo">>,
       <<"api", "metrics", "read", "1M", "latency", "slo">>,
       <<"api", "metrics", "read", "10M", "latency", "slo">>,
       <<"api", "metrics", "read", "100M", "latency", "slo">>,
       <<"rhobs", "telemeter", "server", "metrics", "upload", "availability", "slo">>,
       <<"rhobs", "telemeter", "server", "metrics", "upload", "latency", "slo">>,
       <<"rhobs", "telemeter", "server", "metrics", "receive", "availability", "slo">>,
       <<"rhobs", "telemeter", "server", "metrics", "receive", "latency", "slo">>,
       <<"rhobs", "rhelemeter", "server", "metrics", "receive", "availability", "slo">>,
       <<"rhobs", "rhelemeter", "server", "metrics", "receive", "latency", "slo">> >>

(* The number of a name.                                                    *)
NumberOf(n) ==
    IF n[2] = "metrics"
    THEN IF n[3] = "write"      THEN IF n[4] = "availability" THEN 1 ELSE 10
         ELSE IF n[3] = "query" THEN IF n[4] = "availability" THEN 3 ELSE 4
         ELSE IF n[3] = "read"  THEN IF n[4] = "1M" THEN 14 ELSE IF n[4] = "10M" THEN 15 ELSE 16
         ELSE IF n[4] = "query" THEN 2
         ELSE IF n[5] = "1M" THEN 11 ELSE IF n[5] = "10M" THEN 12 ELSE 13
    ELSE IF n[2] = "rules"
    THEN IF n[3] = "raw" THEN 5 ELSE IF n[3] = "read" THEN 6 ELSE 7
    ELSE IF n[2] = "alerting"
    THEN IF n[3] = "availability" THEN 8 ELSE 9
    ELSE IF n[2] = "telemeter"
    THEN IF n[5] = "upload" THEN IF n[6] = "availability" THEN 17 ELSE 18
         ELSE IF n[6] = "availability" THEN 19 ELSE 20
    ELSE IF n[6] = "availability" THEN 21 ELSE 22

(* A list with l elements.                                                  *)
Listed(n, l) == DOMAIN n = 1 .. l /\ n = [k \in 1 .. l |-> n[k]]

\* The number of a name is its position: the names differ.
LEMMA NamesNumbered ==
  ASSUME NEW n \in 1 .. 22
  PROVE  /\ NumberOf(Names[n]) = n /\ Names[n] # << >>
         /\ \E l \in Nat : Listed(Names[n], l)
<1> DEFINE P(k, l) == NumberOf(Names[k]) = k /\ Names[k] # << >> /\ Listed(Names[k], l)
<1>1. P(1, 5)
  BY DEF Names, NumberOf, Listed
<1>2. P(2, 6)
  BY DEF Names, NumberOf, Listed
<1>3. P(3, 5)
  BY DEF Names, NumberOf, Listed
<1>4. P(4, 6)
  BY DEF Names, NumberOf, Listed
<1>5. P(5, 6)
  BY DEF Names, NumberOf, Listed
<1>6. P(6, 5)
  BY DEF Names, NumberOf, Listed
<1>7. P(7, 5)
  BY DEF Names, NumberOf, Listed
<1>8. P(8, 4)
  BY DEF Names, NumberOf, Listed
<1>9. P(9, 5)
  BY DEF Names, NumberOf, Listed
<1>10. P(10, 5)
  BY DEF Names, NumberOf, Listed
<1>11. P(11, 7)
  BY DEF Names, NumberOf, Listed
<1>12. P(12, 7)
  BY DEF Names, NumberOf, Listed
<1>13. P(13, 7)
  BY DEF Names, NumberOf, Listed
<1>14. P(14, 6)
  BY DEF Names, NumberOf, Listed
<1>15. P(15, 6)
  BY DEF Names, NumberOf, Listed
<1>16. P(16, 6)
  BY DEF Names, NumberOf, Listed
<1>17. P(17, 7)
  BY DEF Names, NumberOf, Listed
<1>18. P(18, 7)
  BY DEF Names, NumberOf, Listed
<1>19. P(19, 7)
  BY DEF Names, NumberOf, Listed
<1>20. P(20, 7)
  BY DEF Names, NumberOf, Listed
<1>21. P(21, 7)
  BY DEF Names, NumberOf, Listed
<1>22. P(22, 7)
  BY DEF Names, NumberOf, Listed
<1> HIDE DEF P
<1> QED
  <2>1. \E l \in Nat : P(n, l)
    BY <1>1, <1>2, <1>3, <1>4, <1>5, <1>6, <1>7, <1>8, <1>9, <1>10, <1>11, <1>12,
       <1>13, <1>14, <1>15, <1>16, <1>17, <1>18, <1>19, <1>20, <1>21, <1>22
  <2> QED
    BY <2>1 DEF P

(* What a row of the API matches the environment by.                        *)
KeyOf(n)   == IF n \in {1, 3, 4, 5, 6, 10} THEN "job" ELSE "namespace"
TableOf(n) == IF n \in {1, 3, 4, 5, 6, 10} THEN apiJobSelector
              ELSE IF n \in {7, 8, 9} THEN metricsNS ELSE upNS

(* What the proofs use of the row with a number, and of a row of the API.   *)
RowFields == {"name", "alertName", "sloType", "propagated", "match"}
Numbered(row, n) == DOMAIN row = RowFields /\ row.name = Names[n] /\ Sound(row)
ByInstance(row, n, e) ==
    n # 2 => /\ KeyOf(n) \in DOMAIN row.match \ {"client", "container"}
             /\ row.match[KeyOf(n)] = At(TableOf(n), e)

(* A selector whose matchers all have a value, and none is of the service.  *)
Filled(match) ==
    /\ DOMAIN match \subseteq MatchKeys \ {"service"}
    /\ \A k \in DOMAIN match : match[k] # ""

\* A row with such a selector propagates the service.
LEMMA FilledIsSound ==
  ASSUME NEW row, NEW n \in 1 .. 22, DOMAIN row = RowFields, row.name = Names[n],
         row.propagated \in {propagatedService("telemeter"),
                             propagatedService("observatorium-api")},
         row.alertName # "SLOMetricAbsent", Filled(row.match)
  PROVE  Numbered(row, n)
<1>1. Names[n] # << >>
  BY NamesNumbered
<1> QED
  BY <1>1 DEF Numbered, Sound, Filled

Api(e, handler) == [job |-> At(apiJobSelector, e), handler |-> handler, group |-> "metricsv1"]

\* The selectors of the rows.
LEMMA RouteIsFilled ==
  ASSUME NEW x, x # ""
  PROVE  Filled([route |-> x])
<1> DEFINE m == [route |-> x]
<1>1. DOMAIN m = {"route"} /\ m["route"] = x
  OBVIOUS
<1> HIDE DEF m
<1>2. Filled(m)
  BY <1>1 DEF Filled, MatchKeys
<1> QED
  BY <1>2 DEF m

\* Of two matchers.
LEMMA PairsAreFilled ==
  ASSUME NEW x, NEW y, x # "", y # ""
  PROVE  /\ Filled([query |-> x, namespace |-> y]) /\ Filled([job |-> x, handler |-> y])
         /\ Filled([container |-> x, namespace |-> y])
<1>1. Filled([query |-> x, namespace |-> y])
  <2> DEFINE m == [query |-> x, namespace |-> y]
  <2>1. DOMAIN m = {"query", "namespace"} /\ m["query"] = x /\ m["namespace"] = y
    OBVIOUS
  <2> HIDE DEF m
  <2>2. Filled(m)
    BY <2>1 DEF Filled, MatchKeys
  <2> QED
    BY <2>2 DEF m
<1>2. Filled([job |-> x, handler |-> y])
  <2> DEFINE m == [job |-> x, handler |-> y]
  <2>1. DOMAIN m = {"job", "handler"} /\ m["job"] = x /\ m["handler"] = y
    OBVIOUS
  <2> HIDE DEF m
  <2>2. Filled(m)
    BY <2>1 DEF Filled, MatchKeys
  <2> QED
    BY <2>2 DEF m
<1>3. Filled([container |-> x, namespace |-> y])
  <2> DEFINE m == [container |-> x, namespace |-> y]
  <2>1. DOMAIN m = {"container", "namespace"} /\ m["container"] = x /\ m["namespace"] = y
    OBVIOUS
  <2> HIDE DEF m
  <2>2. Filled(m)
    BY <2>1 DEF Filled, MatchKeys
  <2> QED
    BY <2>2 DEF m
<1> QED
  BY <1>1, <1>2, <1>3

\* Of three.
LEMMA ClientIsFilled ==
  ASSUME NEW x, NEW y, NEW z, x # "", y # "", z # ""
  PROVE  Filled([client |-> x, container |-> y, namespace |-> z])
<1> DEFINE m == [client |-> x, container |-> y, namespace |-> z]
<1>1. /\ DOMAIN m = {"client", "container", "namespace"}
      /\ m["client"] = x /\ m["container"] = y /\ m["namespace"] = z
  OBVIOUS
<1> HIDE DEF m
<1>2. Filled(m)
  BY <1>1 DEF Filled, MatchKeys
<1> QED
  BY <1>2 DEF m

\* Those of the API's rows, by handler.
LEMMA ApiIsFilled ==
  ASSUME NEW e \in Served, NEW h, h # ""
  PROVE  /\ Filled(Api(e, h)) /\ "job" \in DOMAIN Api(e, h)
         /\ Api(e, h)["job"] = At(apiJobSelector, e)
<1>1. At(apiJobSelector, e) # ""
  BY TableValues
<1>2. /\ DOMAIN Api(e, h) = {"job", "handler", "group"}
      /\ Api(e, h)["job"] = At(apiJobSelector, e) /\ Api(e, h)["handler"] = h
      /\ Api(e, h)["group"] = "metricsv1"
  BY DEF Api
<1> QED
  BY <1>1, <1>2 DEF Filled, MatchKeys

\* And by method.
LEMMA MethodIsFilled ==
  ASSUME NEW e \in Served, NEW h, h # "", NEW m, m # ""
  PROVE  LET put == Merged(Api(e, h), [method |-> m])
         IN  Filled(put) /\ "job" \in DOMAIN put /\ put["job"] = At(apiJobSelector, e)
<1>1. /\ Filled(Api(e, h)) /\ "job" \in DOMAIN Api(e, h)
      /\ Api(e, h)["job"] = At(apiJobSelector, e)
  BY ApiIsFilled
<1>2. "method" \notin DOMAIN Api(e, h)
  BY DEF Api
<1> DEFINE more == [method |-> m]
           put == Merged(Api(e, h), more)
<1>4. DOMAIN more = {"method"} /\ more["method"] = m /\ put = Merged(Api(e, h), more)
  OBVIOUS
<1> HIDE DEF more, put
<1>5. /\ DOMAIN put = DOMAIN Api(e, h) \cup {"method"}
      /\ \A k \in DOMAIN Api(e, h) : put[k] = Api(e, h)[k]
      /\ put["method"] = m
  BY <1>2, <1>4 DEF Merged
<1>6. Filled(put)
  BY <1>1, <1>5 DEF Filled, MatchKeys
<1> QED
  BY <1>1, <1>5, <1>6 DEF put, more

\* The rows of availability.
LEMMA AvailabilityRows ==
  ASSUME NEW e \in Served, NEW i \in 1 .. 9
  PROVE  LET rows == ObservatoriumAvailabilityRows(e)
         IN  Numbered(rows[i], i) /\ ByInstance(rows[i], i, e)
<1> DEFINE rows == ObservatoriumAvailabilityRows(e)
           plain(k, match) == /\ DOMAIN rows[k] = RowFields /\ rows[k].name = Names[k]
                             /\ rows[k].propagated = propagatedService("observatorium-api")
                             /\ rows[k].alertName # "SLOMetricAbsent"
                             /\ rows[k].match = match
           done(k) == Numbered(rows[k], k) /\ ByInstance(rows[k], k, e)
<1>0. At(apiJobSelector, e) # "" /\ At(metricsNS, e) # ""
  BY TableValues
<1>1. done(1)
  <2>1. plain(1, Api(e, "receive"))
    BY DEF ObservatoriumAvailabilityRows, SLORow, RowFields, Names, Api
  <2> HIDE DEF rows
  <2>2. /\ Filled(Api(e, "receive")) /\ "job" \in DOMAIN Api(e, "receive")
        /\ Api(e, "receive")["job"] = At(apiJobSelector, e)
    BY ApiIsFilled
  <2> QED
    BY <2>1, <2>2, FilledIsSound DEF ByInstance, KeyOf, TableOf
<1>2. done(2)
  <2>1. plain(2, [job |-> "observatorium-ruler-query", handler |-> "query"])
    BY DEF ObservatoriumAvailabilityRows, SLORow, RowFields, Names, Api
  <2> HIDE DEF rows
  <2>2. Filled([job |-> "observatorium-ruler-query", handler |-> "query"])
    BY <1>0, PairsAreFilled, ClientIsFilled
  <2> QED
    BY <2>1, <2>2, FilledIsSound DEF ByInstance, KeyOf, TableOf
<1>3. done(3)
  <2>1. plain(3, Api(e, "query"))
    BY DEF ObservatoriumAvailabilityRows, SLORow, RowFields, Names, Api
  <2> HIDE DEF rows
  <2>2. /\ Filled(Api(e, "query")) /\ "job" \in DOMAIN Api(e, "query")
        /\ Api(e, "query")["job"] = At(apiJobSelector, e)
    BY ApiIsFilled
  <2> QED
    BY <2>1, <2>2, FilledIsSound DEF ByInstance, KeyOf, TableOf
<1>4. done(4)
  <2>1. plain(4, Api(e, "query_range"))
    BY DEF ObservatoriumAvailabilityRows, SLORow, RowFields, Names, Api
  <2> HIDE DEF rows
  <2>2. /\ Filled(Api(e, "query_range")) /\ "job" \in DOMAIN Api(e, "query_range")
        /\ Api(e, "query_range")["job"] = At(apiJobSelector, e)
    BY ApiIsFilled
  <2> QED
    BY <2>1, <2>2, FilledIsSound DEF ByInstance, KeyOf, TableOf
<1>5. done(5)
  <2>1. plain(5, Merged(Api(e, "rules-raw"), [method |-> "PUT"]))
    BY DEF ObservatoriumAvailabilityRows, SLORow, RowFields, Names, Api
  <2> HIDE DEF rows
  <2>2. /\ Filled(Merged(Api(e, "rules-raw"), [method |-> "PUT"]))
        /\ "job" \in DOMAIN Merged(Api(e, "rules-raw"), [method |-> "PUT"])
        /\ Merged(Api(e, "rules-raw"), [method |-> "PUT"])["job"] = At(apiJobSelector, e)
    BY MethodIsFilled
  <2> QED
    BY <2>1, <2>2, FilledIsSound DEF ByInstance, KeyOf, TableOf
<1>6. done(6)
  <2>1. plain(6, Merged(Api(e, "rules"), [method |-> "GET"]))
    BY DEF ObservatoriumAvailabilityRows, SLORow, RowFields, Names, Api
  <2> HIDE DEF rows
  <2>2. /\ Filled(Merged(Api(e, "rules"), [method |-> "GET"]))
        /\ "job" \in DOMAIN Merged(Api(e, "rules"), [method |-> "GET"])
        /\ Merged(Api(e, "rules"), [method |-> "GET"])["job"] = At(apiJobSelector, e)
    BY MethodIsFilled
  <2> QED
    BY <2>1, <2>2, FilledIsSound DEF ByInstance, KeyOf, TableOf
<1>7. done(7)
  <2>1. plain(7, [client |-> "reload", container |-> "thanos-rule-syncer",
                 namespace |-> At(metricsNS, e)])
    BY DEF ObservatoriumAvailabilityRows, SLORow, RowFields, Names, Api
  <2> HIDE DEF rows
  <2>2. Filled([client |-> "reload", container |-> "thanos-rule-syncer",
                 namespace |-> At(metricsNS, e)])
    BY <1>0, PairsAreFilled, ClientIsFilled
  <2> QED
    BY <2>1, <2>2, FilledIsSound DEF ByInstance, KeyOf, TableOf
<1>8. done(8)
  <2>1. plain(8, [container |-> "thanos-rule", namespace |-> At(metricsNS, e)])
    BY DEF ObservatoriumAvailabilityRows, SLORow, RowFields, Names, Api
  <2> HIDE DEF rows
  <2>2. Filled([container |-> "thanos-rule", namespace |-> At(metricsNS, e)])
    BY <1>0, PairsAreFilled, ClientIsFilled
  <2> QED
    BY <2>1, <2>2, FilledIsSound DEF ByInstance, KeyOf, TableOf
<1>9. done(9)
  <2>1. /\ DOMAIN rows[9] = RowFields /\ rows[9].name = Names[9]
        /\ rows[9].propagated = notPropagated /\ rows[9].alertName # "SLOMetricAbsent"
        /\ rows[9].match = [service |-> "observatorium-alertmanager",
                            namespace |-> At(metricsNS, e)]
    BY DEF ObservatoriumAvailabilityRows, SLORow, RowFields, Names, Api
  <2>2. Names[9] # << >>
    BY NamesNumbered
  <2> HIDE DEF rows
  <2> DEFINE m == [service |-> "observatorium-alertmanager", namespace |-> At(metricsNS, e)]
  <2>3. /\ DOMAIN m = {"service", "namespace"} /\ m["service"] = "observatorium-alertmanager"
        /\ m["namespace"] = At(metricsNS, e) /\ rows[9].match = m
    BY <2>1
  <2> HIDE DEF m
  <2>4. /\ DOMAIN rows[9].match = {"service", "namespace"}
        /\ rows[9].match["service"] = "observatorium-alertmanager"
        /\ rows[9].match["namespace"] = At(metricsNS, e)
    BY <2>3
  <2>5. Sound(rows[9])
    BY <1>0, <2>1, <2>2, <2>4 DEF Sound, MatchKeys
  <2> QED
    BY <2>1, <2>5, <2>4 DEF Numbered, ByInstance, KeyOf, TableOf
<1> HIDE DEF done
<1>10. done(i)
  BY <1>1, <1>2, <1>3, <1>4, <1>5, <1>6, <1>7, <1>8, <1>9
<1> QED
  BY <1>10 DEF done

\* Those of latency.
LEMMA LatencyRows ==
  ASSUME NEW e \in Served, NEW i \in 1 .. 7
  PROVE  LET rows == ObservatoriumLatencyRows(e)
         IN  Numbered(rows[i], 9 + i) /\ ByInstance(rows[i], 9 + i, e)
<1> DEFINE rows == ObservatoriumLatencyRows(e)
           plain(k, match) == /\ DOMAIN rows[k] = RowFields /\ rows[k].name = Names[9 + k]
                             /\ rows[k].propagated = propagatedService("observatorium-api")
                             /\ rows[k].alertName # "SLOMetricAbsent"
                             /\ rows[k].match = match
           done(k) == Numbered(rows[k], 9 + k) /\ ByInstance(rows[k], 9 + k, e)
           probe(query) == [query |-> query, namespace |-> At(upNS, e)]
<1>0. At(upNS, e) # ""
  BY TableValues
<1>1. done(1)
  <2>1. plain(1, Api(e, "receive"))
    BY DEF ObservatoriumLatencyRows, SLORow, RowFields, Names, Api
  <2> HIDE DEF rows
  <2>2. /\ Filled(Api(e, "receive")) /\ "job" \in DOMAIN Api(e, "receive")
        /\ Api(e, "receive")["job"] = At(apiJobSelector, e)
    BY ApiIsFilled
  <2> QED
    BY <2>1, <2>2, FilledIsSound DEF ByInstance, KeyOf, TableOf
<1>2. done(2)
  <2>1. plain(2, probe("rule-query-path-sli-1M-samples"))
    BY DEF ObservatoriumLatencyRows, SLORow, RowFields, Names
  <2> HIDE DEF rows
  <2>2. Filled(probe("rule-query-path-sli-1M-samples"))
    BY <1>0, PairsAreFilled
  <2> QED
    BY <2>1, <2>2, FilledIsSound DEF ByInstance, KeyOf, TableOf
<1>3. done(3)
  <2>1. plain(3, probe("rule-query-path-sli-10M-samples"))
    BY DEF ObservatoriumLatencyRows, SLORow, RowFields, Names
  <2> HIDE DEF rows
  <2>2. Filled(probe("rule-query-path-sli-10M-samples"))
    BY <1>0, PairsAreFilled
  <2> QED
    BY <2>1, <2>2, FilledIsSound DEF ByInstance, KeyOf, TableOf
<1>4. done(4)
  <2>1. plain(4, probe("rule-query-path-sli-1M-samples"))
    BY DEF ObservatoriumLatencyRows, SLORow, RowFields, Names
  <2> HIDE DEF rows
  <2>2. Filled(probe("rule-query-path-sli-1M-samples"))
    BY <1>0, PairsAreFilled
  <2> QED
    BY <2>1, <2>2, FilledIsSound DEF ByInstance, KeyOf, TableOf
<1>5. done(5)
  <2>1. plain(5, probe("query-path-sli-1M-samples"))
    BY DEF ObservatoriumLatencyRows, SLORow, RowFields, Names
  <2> HIDE DEF rows
  <2>2. Filled(probe("query-path-sli-1M-samples"))
    BY <1>0, PairsAreFilled
  <2> QED
    BY <2>1, <2>2, FilledIsSound DEF ByInstance, KeyOf, TableOf
<1>6. done(6)
  <2>1. plain(6, probe("query-path-sli-10M-samples"))
    BY DEF ObservatoriumLatencyRows, SLORow, RowFields, Names
  <2> HIDE DEF rows
  <2>2. Filled(probe("query-path-sli-10M-samples"))
    BY <1>0, PairsAreFilled
  <2> QED
    BY <2>1, <2>2, FilledIsSound DEF ByInstance, KeyOf, TableOf
<1>7. done(7)
  <2>1. plain(7, probe("query-path-sli-1M-samples"))
    BY DEF ObservatoriumLatencyRows, SLORow, RowFields, Names
  <2> HIDE DEF rows
  <2>2. Filled(probe("query-path-sli-1M-samples"))
    BY <1>0, PairsAreFilled
  <2> QED
    BY <2>1, <2>2, FilledIsSound DEF ByInstance, KeyOf, TableOf
<1> HIDE DEF done
<1>8. done(i)
  BY <1>1, <1>2, <1>3, <1>4, <1>5, <1>6, <1>7
<1> QED
  BY <1>8 DEF done

\* The rows of the remote write path.
LEMMA WriteRows ==
  ASSUME NEW i \in 1 .. 2
  PROVE  /\ Numbered(TelemeterUploadRows[i], 16 + i)
         /\ Numbered(TelemeterReceiveRows(Telemeter)[i], 18 + i)
         /\ Numbered(TelemeterReceiveRows(Rhelemeter)[i], 20 + i)
<1> DEFINE plain(row, n, match) ==
             /\ DOMAIN row = RowFields /\ row.name = Names[n]
             /\ row.propagated = propagatedService("telemeter")
             /\ row.alertName # "SLOMetricAbsent" /\ row.match = match
<1>1. Numbered(TelemeterUploadRows[1], 17)
  <2>1. plain(TelemeterUploadRows[1], 17,
              [route |-> "telemeter-server-upload"])
    BY DEF TelemeterUploadRows, TelemeterReceiveRows, Telemeter, Rhelemeter, SLORow, RowFields,
           Names
  <2>2. Filled([route |-> "telemeter-server-upload"])
    BY RouteIsFilled
  <2> QED
    BY <2>1, <2>2, FilledIsSound
<1>2. Numbered(TelemeterUploadRows[2], 18)
  <2>1. plain(TelemeterUploadRows[2], 18,
              [job |-> "telemeter-server", handler |-> "upload"])
    BY DEF TelemeterUploadRows, TelemeterReceiveRows, Telemeter, Rhelemeter, SLORow, RowFields,
           Names
  <2>2. Filled([job |-> "telemeter-server", handler |-> "upload"])
    BY PairsAreFilled
  <2> QED
    BY <2>1, <2>2, FilledIsSound
<1>3. Numbered(TelemeterReceiveRows(Telemeter)[1], 19)
  <2>1. plain(TelemeterReceiveRows(Telemeter)[1], 19,
              [route |-> "telemeter-server-metrics-v1-receive"])
    BY DEF TelemeterUploadRows, TelemeterReceiveRows, Telemeter, Rhelemeter, SLORow, RowFields,
           Names
  <2>2. Filled([route |-> "telemeter-server-metrics-v1-receive"])
    BY RouteIsFilled
  <2> QED
    BY <2>1, <2>2, FilledIsSound
<1>4. Numbered(TelemeterReceiveRows(Telemeter)[2], 20)
  <2>1. plain(TelemeterReceiveRows(Telemeter)[2], 20,
              [job |-> "telemeter-server", handler |-> "receive"])
    BY DEF TelemeterUploadRows, TelemeterReceiveRows, Telemeter, Rhelemeter, SLORow, RowFields,
           Names
  <2>2. Filled([job |-> "telemeter-server", handler |-> "receive"])
    BY PairsAreFilled
  <2> QED
    BY <2>1, <2>2, FilledIsSound
<1>5. Numbered(TelemeterReceiveRows(Rhelemeter)[1], 21)
  <2>1. plain(TelemeterReceiveRows(Rhelemeter)[1], 21,
              [route |-> "rhelemeter-server-metrics-v1-receive"])
    BY DEF TelemeterUploadRows, TelemeterReceiveRows, Telemeter, Rhelemeter, SLORow, RowFields,
           Names
  <2>2. Filled([route |-> "rhelemeter-server-metrics-v1-receive"])
    BY RouteIsFilled
  <2> QED
    BY <2>1, <2>2, FilledIsSound
<1>6. Numbered(TelemeterReceiveRows(Rhelemeter)[2], 22)
  <2>1. plain(TelemeterReceiveRows(Rhelemeter)[2], 22,
              [job |-> "rhelemeter-server", handler |-> "receive"])
    BY DEF TelemeterUploadRows, TelemeterReceiveRows, Telemeter, Rhelemeter, SLORow, RowFields,
           Names
  <2>2. Filled([job |-> "rhelemeter-server", handler |-> "receive"])
    BY PairsAreFilled
  <2> QED
    BY <2>1, <2>2, FilledIsSound
<1> QED
  BY <1>1, <1>2, <1>3, <1>4, <1>5, <1>6

-----------------------------------------------------------------------------
(* The calls.                                                               *)

(* Two lists one after the other.                                          *)
Joined(a, b) == a \o b

\* By position.
LEMMA ListsConcatenated ==
  ASSUME NEW m \in Nat, NEW l \in Nat, NEW a, NEW b, Listed(a, m), Listed(b, l)
  PROVE  /\ Listed(Joined(a, b), m + l)
         /\ \A k \in 1 .. m + l : Joined(a, b)[k] = IF k <= m THEN a[k] ELSE b[k - m]
<1> DEFINE S == {a[k] : k \in 1 .. m} \cup {b[k] : k \in 1 .. l}
<1>1. a \in [1 .. m -> S] /\ b \in [1 .. l -> S]
  BY DEF Listed
<1> HIDE DEF S
<1>2. a \in Seq(S) /\ Len(a) = m /\ b \in Seq(S) /\ Len(b) = l
  BY <1>1
<1>3. /\ a \o b \in Seq(S) /\ Len(a \o b) = m + l
      /\ \A k \in 1 .. m + l : (a \o b)[k] = IF k <= m THEN a[k] ELSE b[k - m]
  BY <1>2, ConcatProperties
<1>4. Listed(a \o b, m + l)
  BY <1>3 DEF Listed
<1> QED
  BY <1>3, <1>4 DEF Joined

\* The fields of a row stay those of its objective.
LEMMA ObjectiveKeepsRow ==
  ASSUME NEW env, NEW row, NEW n, Numbered(row, n)
  PROVE  LET o == Objective(env, row)
         IN  Sound(o) /\ o.name = Names[n] /\ o.match = row.match
<1> DEFINE more == [target    |-> IF row.sloType = "availability" THEN 99 ELSE 90,
                    dashboard |-> <<At(dashboardIDs, env), At(dashboardDataSource, env)>>,
                    runbook   |-> row.alertName]
           o == Objective(env, row)
<1>1. o = Merged(row, more)
  BY DEF Objective
<1> HIDE DEF more, o
<1>2. \A k \in RowFields : o[k] = row[k]
  BY <1>1 DEF Merged, Numbered
<1>3. /\ o.name = row.name /\ o.match = row.match /\ o.propagated = row.propagated
      /\ o.alertName = row.alertName
  BY <1>2 DEF RowFields
<1>4. Sound(o) /\ o.name = Names[n] /\ o.match = row.match
  BY <1>3 DEF Numbered, Sound
<1> QED
  BY <1>4 DEF o

(* A call with k rows.                                                      *)
Expanded(c, env, rows, k) ==
    /\ c.env = env /\ DOMAIN c.objs = 1 .. k /\ Len(c.objs) = k
    /\ \A i \in 1 .. k : c.objs[i] = Objective(env, rows[i])

\* A call asks for an objective for each of its rows.
LEMMA CallIs ==
  ASSUME NEW env, NEW rows, NEW file, NEW k \in Nat, Listed(rows, k)
  PROVE  Expanded(Call(env, rows, file), env, rows, k)
<1> DEFINE objs == [i \in DOMAIN rows |-> Objective(env, rows[i])]
<1>1. DOMAIN objs = 1 .. k /\ \A i \in 1 .. k : objs[i] = Objective(env, rows[i])
  BY DEF Listed
<1>2. Call(env, rows, file) = [env |-> env, objs |-> objs, file |-> file]
  BY DEF Call, GetObjectives
<1>3. objs = [i \in 1 .. k |-> objs[i]]
  BY DEF Listed
<1> HIDE DEF objs
<1>4. Len(objs) = k
  <2> DEFINE S == {objs[i] : i \in 1 .. k}
  <2>1. objs \in [1 .. k -> S]
    BY <1>3
  <2> QED
    BY <2>1
<1> QED
  BY <1>1, <1>2, <1>4 DEF Expanded

(* How many rows a call has, and their numbers.                             *)
Size(c) == IF c \in {1, 2} THEN 2 ELSE IF c \in {3, 4} THEN 20 ELSE 16
Number(c, i) == IF c \in {1, 2} THEN 20 + i
                ELSE IF c \in {3, 4} THEN IF i <= 4 THEN 16 + i ELSE i - 4 ELSE i

\* The rows of the API, in either call that has them.
LEMMA ApiRows ==
  ASSUME NEW e \in Served
  PROVE  /\ Listed(ObservatoriumSLOs(e), 16)
         /\ \A i \in 1 .. 16 : /\ Numbered(ObservatoriumSLOs(e)[i], i)
                               /\ ByInstance(ObservatoriumSLOs(e)[i], i, e)
<1> DEFINE a == ObservatoriumAvailabilityRows(e)
           b == ObservatoriumLatencyRows(e)
           all == ObservatoriumSLOs(e)
<1>1. Listed(a, 9)
  BY DEF Listed, ObservatoriumAvailabilityRows
<1>2. Listed(b, 7)
  BY DEF Listed, ObservatoriumLatencyRows
<1>3. all = Joined(a, b)
  BY DEF ObservatoriumSLOs, Joined
<1>4. \A i \in 1 .. 9 : Numbered(a[i], i) /\ ByInstance(a[i], i, e)
  BY AvailabilityRows
<1>5. \A i \in 1 .. 7 : Numbered(b[i], 9 + i) /\ ByInstance(b[i], 9 + i, e)
  BY LatencyRows
<1> HIDE DEF a, b, all
<1>6. /\ Listed(all, 16)
      /\ \A i \in 1 .. 16 : all[i] = IF i <= 9 THEN a[i] ELSE b[i - 9]
  BY <1>1, <1>2, <1>3, ListsConcatenated
<1>7. ASSUME NEW i \in 1 .. 16
      PROVE  Numbered(all[i], i) /\ ByInstance(all[i], i, e)
  <2>1. CASE i <= 9
    BY <2>1, <1>4, <1>6
  <2>2. CASE ~ (i <= 9)
    <3>1. i - 9 \in 1 .. 7 /\ 9 + (i - 9) = i
      BY <2>2
    <3>2. all[i] = b[i - 9]
      BY <2>2, <1>6
    <3>3. Numbered(b[i - 9], 9 + (i - 9)) /\ ByInstance(b[i - 9], 9 + (i - 9), e)
      BY <3>1, <1>5
    <3> QED
      BY <3>1, <3>2, <3>3
  <2> QED
    BY <2>1, <2>2
<1> QED
  BY <1>6, <1>7 DEF all

\* Those of a telemeter instance come after the four of the remote write path.
LEMMA TelemeterRows ==
  ASSUME NEW e \in Served
  PROVE  LET rows == TelemeterSLOs(e) \o ObservatoriumSLOs(e)
         IN  /\ Listed(rows, 20)
             /\ \A i \in 1 .. 20 :
                   IF i <= 4 THEN Numbered(rows[i], 16 + i)
                   ELSE Numbered(rows[i], i - 4) /\ ByInstance(rows[i], i - 4, e)
<1> DEFINE u == TelemeterUploadRows
           r == TelemeterReceiveRows(Telemeter)
           t == TelemeterSLOs(e)
           o == ObservatoriumSLOs(e)
<1>1. Listed(u, 2) /\ Listed(r, 2)
  BY DEF Listed, TelemeterUploadRows, TelemeterReceiveRows
<1>2. t = Joined(u, r)
  BY DEF TelemeterSLOs, Joined
<1>3. \A i \in 1 .. 2 : Numbered(u[i], 16 + i) /\ Numbered(r[i], 18 + i)
  BY WriteRows
<1>4. Listed(o, 16) /\ \A i \in 1 .. 16 : Numbered(o[i], i) /\ ByInstance(o[i], i, e)
  BY ApiRows
<1> HIDE DEF u, r, t, o
<1>5. Listed(t, 4) /\ \A i \in 1 .. 4 : t[i] = IF i <= 2 THEN u[i] ELSE r[i - 2]
  BY <1>1, <1>2, ListsConcatenated
<1>6. \A i \in 1 .. 4 : Numbered(t[i], 16 + i)
  <2>1. /\ Numbered(u[1], 17) /\ Numbered(u[2], 18) /\ Numbered(r[1], 19) /\ Numbered(r[2], 20)
    <3>1. /\ 16 + 1 = 17 /\ 16 + 2 = 18 /\ 18 + 1 = 19 /\ 18 + 2 = 20
          /\ 1 \in 1 .. 2 /\ 2 \in 1 .. 2
      OBVIOUS
    <3> QED
      BY <1>3, <3>1
  <2>2. t[1] = u[1] /\ t[2] = u[2] /\ t[3] = r[1] /\ t[4] = r[2]
    BY <1>5
  <2> QED
    BY <2>1, <2>2
<1> DEFINE c == Joined(t, o)
<1>7. Listed(c, 20) /\ \A i \in 1 .. 20 : c[i] = IF i <= 4 THEN t[i] ELSE o[i - 4]
  BY <1>4, <1>5, ListsConcatenated
<1> HIDE DEF c
<1>8. ASSUME NEW i \in 1 .. 20
      PROVE  IF i <= 4 THEN Numbered(c[i], 16 + i)
             ELSE Numbered(c[i], i - 4) /\ ByInstance(c[i], i - 4, e)
  <2>1. CASE i <= 4
    BY <2>1, <1>6, <1>7
  <2>2. CASE ~ (i <= 4)
    <3>1. i - 4 \in 1 .. 16 /\ c[i] = o[i - 4]
      BY <2>2, <1>7
    <3>2. Numbered(o[i - 4], i - 4) /\ ByInstance(o[i - 4], i - 4, e)
      BY <3>1, <1>4
    <3> QED
      BY <2>2, <3>1, <3>2
  <2> QED
    BY <2>1, <2>2
<1> QED
  BY <1>7, <1>8 DEF c, t, o, Joined

(* What the proofs use of a call.                                           *)
ApiRow(c, i) == EnvCalls[c].env \in Served
                /\ ByInstance(EnvCalls[c].objs[i], Number(c, i), EnvCalls[c].env)
Asked(c) ==
    /\ DOMAIN EnvCalls[c].objs = 1 .. Size(c) /\ Len(EnvCalls[c].objs) = Size(c)
    /\ \A i \in 1 .. Size(c) : LET o == EnvCalls[c].objs[i]
                               IN  /\ Sound(o) /\ o.name = Names[Number(c, i)]
                                   /\ Number(c, i) <= 16 => ApiRow(c, i)

\* The calls of the rhelemeter instances ask for the remote write path only.
LEMMA RhelemeterCall ==
  ASSUME NEW c \in {1, 2}, NEW e, NEW file, EnvCalls[c] = Call(e, RhelemeterSLOs(e), file)
  PROVE  Asked(c)
<1> DEFINE rows == TelemeterReceiveRows(Rhelemeter)
<1>1. Listed(rows, 2) /\ RhelemeterSLOs(e) = rows
  BY DEF Listed, TelemeterReceiveRows, RhelemeterSLOs
<1>2. \A i \in 1 .. 2 : Numbered(rows[i], 20 + i)
  BY WriteRows
<1> HIDE DEF rows
<1>3. Expanded(Call(e, rows, file), e, rows, 2)
  BY <1>1, CallIs
<1>4. Size(c) = 2 /\ \A i \in 1 .. 2 : Number(c, i) = 20 + i
  BY DEF Size, Number
<1>5. ASSUME NEW i \in 1 .. 2
      PROVE  LET o == Objective(e, rows[i])
             IN  Sound(o) /\ o.name = Names[20 + i] /\ ~ (20 + i <= 16)
  BY <1>2, ObjectiveKeepsRow
<1> QED
  BY <1>1, <1>3, <1>4, <1>5 DEF Asked, Expanded

\* Those of the telemeter ones have the rows of the API too.
LEMMA TelemeterCall ==
  ASSUME NEW c \in {3, 4}, NEW e \in Served, NEW file,
         EnvCalls[c] = Call(e, TelemeterSLOs(e) \o ObservatoriumSLOs(e), file)
  PROVE  Asked(c)
<1> DEFINE rows == TelemeterSLOs(e) \o ObservatoriumSLOs(e)
<1>1. /\ Listed(rows, 20)
      /\ \A i \in 1 .. 20 :
            IF i <= 4 THEN Numbered(rows[i], 16 + i)
            ELSE Numbered(rows[i], i - 4) /\ ByInstance(rows[i], i - 4, e)
  BY TelemeterRows
<1>0. EnvCalls[c] = Call(e, rows, file)
  OBVIOUS
<1> HIDE DEF rows
<1>3. Expanded(Call(e, rows, file), e, rows, 20)
  BY <1>1, CallIs
<1>4. Size(c) = 20 /\ \A i \in 1 .. 20 : Number(c, i) = IF i <= 4 THEN 16 + i ELSE i - 4
  BY DEF Size, Number
<1>5. ASSUME NEW i \in 1 .. 20
      PROVE  LET o == Objective(e, rows[i])
             IN  /\ Sound(o) /\ o.name = Names[Number(c, i)]
                 /\ Number(c, i) <= 16 => ByInstance(o, Number(c, i), e)
  <2>1. CASE i <= 4
    <3>1. Number(c, i) = 16 + i /\ ~ (16 + i <= 16) /\ Numbered(rows[i], 16 + i)
      BY <2>1, <1>1, <1>4
    <3> QED
      BY <3>1, ObjectiveKeepsRow
  <2>2. CASE ~ (i <= 4)
    <3>1. /\ Number(c, i) = i - 4 /\ Numbered(rows[i], i - 4)
          /\ ByInstance(rows[i], i - 4, e)
      BY <2>2, <1>1, <1>4
    <3> QED
      BY <3>1, ObjectiveKeepsRow DEF ByInstance
  <2> QED
    BY <2>1, <2>2
<1> QED
  BY <1>0, <1>3, <1>4, <1>5 DEF Asked, ApiRow, Expanded

\* The others have only these.
LEMMA ApiCall ==
  ASSUME NEW c \in {5, 6}, NEW e \in Served, NEW file,
         EnvCalls[c] = Call(e, ObservatoriumSLOs(e), file)
  PROVE  Asked(c)
<1> DEFINE rows == ObservatoriumSLOs(e)
<1>1. /\ Listed(rows, 16)
      /\ \A i \in 1 .. 16 : Numbered(rows[i], i) /\ ByInstance(rows[i], i, e)
  BY ApiRows
<1>0. EnvCalls[c] = Call(e, rows, file)
  OBVIOUS
<1> HIDE DEF rows
<1>3. Expanded(Call(e, rows, file), e, rows, 16)
  BY <1>1, CallIs
<1>4. Size(c) = 16 /\ \A i \in 1 .. 16 : Number(c, i) = i
  BY DEF Size, Number
<1>5. ASSUME NEW i \in 1 .. 16
      PROVE  LET o == Objective(e, rows[i])
             IN  Sound(o) /\ o.name = Names[i] /\ ByInstance(o, i, e)
  BY <1>1, ObjectiveKeepsRow DEF ByInstance
<1> QED
  BY <1>0, <1>3, <1>4, <1>5 DEF Asked, ApiRow, Expanded

\* Every call asks for sound objectives with the names of their rows.
LEMMA CallsAre ==
  ASSUME NEW c \in 1 .. 6
  PROVE  Asked(c)
<1>1. {telemeterProduction, telemeterStaging, mstProduction, mstStage} = Served
  BY DEF Served
<1>2. CASE c = 1
  BY <1>2, RhelemeterCall DEF EnvCalls
<1>3. CASE c = 2
  BY <1>3, RhelemeterCall DEF EnvCalls
<1>4. CASE c = 3
  BY <1>1, <1>4, TelemeterCall DEF EnvCalls
<1>5. CASE c = 4
  BY <1>1, <1>5, TelemeterCall DEF EnvCalls
<1>6. CASE c = 5
  BY <1>1, <1>6, ApiCall DEF EnvCalls
<1>7. CASE c = 6
  BY <1>1, <1>7, ApiCall DEF EnvCalls
<1> QED
  BY <1>2, <1>3, <1>4, <1>5, <1>6, <1>7

\* A name has one number.
LEMMA NamesDiffer ==
  ASSUME NEW n \in 1 .. 22, NEW m \in 1 .. 22, Names[n] = Names[m]
  PROVE  n = m
<1>1. NumberOf(Names[n]) = n /\ NumberOf(Names[m]) = m
  BY NamesNumbered
<1> QED
  BY <1>1

\* Within a call a number is that of one row.
LEMMA NumbersDiffer ==
  ASSUME NEW c \in 1 .. 6, NEW i \in 1 .. Size(c)
  PROVE  /\ Number(c, i) \in 1 .. 22
         /\ \A j \in 1 .. Size(c) : Number(c, i) = Number(c, j) => i = j
<1>1. CASE c \in {1, 2}
  BY <1>1 DEF Size, Number
<1>2. CASE c \in {3, 4}
  BY <1>2 DEF Size, Number
<1>3. CASE c \in {5, 6}
  BY <1>3 DEF Size, Number
<1> QED
  BY <1>1, <1>2, <1>3

\* The environments of the calls.
LEMMA EnvironmentsAre ==
  /\ Len(EnvCalls) = 6
  /\ EnvCalls[1].env = rhelemeterProduction /\ EnvCalls[2].env = rhelemeterStaging
  /\ EnvCalls[3].env = telemeterProduction /\ EnvCalls[4].env = telemeterStaging
  /\ EnvCalls[5].env = mstProduction /\ EnvCalls[6].env = mstStage
  BY DEF EnvCalls, Call

\* An environment has one call, by its two segments.
LEMMA EnvironmentsDiffer ==
  ASSUME NEW c \in 1 .. 6, NEW d \in 1 .. 6,
         EnvCalls[c].env[1] = EnvCalls[d].env[1], EnvCalls[c].env[2] = EnvCalls[d].env[2]
  PROVE  c = d
<1> DEFINE e(k) == EnvCalls[k].env
<1>1. /\ e(1)[1] = "rhelemeter" /\ e(1)[2] = "production"
      /\ e(2)[1] = "rhelemeter" /\ e(2)[2] = "stage"
      /\ e(3)[1] = "telemeter" /\ e(3)[2] = "production"
      /\ e(4)[1] = "telemeter" /\ e(4)[2] = "staging"
      /\ e(5)[1] = "mst" /\ e(5)[2] = "production"
      /\ e(6)[1] = "mst" /\ e(6)[2] = "stage"
  BY EnvironmentsAre DEF rhelemeterProduction, rhelemeterStaging, telemeterProduction,
     telemeterStaging, mstProduction, mstStage
<1>2. e(c)[1] = e(d)[1] /\ e(c)[2] = e(d)[2]
  OBVIOUS
<1> HIDE DEF e
<1> QED
  BY <1>1, <1>2

\* An environment has two segments.
LEMMA EnvironmentsListed ==
  ASSUME NEW c \in 1 .. 6
  PROVE  Listed(EnvCalls[c].env, 2)
<1>1. /\ Listed(rhelemeterProduction, 2) /\ Listed(rhelemeterStaging, 2)
      /\ Listed(telemeterProduction, 2) /\ Listed(telemeterStaging, 2)
      /\ Listed(mstProduction, 2) /\ Listed(mstStage, 2)
  BY DEF Listed, rhelemeterProduction, rhelemeterStaging, telemeterProduction,
         telemeterStaging, mstProduction, mstStage
<1> QED
  BY <1>1, EnvironmentsAre

\* No call has the rule file of another.
LEMMA RuleFilesDiffer ==
  ASSUME NEW c \in 1 .. 6, NEW d \in 1 .. 6,
         PrometheusRuleFile(EnvCalls[c]) = PrometheusRuleFile(EnvCalls[d])
  PROVE  c = d
<1> DEFINE f(k) == PrometheusRuleFile(EnvCalls[k])
<1>1. /\ f(1)[3] = "rhelemeter" /\ f(1)[4] = "production"
      /\ f(2)[3] = "rhelemeter" /\ f(2)[4] = "stage"
      /\ f(3)[3] = "telemeter" /\ f(3)[4] = "production"
      /\ f(4)[3] = "telemeter" /\ f(4)[4] = "stage"
      /\ f(5)[3] = "mst" /\ f(5)[4] = "production"
      /\ f(6)[3] = "mst" /\ f(6)[4] = "stage"
  BY DEF PrometheusRuleFile, EnvCalls, Call
<1>2. f(c) = f(d)
  OBVIOUS
<1> HIDE DEF f
<1> QED
  BY <1>1, <1>2

\* No objective has the file of another, of its own call or of another's.
LEMMA PyrraFilesDiffer ==
  ASSUME NEW c \in 1 .. 6, NEW i \in 1 .. Size(c), NEW d \in 1 .. 6, NEW j \in 1 .. Size(d),
         PyrraFile(EnvCalls[c], i) = PyrraFile(EnvCalls[d], j)
  PROVE  c = d /\ i = j
<1> DEFINE e == EnvCalls[c].env
           f == EnvCalls[d].env
           n == EnvCalls[c].objs[i].name
           m == EnvCalls[d].objs[j].name
<1>1. Joined(e, n) = Joined(f, m)
  BY DEF PyrraFile, Joined
<1>2. /\ n = Names[Number(c, i)] /\ Number(c, i) \in 1 .. 22
      /\ m = Names[Number(d, j)] /\ Number(d, j) \in 1 .. 22
  BY CallsAre, NumbersDiffer DEF Asked
<1>3. Listed(e, 2) /\ Listed(f, 2)
  BY EnvironmentsListed
<1>4. PICK k \in Nat : Listed(n, k)
  BY <1>2, NamesNumbered
<1>5. PICK l \in Nat : Listed(m, l)
  BY <1>2, NamesNumbered
<1> HIDE DEF e, f, n, m
<1>6. /\ Listed(Joined(e, n), 2 + k)
      /\ \A p \in 1 .. 2 + k : Joined(e, n)[p] = IF p <= 2 THEN e[p] ELSE n[p - 2]
  BY <1>3, <1>4, ListsConcatenated
<1>7. /\ Listed(Joined(f, m), 2 + l)
      /\ \A p \in 1 .. 2 + l : Joined(f, m)[p] = IF p <= 2 THEN f[p] ELSE m[p - 2]
  BY <1>3, <1>5, ListsConcatenated
<1>8. k = l
  <2>1. 1 .. 2 + k = 1 .. 2 + l
    BY <1>1, <1>6, <1>7 DEF Listed
  <2> QED
    BY <2>1
<1>9. e[1] = f[1] /\ e[2] = f[2]
  BY <1>1, <1>6, <1>7, <1>8
<1>10. n = m
  <2>1. ASSUME NEW p \in 1 .. k
        PROVE  n[p] = m[p]
    <3>1. p + 2 \in 1 .. 2 + k /\ ~ (p + 2 <= 2) /\ (p + 2) - 2 = p
      OBVIOUS
    <3> QED
      BY <3>1, <1>1, <1>6, <1>7, <1>8
  <2> QED
    BY <2>1, <1>4, <1>5, <1>8 DEF Listed
<1>11. c = d
  BY <1>9, EnvironmentsDiffer DEF e, f
<1>12. Number(c, i) = Number(d, j)
  BY <1>2, <1>10, NamesDiffer
<1> QED
  BY <1>11, <1>12, NumbersDiffer

-----------------------------------------------------------------------------
(* The generator.                                                           *)

SLOSpec == SLOInit /\ [][SLONext]_sloVars

(* The objectives added so far, and the calls that have returned.           *)
AddedSoFar(c, i) == c < call \/ (c = call /\ i <= added)
ReturnedCalls == {c \in 1 .. 6 : c < call \/ sloStatus = "done"}

RulesOf(c) == [env |-> EnvCalls[c].env, alerts |-> MakePrometheusRule(EnvCalls[c])]

SLOProgress ==
    /\ call \in 1 .. 6 /\ added \in 0 .. Size(call)
    /\ sloStatus \in {"generating", "done"}
    /\ sloStatus = "done" => call = 6 /\ added = Size(6)

(* The files are those of the objectives added so far, and each holds its   *)
(* own: none has yet the name of the next.                                  *)
PyrraFilesInv ==
    \A c \in 1 .. 6 : \A i \in 1 .. Size(c) :
        LET file == PyrraFile(EnvCalls[c], i)
        IN  /\ file \in DOMAIN pyrraFiles <=> AddedSoFar(c, i)
            /\ AddedSoFar(c, i) =>
                  pyrraFiles[file] = <<EnvCalls[c].env, EnvCalls[c].objs[i].name>>

RuleFilesInv ==
    /\ DOMAIN ruleFiles = {PrometheusRuleFile(EnvCalls[c]) : c \in ReturnedCalls}
    /\ \A c \in ReturnedCalls : ruleFiles[PrometheusRuleFile(EnvCalls[c])] = RulesOf(c)

SLOInv == SLOProgress /\ PyrraFilesInv /\ RuleFilesInv

\* What is asked for next.
LEMMA CallingIs ==
  ASSUME SLOProgress
  PROVE  /\ Calling = EnvCalls[call] /\ Len(Calling.objs) = Size(call)
         /\ DOMAIN Calling.objs = 1 .. Size(call) /\ Size(call) \in Nat
         /\ call \in Nat /\ added \in Nat /\ Len(EnvCalls) = 6
<1>1. call \in 1 .. 6
  BY DEF SLOProgress
<1>2. Asked(call) /\ Size(call) \in Nat
  BY <1>1, CallsAre DEF Size
<1> QED
  BY <1>1, <1>2, EnvironmentsAre DEF Asked, Calling, SLOProgress

\* Adding an objective never meets its file, and keeps the others.
LEMMA AddObjectiveKeeps ==
  ASSUME SLOInv, AddObjective
  PROVE  SLOInv'
<1>1. /\ Calling = EnvCalls[call] /\ Len(Calling.objs) = Size(call) /\ Size(call) \in Nat
      /\ call \in 1 .. 6 /\ added \in Nat
  BY CallingIs DEF SLOInv, SLOProgress
<1>2. sloStatus = "generating" /\ added + 1 \in 1 .. Size(call)
  BY <1>1 DEF AddObjective
<1> DEFINE file == PyrraFile(EnvCalls[call], added + 1)
           held == <<EnvCalls[call].env, EnvCalls[call].objs[added + 1].name>>
           one == [f \in {file} |-> held]
<1>3. file \notin DOMAIN pyrraFiles
  <2>1. ~ AddedSoFar(call, added + 1)
    BY <1>1 DEF AddedSoFar
  <2> QED
    BY <2>1, <1>1, <1>2 DEF SLOInv, PyrraFilesInv
<1>4. /\ pyrraFiles' = Merged(pyrraFiles, one) /\ added' = added + 1
      /\ UNCHANGED <<call, sloStatus, ruleFiles>>
  BY <1>1, <1>3 DEF AddObjective
<1>5. DOMAIN one = {file} /\ one[file] = held
  OBVIOUS
<1> HIDE DEF one
<1>6. /\ DOMAIN pyrraFiles' = DOMAIN pyrraFiles \cup {file}
      /\ pyrraFiles'[file] = held
      /\ \A f \in DOMAIN pyrraFiles : pyrraFiles'[f] = pyrraFiles[f]
  BY <1>3, <1>4, <1>5 DEF Merged
<1>7. SLOProgress'
  BY <1>1, <1>2, <1>4 DEF SLOInv, SLOProgress
<1>8. PyrraFilesInv'
  <2> SUFFICES ASSUME NEW c \in 1 .. 6, NEW i \in 1 .. Size(c)
               PROVE  LET f == PyrraFile(EnvCalls[c], i)
                      IN  /\ f \in DOMAIN pyrraFiles' <=> AddedSoFar(c, i)'
                          /\ AddedSoFar(c, i)' =>
                                pyrraFiles'[f] = <<EnvCalls[c].env, EnvCalls[c].objs[i].name>>
    BY DEF PyrraFilesInv
  <2>1. Size(c) \in Nat
    BY DEF Size
  <2>2. CASE c = call /\ i = added + 1
    <3>1. AddedSoFar(c, i)'
      BY <1>1, <1>4, <2>2 DEF AddedSoFar
    <3> QED
      BY <1>6, <2>2, <3>1
  <2>3. CASE ~ (c = call /\ i = added + 1)
    <3> DEFINE f == PyrraFile(EnvCalls[c], i)
    <3>1. f # file
      BY <1>1, <1>2, <2>3, PyrraFilesDiffer
    <3>2. AddedSoFar(c, i)' <=> AddedSoFar(c, i)
      <4>1. i \in Nat /\ c \in Nat /\ call \in Nat
        BY <1>1, <2>1
      <4>2. CASE c = call
        BY <1>1, <1>4, <2>3, <4>1, <4>2 DEF AddedSoFar
      <4>3. CASE c # call
        BY <1>4, <4>3 DEF AddedSoFar
      <4> QED
        BY <4>2, <4>3
    <3>3. /\ f \in DOMAIN pyrraFiles <=> AddedSoFar(c, i)
          /\ AddedSoFar(c, i) =>
                pyrraFiles[f] = <<EnvCalls[c].env, EnvCalls[c].objs[i].name>>
      BY DEF SLOInv, PyrraFilesInv
    <3> HIDE DEF f, file
    <3>4. /\ f \in DOMAIN pyrraFiles' <=> AddedSoFar(c, i)'
          /\ AddedSoFar(c, i)' =>
                pyrraFiles'[f] = <<EnvCalls[c].env, EnvCalls[c].objs[i].name>>
      BY <1>6, <3>1, <3>2, <3>3
    <3> QED
      BY <3>4 DEF f
  <2> QED
    BY <2>2, <2>3
<1>9. RuleFilesInv'
  BY <1>4 DEF SLOInv, RuleFilesInv, ReturnedCalls
<1> QED
  BY <1>7, <1>8, <1>9 DEF SLOInv

\* Nor does adding the rule file of a call, and the next call has added none.
LEMMA AddRulesKeeps ==
  ASSUME SLOInv, AddRules
  PROVE  SLOInv'
<1>1. /\ Calling = EnvCalls[call] /\ Len(Calling.objs) = Size(call) /\ Size(call) \in Nat
      /\ call \in 1 .. 6 /\ added \in Nat /\ Len(EnvCalls) = 6
  BY CallingIs DEF SLOInv, SLOProgress
<1>2. sloStatus = "generating" /\ added = Size(call)
  BY <1>1 DEF AddRules
<1> DEFINE file == PrometheusRuleFile(EnvCalls[call])
           one == [f \in {file} |-> RulesOf(call)]
<1>3. call \notin ReturnedCalls /\ ReturnedCalls \subseteq 1 .. 6
  BY <1>1, <1>2 DEF ReturnedCalls
<1>4. file \notin DOMAIN ruleFiles
  BY <1>1, <1>3, RuleFilesDiffer DEF SLOInv, RuleFilesInv
<1>5. /\ ruleFiles' = Merged(ruleFiles, one) /\ pyrraFiles' = pyrraFiles
      /\ IF call = 6 THEN sloStatus' = "done" /\ UNCHANGED <<call, added>>
         ELSE call' = call + 1 /\ added' = 0 /\ UNCHANGED sloStatus
  BY <1>1, <1>4 DEF AddRules, RulesOf
<1>6. DOMAIN one = {file} /\ one[file] = RulesOf(call)
  OBVIOUS
<1> HIDE DEF one
<1>7. /\ DOMAIN ruleFiles' = DOMAIN ruleFiles \cup {file}
      /\ ruleFiles'[file] = RulesOf(call)
      /\ \A f \in DOMAIN ruleFiles : ruleFiles'[f] = ruleFiles[f]
  BY <1>4, <1>5, <1>6 DEF Merged
<1>8. SLOProgress'
  BY <1>1, <1>2, <1>5 DEF SLOProgress, Size
<1>9. ReturnedCalls' = ReturnedCalls \cup {call}
  BY <1>1, <1>2, <1>5 DEF ReturnedCalls
<1>10. RuleFilesInv'
  <2>1. /\ DOMAIN ruleFiles = {PrometheusRuleFile(EnvCalls[c]) : c \in ReturnedCalls}
        /\ \A c \in ReturnedCalls : ruleFiles[PrometheusRuleFile(EnvCalls[c])] = RulesOf(c)
    BY DEF SLOInv, RuleFilesInv
  <2>2. DOMAIN ruleFiles' = {PrometheusRuleFile(EnvCalls[c]) : c \in ReturnedCalls'}
    BY <1>7, <1>9, <2>1
  <2>3. \A c \in ReturnedCalls : ruleFiles'[PrometheusRuleFile(EnvCalls[c])] = RulesOf(c)
    BY <1>7, <2>1
  <2> QED
    BY <1>7, <1>9, <2>2, <2>3 DEF RuleFilesInv, RulesOf
<1>11. PyrraFilesInv'
  <2>1. ASSUME NEW c \in 1 .. 6, NEW i \in 1 .. Size(c)
        PROVE  AddedSoFar(c, i)' <=> AddedSoFar(c, i)
    <3>1. Size(c) \in Nat
      BY DEF Size
    <3>2. i \in Nat /\ i >= 1 /\ c \in Nat /\ call \in Nat /\ (c = call => i <= added)
      BY <1>1, <1>2, <3>1
    <3>3. CASE call = 6
      BY <1>5, <3>3 DEF AddedSoFar
    <3>4. CASE call # 6
      <4>1. call' = call + 1 /\ added' = 0 /\ ~ (i <= 0)
        BY <1>5, <3>2, <3>4
      <4>2. c < call + 1 <=> c < call \/ c = call
        BY <3>2
      <4> QED
        BY <3>2, <4>1, <4>2 DEF AddedSoFar
    <3> QED
      BY <3>3, <3>4
  <2> QED
    BY <1>5, <2>1 DEF SLOInv, PyrraFilesInv
<1> QED
  BY <1>8, <1>10, <1>11 DEF SLOInv

\* The files are always those of what was asked for so far, whatever the state of the
\* generator (slo.go:560-592).
THEOREM SLOInvariant == SLOSpec => []SLOInv
<1>1. SLOInit => SLOInv
  <2> SUFFICES ASSUME SLOInit
               PROVE  SLOInv
    OBVIOUS
  <2>1. /\ call = 1 /\ added = 0 /\ sloStatus = "generating"
        /\ DOMAIN pyrraFiles = {} /\ DOMAIN ruleFiles = {}
    BY DEF SLOInit
  <2>2. SLOProgress /\ ReturnedCalls = {}
    BY <2>1 DEF SLOProgress, ReturnedCalls, Size
  <2>3. \A c \in 1 .. 6 : \A i \in 1 .. Size(c) : ~ AddedSoFar(c, i)
    BY <2>1 DEF AddedSoFar, Size
  <2> QED
    BY <2>1, <2>2, <2>3 DEF SLOInv, PyrraFilesInv, RuleFilesInv
<1>2. SLOInv /\ [SLONext]_sloVars => SLOInv'
  <2>1. SLOInv /\ UNCHANGED sloVars => SLOInv'
    BY DEF SLOInv, SLOProgress, PyrraFilesInv, RuleFilesInv, AddedSoFar, ReturnedCalls, sloVars
  <2> QED
    BY <2>1, AddObjectiveKeeps, AddRulesKeeps DEF SLONext
<1> QED
  BY <1>1, <1>2, PTL DEF SLOSpec

\* The generator never panics at a file it has: each objective asked for so far is in the
\* file of its name and environment (slo.go:582, 588).
THEOREM ObjectivesHaveFiles == SLOSpec => []EveryObjectiveHasItsFile
<1>1. SLOInv => EveryObjectiveHasItsFile
  <2> SUFFICES ASSUME SLOInv
               PROVE  EveryObjectiveHasItsFile
    OBVIOUS
  <2>1. sloStatus # "panicked" /\ call \in 1 .. 6
    BY DEF SLOInv, SLOProgress
  <2>2. ASSUME NEW c \in 1 .. call, NEW i \in DOMAIN EnvCalls[c].objs, c < call \/ i <= added
        PROVE  /\ PyrraFile(EnvCalls[c], i) \in DOMAIN pyrraFiles
               /\ pyrraFiles[PyrraFile(EnvCalls[c], i)] =
                      <<EnvCalls[c].env, EnvCalls[c].objs[i].name>>
    <3>3. c \in 1 .. 6 /\ c <= call
      BY <2>1
    <3>2. i \in 1 .. Size(c)
      BY <3>3, CallsAre DEF Asked
    <3>1. AddedSoFar(c, i)
      <4>1. c < call \/ c = call
        BY <2>1, <3>3
      <4> QED
        BY <2>2, <4>1 DEF AddedSoFar
    <3> QED
      BY <3>1, <3>2, <3>3 DEF SLOInv, PyrraFilesInv
  <2> QED
    BY <2>1, <2>2 DEF EveryObjectiveHasItsFile
<1> QED
  BY <1>1, SLOInvariant, PTL

\* The alerts of a call are those of its objectives.
LEMMA RulesAre ==
  ASSUME NEW c \in 1 .. 6
  PROVE  /\ RulesOf(c).env = EnvCalls[c].env
         /\ \A a : a \in RulesOf(c).alerts
                     <=> \E i \in 1 .. Size(c) : a \in AlertsOf(EnvCalls[c].objs[i])
<1>1. DOMAIN EnvCalls[c].objs = 1 .. Size(c)
  BY CallsAre DEF Asked
<1>2. MakePrometheusRule(EnvCalls[c])
        = UNION {AlertsOf(EnvCalls[c].objs[i]) : i \in 1 .. Size(c)}
  BY <1>1 DEF MakePrometheusRule, AlertsOf
<1> QED
  BY <1>2 DEF RulesOf

\* Every alert of every rule file can be routed, and says so in labels that all have a
\* value: its row's service or the one it was given, and a severity (slo.go:625-675).
THEOREM AlertsAreRouted == SLOSpec => []EveryAlertIsRouted
<1>1. SLOInv => EveryAlertIsRouted
  <2> SUFFICES ASSUME SLOInv, NEW f \in DOMAIN ruleFiles, NEW a \in ruleFiles[f].alerts
               PROVE  Routed(a)
    BY DEF EveryAlertIsRouted, Routed
  <2>1. PICK c \in 1 .. 6 : ruleFiles[f] = RulesOf(c)
    BY DEF SLOInv, RuleFilesInv, ReturnedCalls
  <2>2. PICK i \in 1 .. Size(c) : a \in AlertsOf(EnvCalls[c].objs[i])
    BY <2>1, RulesAre
  <2>3. Sound(EnvCalls[c].objs[i])
    BY CallsAre DEF Asked
  <2> QED
    BY <2>2, <2>3, SoundAlertsAreRouted
<1> QED
  BY <1>1, SLOInvariant, PTL

-----------------------------------------------------------------------------
(* What tells alerts apart.                                                 *)

\* The tables tell the two instances of a cluster apart.
LEMMA TablesTellApart ==
  ASSUME NEW t \in {apiJobSelector, metricsNS, upNS}
  PROVE  /\ At(t, telemeterProduction) # At(t, mstProduction)
         /\ At(t, telemeterStaging) # At(t, mstStage)
  BY DEF At, Tabled, apiJobSelector, metricsNS, upNS, telemeterProduction, telemeterStaging,
         mstProduction, mstStage, rhobsp02ue1Production

\* The two calls of one cluster are of different instances.
LEMMA ClustersAre ==
  ASSUME NEW c \in 1 .. 6, NEW d \in 1 .. 6,
         ClusterOf(EnvCalls[c].env) = ClusterOf(EnvCalls[d].env)
  PROVE  c \in {1, 3, 5} <=> d \in {1, 3, 5}
<1>1. /\ ClusterOf(EnvCalls[1].env) = "telemeter-prod-01"
      /\ ClusterOf(EnvCalls[3].env) = "telemeter-prod-01"
      /\ ClusterOf(EnvCalls[5].env) = "telemeter-prod-01"
  BY EnvironmentsAre DEF ClusterOf
<1>2. /\ ClusterOf(EnvCalls[2].env) # "telemeter-prod-01"
      /\ ClusterOf(EnvCalls[4].env) # "telemeter-prod-01"
      /\ ClusterOf(EnvCalls[6].env) # "telemeter-prod-01"
  BY EnvironmentsAre DEF ClusterOf, telemeterProduction, rhelemeterProduction, mstProduction,
     rhelemeterStaging, telemeterStaging, mstStage
<1> QED
  BY <1>1, <1>2

\* Relabelling keeps the matchers that are neither pruned nor replaced.
LEMMA KeptLabels ==
  ASSUME NEW obj, Sound(obj), NEW a \in AlertsOf(obj),
         NEW k \in Kept(obj) \ {"service", "slo", "severity"}
  PROVE  a.labels[k] = obj.match[k]
<1>1. CASE a = AbsentOf(obj)
  BY <1>1, AbsentIs
<1>2. ASSUME NEW w \in Windows, a = BurnOf(obj, w)
      PROVE  a.labels[k] = obj.match[k]
  BY <1>2, BurnIs
<1> QED
  BY <1>1, <1>2, AlertsAre

\* Where two instances raise the same alert for a row of the API, it is the one row that
\* matches no instance.
LEMMA SharedAlertIsRuleQuery ==
  ASSUME NEW c \in {3, 4}, NEW d \in {5, 6}, c = 3 <=> d = 5,
         NEW i \in 1 .. Size(c), NEW j \in 1 .. Size(d),
         NEW a, a \in AlertsOf(EnvCalls[c].objs[i]), a \in AlertsOf(EnvCalls[d].objs[j])
  PROVE  a.labels["slo"] = <<"api", "metrics", "rule", "query", "availability", "slo">>
<1> DEFINE o == EnvCalls[c].objs[i]
           p == EnvCalls[d].objs[j]
           n == Number(c, i)
<1>1. Asked(c) /\ Asked(d)
  BY CallsAre
<1>2. /\ Sound(o) /\ o.name = Names[n] /\ n \in 1 .. 22 /\ Sound(p)
      /\ p.name = Names[Number(d, j)] /\ Number(d, j) \in 1 .. 22
  BY <1>1, NumbersDiffer DEF Asked
<1>3. a.labels["slo"] = o.name /\ a.labels["slo"] = p.name
  BY <1>2, SoundAlertsAreRouted
<1>4. Number(d, j) = n
  BY <1>2, <1>3, NamesDiffer
<1>5. n <= 16
  BY <1>4 DEF Number, Size
<1>6. ApiRow(c, i) /\ ApiRow(d, j)
  BY <1>1, <1>4, <1>5 DEF Asked
<1>7. n = 2
  <2> SUFFICES ASSUME n # 2
               PROVE  FALSE
    OBVIOUS
  <2> DEFINE k == KeyOf(n)
             t == TableOf(n)
  <2>1. /\ k \in DOMAIN o.match \ {"client", "container"} /\ o.match[k] = At(t, EnvCalls[c].env)
        /\ k \in DOMAIN p.match \ {"client", "container"} /\ p.match[k] = At(t, EnvCalls[d].env)
    BY <1>4, <1>6 DEF ApiRow, ByInstance
  <2>2. k \notin {"service", "slo", "severity"}
    BY DEF KeyOf
  <2>3. t \in {apiJobSelector, metricsNS, upNS}
    BY DEF TableOf
  <2>4. /\ k \in Kept(o) \ {"service", "slo", "severity"}
        /\ k \in Kept(p) \ {"service", "slo", "severity"}
    BY <2>1, <2>2 DEF Kept
  <2> HIDE DEF o, p, n, k, t
  <2>5. a.labels[k] = o.match[k]
    BY <1>2, <2>4, KeptLabels DEF o
  <2>6. a.labels[k] = p.match[k]
    BY <1>2, <2>4, KeptLabels DEF p
  <2>7. At(t, EnvCalls[c].env) = At(t, EnvCalls[d].env)
    BY <2>1, <2>5, <2>6
  <2>8. CASE c = 3 /\ d = 5
    BY <2>3, <2>7, <2>8, EnvironmentsAre, TablesTellApart
  <2>9. CASE c = 4 /\ d = 6
    BY <2>3, <2>7, <2>9, EnvironmentsAre, TablesTellApart
  <2> QED
    BY <2>8, <2>9
<1>8. Names[2] = <<"api", "metrics", "rule", "query", "availability", "slo">>
  BY DEF Names
<1> QED
  BY <1>2, <1>3, <1>7, <1>8

\* The alerts of a sound objective: one for each window and one for absent metrics.
LEMMA FiveAlerts ==
  ASSUME NEW obj, Sound(obj)
  PROVE  /\ Cardinality(AlertsOf(obj)) = 5
         /\ Cardinality({a \in AlertsOf(obj) : a.alert = "SLOMetricAbsent"}) = 1
<1> DEFINE w1 == [short |-> "5m",  long |-> "1h", exhaustion |-> "2d", severity |-> "critical"]
           w2 == [short |-> "30m", long |-> "6h", exhaustion |-> "4d", severity |-> "critical"]
           w3 == [short |-> "2h",  long |-> "1d", exhaustion |-> "2w", severity |-> "warning"]
           w4 == [short |-> "6h",  long |-> "4d", exhaustion |-> "4w", severity |-> "warning"]
           window(a) == a.labels["short_burnrate_window"]
           x == AbsentOf(obj)
           b1 == BurnOf(obj, w1)
           b2 == BurnOf(obj, w2)
           b3 == BurnOf(obj, w3)
           b4 == BurnOf(obj, w4)
<1>1. /\ Windows = {w1, w2, w3, w4}
      /\ w1["short"] = "5m" /\ w2["short"] = "30m" /\ w3["short"] = "2h" /\ w4["short"] = "6h"
  BY DEF Windows
<1> HIDE DEF w1, w2, w3, w4
<1>2. \A w \in Windows : /\ BurnOf(obj, w).alert = obj.alertName
                         /\ BurnOf(obj, w).labels["short_burnrate_window"] = w["short"]
  BY BurnIs
<1>3. /\ window(b1) = "5m" /\ window(b2) = "30m" /\ window(b3) = "2h" /\ window(b4) = "6h"
      /\ b1.alert = obj.alertName /\ b2.alert = obj.alertName
      /\ b3.alert = obj.alertName /\ b4.alert = obj.alertName
  BY <1>1, <1>2
<1>4. x.alert = "SLOMetricAbsent" /\ obj.alertName # "SLOMetricAbsent"
  BY AbsentIs DEF Sound
<1>5. AlertsOf(obj) = {x, b1, b2, b3, b4}
  BY <1>1, AlertsAre
<1> HIDE DEF x, b1, b2, b3, b4
<1>6. /\ b1 # b2 /\ b1 # b3 /\ b1 # b4 /\ b2 # b3 /\ b2 # b4 /\ b3 # b4
      /\ x # b1 /\ x # b2 /\ x # b3 /\ x # b4
  BY <1>3, <1>4
<1>7. IsFiniteSet({x}) /\ Cardinality({x}) = 1
  BY FS_Singleton
<1>8. IsFiniteSet({x, b1}) /\ Cardinality({x, b1}) = 2
  <2>1. {x, b1} = {x} \cup {b1} /\ b1 \notin {x}
    BY <1>6
  <2> QED
    BY <2>1, <1>7, FS_AddElement
<1>9. IsFiniteSet({x, b1, b2}) /\ Cardinality({x, b1, b2}) = 3
  <2>1. {x, b1, b2} = {x, b1} \cup {b2} /\ b2 \notin {x, b1}
    BY <1>6
  <2> QED
    BY <2>1, <1>8, FS_AddElement
<1>10. IsFiniteSet({x, b1, b2, b3}) /\ Cardinality({x, b1, b2, b3}) = 4
  <2>1. {x, b1, b2, b3} = {x, b1, b2} \cup {b3} /\ b3 \notin {x, b1, b2}
    BY <1>6
  <2> QED
    BY <2>1, <1>9, FS_AddElement
<1>11. Cardinality({x, b1, b2, b3, b4}) = 5
  <2>1. {x, b1, b2, b3, b4} = {x, b1, b2, b3} \cup {b4} /\ b4 \notin {x, b1, b2, b3}
    BY <1>6
  <2> QED
    BY <2>1, <1>10, FS_AddElement
<1>12. {a \in AlertsOf(obj) : a.alert = "SLOMetricAbsent"} = {x}
  BY <1>3, <1>4, <1>5
<1> QED
  BY <1>5, <1>7, <1>11, <1>12

\* Within the rule file of a call, the alerts with an objective's name are its own.
LEMMA NamedAlerts ==
  ASSUME NEW c \in 1 .. 6, NEW i \in 1 .. Size(c)
  PROVE  {a \in RulesOf(c).alerts : a.labels["slo"] = EnvCalls[c].objs[i].name}
           = AlertsOf(EnvCalls[c].objs[i])
<1>1. Asked(c)
  BY CallsAre
<1>2. ASSUME NEW j \in 1 .. Size(c), NEW a \in AlertsOf(EnvCalls[c].objs[j])
      PROVE  a.labels["slo"] = EnvCalls[c].objs[j].name
  BY <1>1, SoundAlertsAreRouted DEF Asked
<1>3. ASSUME NEW j \in 1 .. Size(c), EnvCalls[c].objs[j].name = EnvCalls[c].objs[i].name
      PROVE  j = i
  <2>1. Names[Number(c, j)] = Names[Number(c, i)]
    BY <1>1, <1>3 DEF Asked
  <2> QED
    BY <2>1, NumbersDiffer, NamesDiffer
<1>4. \A a : a \in RulesOf(c).alerts
               <=> \E j \in 1 .. Size(c) : a \in AlertsOf(EnvCalls[c].objs[j])
  BY RulesAre
<1> QED
  BY <1>2, <1>3, <1>4

\* Two instances of a cluster raise the same alert for one objective only, and within a
\* file pruning and renaming leave an objective's alerts apart (slo.go:326-327, 625-675).
THEOREM AlertsAreToldApart == SLOSpec => []AlertsTellInstancesApart
<1>1. SLOInv => AlertsTellInstancesApart
  <2> SUFFICES ASSUME SLOInv
               PROVE  AlertsTellInstancesApart
    OBVIOUS
  <2>1. /\ DOMAIN ruleFiles = {PrometheusRuleFile(EnvCalls[c]) : c \in ReturnedCalls}
        /\ \A c \in ReturnedCalls : ruleFiles[PrometheusRuleFile(EnvCalls[c])] = RulesOf(c)
        /\ ReturnedCalls \subseteq 1 .. 6
    BY DEF SLOInv, RuleFilesInv, ReturnedCalls
  <2>2. ASSUME NEW f \in DOMAIN ruleFiles, NEW g \in DOMAIN ruleFiles, f # g,
               ClusterOf(ruleFiles[f].env) = ClusterOf(ruleFiles[g].env),
               NEW a \in ruleFiles[f].alerts \cap ruleFiles[g].alerts
        PROVE  a.labels["slo"] = <<"api", "metrics", "rule", "query", "availability", "slo">>
    <3>1. PICK c \in 1 .. 6 : f = PrometheusRuleFile(EnvCalls[c]) /\ ruleFiles[f] = RulesOf(c)
      BY <2>1
    <3>2. PICK d \in 1 .. 6 : g = PrometheusRuleFile(EnvCalls[d]) /\ ruleFiles[g] = RulesOf(d)
      BY <2>1
    <3>3. c # d /\ (c \in {1, 3, 5} <=> d \in {1, 3, 5})
      BY <2>2, <3>1, <3>2, RulesAre, ClustersAre
    <3>4. PICK i \in 1 .. Size(c) : a \in AlertsOf(EnvCalls[c].objs[i])
      BY <2>2, <3>1, RulesAre
    <3>5. PICK j \in 1 .. Size(d) : a \in AlertsOf(EnvCalls[d].objs[j])
      BY <2>2, <3>2, RulesAre
    <3>6. Number(c, i) = Number(d, j)
      <4>1. /\ Sound(EnvCalls[c].objs[i]) /\ EnvCalls[c].objs[i].name = Names[Number(c, i)]
            /\ Sound(EnvCalls[d].objs[j]) /\ EnvCalls[d].objs[j].name = Names[Number(d, j)]
        BY CallsAre DEF Asked
      <4>2. Names[Number(c, i)] = Names[Number(d, j)]
        BY <3>4, <3>5, <4>1, SoundAlertsAreRouted
      <4> QED
        BY <4>2, NumbersDiffer, NamesDiffer
    <3>7. c \notin {1, 2} /\ d \notin {1, 2}
      <4>1. \A k \in {1, 2}, p \in {3, 4, 5, 6} : \A l \in 1 .. Size(k), m \in 1 .. Size(p) :
               Number(k, l) # Number(p, m)
        BY DEF Size, Number
      <4> QED
        BY <3>3, <3>6, <4>1
    <3>8. CASE c \in {3, 4}
      BY <3>3, <3>4, <3>5, <3>7, <3>8, SharedAlertIsRuleQuery
    <3>9. CASE c \in {5, 6}
      BY <3>3, <3>4, <3>5, <3>7, <3>9, SharedAlertIsRuleQuery
    <3> QED
      BY <3>7, <3>8, <3>9
  <2>3. ASSUME NEW c \in 1 .. call, PrometheusRuleFile(EnvCalls[c]) \in DOMAIN ruleFiles,
               NEW i \in DOMAIN EnvCalls[c].objs
        PROVE  LET alerts == {a \in ruleFiles[PrometheusRuleFile(EnvCalls[c])].alerts :
                                 a.labels["slo"] = EnvCalls[c].objs[i].name}
               IN  /\ Cardinality(alerts) = 5
                   /\ Cardinality({a \in alerts : a.alert = "SLOMetricAbsent"}) = 1
    <3>1. c \in 1 .. 6
      BY DEF SLOInv, SLOProgress
    <3>2. i \in 1 .. Size(c) /\ Sound(EnvCalls[c].objs[i])
      BY <3>1, CallsAre DEF Asked
    <3>3. ruleFiles[PrometheusRuleFile(EnvCalls[c])] = RulesOf(c)
      <4>1. PICK d \in ReturnedCalls : PrometheusRuleFile(EnvCalls[c]) = PrometheusRuleFile(EnvCalls[d])
        BY <2>1, <2>3
      <4>2. c = d
        BY <2>1, <3>1, <4>1, RuleFilesDiffer
      <4> QED
        BY <2>1, <4>1, <4>2
    <3> DEFINE own == AlertsOf(EnvCalls[c].objs[i])
    <3>4. {a \in ruleFiles[PrometheusRuleFile(EnvCalls[c])].alerts :
              a.labels["slo"] = EnvCalls[c].objs[i].name} = own
      BY <3>1, <3>2, <3>3, NamedAlerts
    <3>5. Cardinality(own) = 5 /\ Cardinality({a \in own : a.alert = "SLOMetricAbsent"}) = 1
      BY <3>2, FiveAlerts
    <3> HIDE DEF own
    <3> QED
      BY <3>4, <3>5
  <2> QED
    BY <2>2, <2>3 DEF AlertsTellInstancesApart
<1> QED
  BY <1>1, SLOInvariant, PTL
=============================================================================
