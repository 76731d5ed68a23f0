---------------------------- MODULE ServiceCheck ----------------------------
(***************************************************************************)
(* CheckServices of the integration-test framework over a live cluster.    *)
(* Unlike the two workload packages its poll does retry until the timeout, *)
(* and one condition makes several requests: the Service, and then the     *)
(* Endpoints once for each port of the Service.                            *)
(***************************************************************************)
EXTENDS Cluster, Sequences

CONSTANTS
    Service,       \* the services of the cluster
    SvcNsOf,       \* the namespace of each
    Ports,         \* the ports of each: name, port and targetPort
    Backs,         \* the workload its selector selects
    NsList,        \* the -namespaces flag, split at commas
    Flags,         \* the values of the -interval and -timeout flags
    ApiMayFail     \* whether a request may fail for a reason of its own

ASSUME ServiceAssumption ==
    /\ NsList \in Seq(STRING) /\ NsList # <<>>
    /\ Flags \subseteq [interval : Nat, timeout : Nat]
    /\ ApiMayFail \in BOOLEAN
    /\ Backs \in [Service -> Workload]

VARIABLES
    svcs,       \* the services that exist
    addrs,      \* the addresses in the Endpoints of each service
    served,     \* history: services with a ready pod behind them at some moment
    dark,       \* history: services without an address at some moment
    flags, pc, nsIdx, stored, todo, cur, examined, result,
    listed,     \* the services of the List responses
    ports,      \* the ports of the Get response still to look up
    elapsed,    \* the time the current poll has waited
    badSvcs,    \* the services with an error in errList
    lastDark    \* history: what the poll at work had waited when its service was
                \* last without an address, or Never

svcVars   == <<svcs, addrs, served, dark>>
checkVars == <<flags, pc, nsIdx, stored, todo, cur, examined, result, listed,
               ports, elapsed, badSvcs>>
vars == <<clusterVars, svcVars, checkVars, lastDark>>

Nobody == "nobody"
Never  == -1

RunTypeOK ==
    /\ svcs \subseteq Service
    /\ addrs \in [Service -> SUBSET Slot]
    /\ served \subseteq Service /\ dark \subseteq Service
    /\ flags \in Flags
    /\ pc \in {"store", "validate", "next", "get", "endpoints", "done"}
    /\ nsIdx \in 1..(Len(NsList) + 1)
    /\ stored \subseteq {NsList[i] : i \in 1..Len(NsList)}
    /\ todo \subseteq Service /\ examined \subseteq Service
    /\ listed \subseteq Service /\ badSvcs \subseteq Service
    /\ cur \in Service \cup {Nobody}
    /\ ports \subseteq UNION {Ports[s] : s \in Service}
    /\ elapsed \in 0..flags.timeout
    /\ result \in {"running", "nil", "ErrListing", "ErrInvalidInterval", "ErrFailed"}

\* The type invariant of a run: its state and the history of its poll.
TypeOK == RunTypeOK /\ lastDark \in {Never} \cup 0..elapsed

-----------------------------------------------------------------------------
\* External: services are removed, and the endpoints controller publishes the
\* addresses of the ready pods behind a service some time after they change.
\* The ports of an Endpoints object carry the target ports of the service.
ServiceInit ==
    /\ svcs \in SUBSET Service
    /\ addrs = [s \in Service |->
                  IF s \in svcs THEN ReadyPods(Backs[s]) ELSE {}]
    /\ served = {s \in Service : ReadyPods(Backs[s]) # {}}
    /\ dark = {s \in Service : addrs[s] = {}}

Watch ==
    /\ served' = served \cup {s \in Service : ReadyPods(Backs[s])' # {}}
    /\ dark' = dark \cup {s \in Service : addrs'[s] = {}}

PublishEndpoints(s) ==
    /\ s \in svcs
    /\ addrs' = [addrs EXCEPT ![s] = ReadyPods(Backs[s])]
    /\ UNCHANGED <<svcs, clusterVars>>
    /\ Watch

DeleteService(s) ==
    /\ s \in svcs
    /\ svcs' = svcs \ {s} /\ addrs' = [addrs EXCEPT ![s] = {}]
    /\ UNCHANGED clusterVars
    /\ Watch

EnvironmentNext ==
    \/ \E s \in Service : PublishEndpoints(s) \/ DeleteService(s)
    \/ ClusterNext /\ UNCHANGED <<svcs, addrs>> /\ Watch

-----------------------------------------------------------------------------
EndpointPorts(s) == {[name |-> p.name, port |-> p.target] : p \in Ports[s]}

\* The comparison of checkServiceStatus: by name and by the number of the
\* service port, in a subset that has an address.  Mutant: or has none.
MatchesNoAddress(p, s) ==
    [name |-> p.name, port |-> p.port] \in EndpointPorts(s)
Matches(p, s) ==
    /\ [name |-> p.name, port |-> p.port] \in EndpointPorts(s)
    /\ addrs[s] # {}

\* PollUntilContextTimeout waits one interval before each condition and stops
\* when the context of the timeout is done; at equality either may come first.
\* The time the requests of a condition take is not counted in elapsed: with it
\* the last rounds fall away.
\* Mutants: time stands still; the interval does not bound the poll.
WaitedNothing == elapsed
Waited        == elapsed + flags.interval
PollTicksOn   == elapsed <= flags.timeout
PollTicks     == Waited <= flags.timeout
PollExpires   == Waited >= flags.timeout

Return(r) ==
    /\ result' = r /\ pc' = "done"

CheckInit ==
    /\ flags \in Flags
    /\ pc = "store" /\ nsIdx = 1
    /\ stored = {} /\ todo = {} /\ cur = Nobody /\ examined = {}
    /\ listed = {} /\ ports = {} /\ elapsed = 0 /\ badSvcs = {}
    /\ result = "running"

ListFails ==
    /\ pc = "store" /\ nsIdx <= Len(NsList) /\ NsList[nsIdx] # ""
    /\ ApiMayFail
    /\ Return("ErrListing")
    /\ UNCHANGED <<flags, nsIdx, stored, todo, cur, examined, listed, ports,
                   elapsed, badSvcs>>

\* One round of storeServicesByNamespace: a namespace without services ends
\* the listing with the error that CheckServices skips on.
ListNamespace ==
    /\ pc = "store" /\ nsIdx <= Len(NsList)
    /\ LET ns == NsList[nsIdx]
           there == {s \in svcs : SvcNsOf[s] = ns}
       IN  IF ns # "" /\ there = {}
           THEN Return("nil") /\ UNCHANGED <<nsIdx, listed, stored>>
           ELSE /\ nsIdx' = nsIdx + 1
                /\ listed' = IF ns = "" THEN listed
                             ELSE {s \in listed : SvcNsOf[s] # ns} \cup there
                /\ stored' = IF ns = "" THEN stored ELSE stored \cup {ns}
                /\ UNCHANGED <<pc, result>>
    /\ UNCHANGED <<flags, todo, cur, examined, ports, elapsed, badSvcs>>

StoreDone ==
    /\ pc = "store" /\ nsIdx > Len(NsList)
    /\ IF stored = {} THEN Return("nil")
                      ELSE pc' = "validate" /\ UNCHANGED result
    /\ UNCHANGED <<flags, nsIdx, stored, todo, cur, examined, listed, ports,
                   elapsed, badSvcs>>

Validate ==
    /\ pc = "validate"
    /\ IF flags.interval = 0 \/ flags.timeout = 0
       THEN Return("ErrInvalidInterval") /\ UNCHANGED nsIdx
       ELSE pc' = "next" /\ nsIdx' = 1 /\ UNCHANGED result
    /\ UNCHANGED <<flags, stored, todo, cur, examined, listed, ports, elapsed,
                   badSvcs>>

NextNamespace ==
    /\ pc = "next" /\ todo = {} /\ nsIdx <= Len(NsList)
    /\ todo' = {s \in listed : SvcNsOf[s] = NsList[nsIdx]}
    /\ nsIdx' = nsIdx + 1
    /\ UNCHANGED <<flags, pc, stored, cur, examined, result, listed, ports,
                   elapsed, badSvcs>>

\* Mutant: the poll inherits the time the one before it has waited.
NextItemKeepsClock ==
    /\ pc = "next"
    /\ \E s \in todo : cur' = s /\ todo' = todo \ {s}
    /\ pc' = "get"
    /\ UNCHANGED <<flags, nsIdx, stored, examined, result, listed, ports,
                   elapsed, badSvcs>>

NextItem ==
    /\ pc = "next"
    /\ \E s \in todo : cur' = s /\ todo' = todo \ {s}
    /\ pc' = "get" /\ elapsed' = 0
    /\ UNCHANGED <<flags, nsIdx, stored, examined, result, listed, ports,
                   badSvcs>>

\* Mutant: the last namespace is left out.
ConcludeEarly ==
    /\ pc = "next" /\ todo = {} /\ nsIdx >= Len(NsList)
    /\ Return(IF badSvcs = {} THEN "nil" ELSE "ErrFailed")
    /\ UNCHANGED <<flags, nsIdx, stored, todo, cur, examined, listed, ports,
                   elapsed, badSvcs>>

Conclude ==
    /\ pc = "next" /\ todo = {} /\ nsIdx > Len(NsList)
    /\ Return(IF badSvcs = {} THEN "nil" ELSE "ErrFailed")
    /\ UNCHANGED <<flags, nsIdx, stored, todo, cur, examined, listed, ports,
                   elapsed, badSvcs>>

ItemDone ==
    /\ pc' = "next" /\ examined' = examined \cup {cur} /\ cur' = Nobody

\* A round of the poll: after the interval the condition gets the Service.
\* Any error of the check is dropped and the poll goes on ("false, nil").
GetService ==
    /\ pc = "get" /\ PollTicks
    /\ elapsed' = Waited
    /\ \/ /\ cur \in svcs
          /\ pc' = "endpoints" /\ ports' = Ports[cur]
       \/ /\ cur \notin svcs \/ ApiMayFail
          /\ UNCHANGED <<pc, ports>>
    /\ UNCHANGED <<flags, nsIdx, stored, todo, cur, examined, result, listed,
                   badSvcs>>

GiveUp ==
    /\ pc = "get" /\ PollExpires
    /\ badSvcs' = badSvcs \cup {cur}
    /\ ItemDone
    /\ UNCHANGED <<flags, nsIdx, stored, todo, result, listed, ports, elapsed>>

\* The Endpoints are fetched anew for every port; the first match is enough.
GetEndpoints ==
    /\ pc = "endpoints"
    /\ \E p \in ports :
         \/ /\ cur \in svcs /\ Matches(p, cur)
            /\ ports' = {} /\ ItemDone
         \/ /\ cur \in svcs /\ ~Matches(p, cur)
            /\ ports' = ports \ {p}
            /\ UNCHANGED <<pc, cur, examined>>
         \/ /\ cur \notin svcs \/ ApiMayFail
            /\ ports' = {} /\ pc' = "get"
            /\ UNCHANGED <<cur, examined>>
    /\ UNCHANGED <<flags, nsIdx, stored, todo, result, listed, elapsed, badSvcs>>

\* Mutant: the condition returns its error, as those of the workload packages do,
\* which ends the poll.
NoPortMatchesEnds ==
    /\ pc = "endpoints" /\ ports = {}
    /\ badSvcs' = badSvcs \cup {cur}
    /\ ItemDone
    /\ UNCHANGED <<flags, nsIdx, stored, todo, result, listed, ports, elapsed>>

NoPortMatches ==
    /\ pc = "endpoints" /\ ports = {}
    /\ pc' = "get"
    /\ UNCHANGED <<flags, nsIdx, stored, todo, cur, examined, result, listed,
                   ports, elapsed, badSvcs>>

CheckNext ==
    \/ ListFails \/ ListNamespace \/ StoreDone
    \/ Validate \/ NextNamespace \/ NextItem \/ Conclude
    \/ GetService \/ GetEndpoints \/ NoPortMatches \/ GiveUp

-----------------------------------------------------------------------------
Init == ClusterInit /\ ServiceInit /\ CheckInit /\ lastDark = Never

Exited == pc = "done" /\ UNCHANGED vars

Next == \/ CheckNext /\ UNCHANGED <<clusterVars, svcVars>>
        \/ EnvironmentNext /\ UNCHANGED checkVars
        \/ Exited

\* The history beside each step: a poll is at work from its NextItem on.
Polling == pc \in {"get", "endpoints"}

RememberDark ==
    lastDark' = IF ~Polling' THEN Never
                ELSE IF addrs'[cur'] = {} THEN elapsed'
                ELSE IF Polling THEN lastDark ELSE Never

Spec == Init /\ [][Next /\ RememberDark]_vars

-----------------------------------------------------------------------------
Passed == examined \ badSvcs

\* A service that passed had, at some moment, a ready pod behind it, however
\* late the endpoints were published (checkServiceStatus asks for an address).
PassedWasServed == Passed \subseteq served

\* No false alarm: with requests that succeed and a timeout that leaves room
\* for one check, a service is reported only if it was without an address at
\* some moment of the run, or has no port that equals its target port, the
\* only kind checkServiceStatus recognises.
NoFalseAlarm ==
    ~ApiMayFail /\ flags.interval < flags.timeout =>
        \A s \in badSvcs : s \in dark \/ \A p \in Ports[s] : p.target # p.port

\* The poll does retry, and each of its rounds looks anew (service.go:117-150,
\* "Timeout for retry" at main.go:45): with requests that succeed and a port of
\* the kind that is recognised, a service that has addresses again while one
\* more round is sure to follow is not reported.  A report says that it was
\* without one at a moment after the last round the timeout was sure to leave.
RecoveryIsSeen ==
    [][\A s \in badSvcs' \ badSvcs :
          /\ ~ApiMayFail /\ flags.interval < flags.timeout
          /\ \E p \in Ports[s] : p.target = p.port
          => lastDark # Never /\ lastDark + flags.interval >= flags.timeout]_vars

\* The promise of the package to main, as in WorkloadCheck.
Promise == INSTANCE Inspection WITH
    Item <- Service, maySkip <- TRUE,
    scope <- listed, judged <- examined, failed <- badSvcs,
    verdict <- CASE result = "running" -> "none"
                 [] result = "nil"     -> "pass"
                 [] OTHER              -> "fail"

KeepsPromise == Promise!Spec
=============================================================================
