------------------------ MODULE ServiceCheck_proofs ------------------------
(***************************************************************************)
(* Proofs about ServiceCheck, for any services over any cluster, any list  *)
(* of namespaces and any flags: its type invariant, that what passed was   *)
(* served, that no alarm is false and a recovery is seen, and that it      *)
(* implements Inspection.                                                  *)
(***************************************************************************)
EXTENDS ServiceCheck, TLAPS

-----------------------------------------------------------------------------
(* The types. *)

\* While a service is checked there is one.
CurInv == pc \in {"get", "endpoints"} => cur \in Service

\* The addresses behind a service are pods.
LEMMA ReadyPodsAreSlots ==
    \A w : ReadyPods(w) \subseteq Slot
  BY DEF ReadyPods, Live

\* The flags are numbers.
LEMMA FlagsAreNumbers ==
    ASSUME RunTypeOK
    PROVE  flags.interval \in Nat /\ flags.timeout \in Nat /\ elapsed \in Nat
  BY ServiceAssumption DEF RunTypeOK, ServiceAssumption

\* The services and their endpoints, whoever looks at them: addresses are only
\* published of ready pods, and the history never forgets.
ServicesInv ==
    /\ svcs \subseteq Service /\ served \subseteq Service /\ dark \subseteq Service
    /\ addrs \in [Service -> SUBSET Slot]
    /\ \A s \in Service : addrs[s] # {} => s \in served

\* The first addresses are those of the ready pods.
LEMMA ServicesInit == ServiceInit => ServicesInv
  BY ReadyPodsAreSlots DEF ServiceInit, ServicesInv

\* What an address is published for has a ready pod at that moment.
LEMMA ServicesStep ==
    ASSUME ServicesInv, EnvironmentNext
    PROVE  ServicesInv' /\ served \subseteq served'
<1>1. Watch /\ served' \subseteq Service /\ dark' \subseteq Service
  BY DEF EnvironmentNext, PublishEndpoints, DeleteService, Watch, ServicesInv
<1>2. svcs' \subseteq Service
  BY DEF EnvironmentNext, PublishEndpoints, DeleteService, ServicesInv
<1>3. addrs' \in [Service -> SUBSET Slot]
  BY ReadyPodsAreSlots DEF EnvironmentNext, PublishEndpoints, DeleteService, ServicesInv
<1>4. served \subseteq served'
  BY <1>1 DEF Watch
<1>5. ASSUME NEW s \in Service, addrs'[s] # {} PROVE s \in served'
  <2>1. CASE addrs'[s] = addrs[s]
    BY <1>4, <1>5, <2>1 DEF ServicesInv
  <2>2. CASE addrs'[s] # addrs[s]
    <3>1. PublishEndpoints(s)
      BY <1>5, <2>2 DEF EnvironmentNext, PublishEndpoints, DeleteService, ServicesInv
    <3>2. ReadyPods(Backs[s])' = ReadyPods(Backs[s]) /\ addrs'[s] = ReadyPods(Backs[s])
      BY <3>1 DEF PublishEndpoints, clusterVars, ReadyPods, Live, ServicesInv
    <3> QED
      BY <1>1, <1>5, <3>2 DEF Watch
  <2> QED
    BY <2>1, <2>2
<1> QED
  BY <1>1, <1>2, <1>3, <1>4, <1>5 DEF ServicesInv

\* A run of the package starts well typed, whatever the services went through.
LEMMA FrameType == CheckInit /\ ServicesInv => RunTypeOK /\ CurInv
<1> SUFFICES ASSUME CheckInit, ServicesInv PROVE RunTypeOK /\ CurInv
  OBVIOUS
<1>1. Len(NsList) \in Nat /\ flags.timeout \in Nat
  BY ServiceAssumption DEF ServiceAssumption, CheckInit
<1> QED
  BY <1>1 DEF ServicesInv, CheckInit, RunTypeOK, CurInv, Nobody

\* Each step of the package keeps it well typed; the services are not its own.
LEMMA CheckStepType ==
    ASSUME RunTypeOK, CurInv, CheckNext, UNCHANGED svcVars
    PROVE  RunTypeOK' /\ CurInv'
<1>1. Len(NsList) \in Nat /\ nsIdx \in Nat /\ nsIdx >= 1
  BY ServiceAssumption DEF ServiceAssumption, RunTypeOK
<1>2. flags.interval \in Nat /\ flags.timeout \in Nat /\ elapsed \in Nat
  BY FlagsAreNumbers
<1> USE DEF svcVars
<1>3. CASE ListFails
  BY <1>3 DEF ListFails, Return, RunTypeOK, CurInv
<1>4. CASE ListNamespace
  <2> DEFINE ns == NsList[nsIdx]
             there == {s \in svcs : SvcNsOf[s] = ns}
  <2>1. /\ pc = "store" /\ nsIdx <= Len(NsList)
        /\ \/ pc' = "done" /\ result' = "nil" /\ UNCHANGED <<nsIdx, listed, stored>>
           \/ /\ nsIdx' = nsIdx + 1 /\ UNCHANGED <<pc, result>>
              /\ listed' \in {listed, {s \in listed : SvcNsOf[s] # ns} \cup there}
              /\ stored' \in {stored, stored \cup {ns}}
        /\ UNCHANGED <<flags, todo, cur, examined, ports, elapsed, badSvcs>>
    BY <1>4 DEF ListNamespace, Return
  <2>2. ns \in {NsList[i] : i \in 1..Len(NsList)}
    BY <1>1, <2>1
  <2>3. there \subseteq Service
    BY DEF RunTypeOK
  <2> HIDE DEF ns, there
  <2>4. stored' \subseteq {NsList[i] : i \in 1..Len(NsList)}
    BY <2>1, <2>2 DEF RunTypeOK
  <2>5. listed' \subseteq Service
    BY <2>1, <2>3 DEF RunTypeOK
  <2>6. nsIdx' \in 1..(Len(NsList) + 1)
    BY <1>1, <2>1 DEF RunTypeOK
  <2> QED
    BY <2>1, <2>4, <2>5, <2>6 DEF RunTypeOK, CurInv
<1>5. CASE StoreDone
  BY <1>5 DEF StoreDone, Return, RunTypeOK, CurInv
<1>6. CASE Validate
  BY <1>1, <1>6 DEF Validate, Return, RunTypeOK, CurInv
<1>7. CASE NextNamespace
  BY <1>1, <1>7 DEF NextNamespace, RunTypeOK, CurInv
<1>8. CASE NextItem
  BY <1>2, <1>8 DEF NextItem, RunTypeOK, CurInv
<1>9. CASE Conclude
  BY <1>9 DEF Conclude, Return, RunTypeOK, CurInv
<1>10. CASE GetService
  <2>1. elapsed' \in 0..flags.timeout
    BY <1>2, <1>10 DEF GetService, PollTicks, Waited
  <2>2. ports' \subseteq UNION {Ports[s] : s \in Service}
    BY <1>10 DEF GetService, RunTypeOK, CurInv
  <2> QED
    BY <1>10, <2>1, <2>2 DEF GetService, RunTypeOK, CurInv
<1>11. CASE GetEndpoints
  <2>1. ports' \subseteq UNION {Ports[s] : s \in Service}
    BY <1>11 DEF GetEndpoints, ItemDone, RunTypeOK
  <2> QED
    BY <1>11, <2>1 DEF GetEndpoints, ItemDone, RunTypeOK, CurInv
<1>12. CASE NoPortMatches
  BY <1>12 DEF NoPortMatches, RunTypeOK, CurInv
<1>13. CASE GiveUp
  BY <1>13 DEF GiveUp, ItemDone, RunTypeOK, CurInv
<1> QED
  BY <1>3, <1>4, <1>5, <1>6, <1>7, <1>8, <1>9, <1>10, <1>11, <1>12, <1>13
     DEF CheckNext

\* Each step of a run keeps the types.
LEMMA TypeStep ==
    ASSUME RunTypeOK, CurInv, ServicesInv, [Next]_vars
    PROVE  RunTypeOK' /\ CurInv' /\ ServicesInv'
<1>1. CASE CheckNext /\ UNCHANGED <<clusterVars, svcVars>>
  BY <1>1, CheckStepType DEF svcVars, ServicesInv
<1>2. CASE EnvironmentNext /\ UNCHANGED checkVars
  <2>1. ServicesInv'
    BY <1>2, ServicesStep
  <2> QED
    BY <1>2, <2>1 DEF ServicesInv, checkVars, RunTypeOK, CurInv
<1>3. CASE UNCHANGED vars
  BY <1>3 DEF vars, svcVars, checkVars, RunTypeOK, CurInv, ServicesInv
<1> QED
  BY <1>1, <1>2, <1>3 DEF Next, Exited

\* The history beside a step does not change what the step is.
LEMMA HistoryOnly == Spec => Init /\ [][Next]_vars
<1>1. [Next /\ RememberDark]_vars => [Next]_vars
  OBVIOUS
<1> QED
  BY <1>1, PTL DEF Spec

\* The run and the services are well typed in every state.
LEMMA RunTypeCorrect == Spec => [](RunTypeOK /\ CurInv /\ ServicesInv)
<1>1. RunTypeOK /\ CurInv /\ ServicesInv /\ [Next]_vars
        => (RunTypeOK /\ CurInv /\ ServicesInv)'
  BY TypeStep
<1>2. Init => RunTypeOK /\ CurInv /\ ServicesInv
  BY ServicesInit, FrameType DEF Init
<1> QED
  BY <1>1, <1>2, HistoryOnly, PTL

\* While a poll is at work its clock does not go back.
LEMMA ClockStep ==
    ASSUME RunTypeOK, [Next]_vars, Polling, Polling'
    PROVE  cur' = cur /\ elapsed' \in Nat /\ elapsed <= elapsed'
<1>1. flags.interval \in Nat /\ elapsed \in Nat
  BY FlagsAreNumbers
<1>2. CASE GetService
  BY <1>1, <1>2 DEF GetService, Waited
<1>3. CASE GetEndpoints
  BY <1>1, <1>3 DEF GetEndpoints, ItemDone, Polling
<1>4. CASE NoPortMatches
  BY <1>1, <1>4 DEF NoPortMatches
<1>5. CASE CheckNext /\ ~GetService /\ ~GetEndpoints /\ ~NoPortMatches
  BY <1>5 DEF CheckNext, Polling, ListFails, ListNamespace, StoreDone, Validate,
     NextNamespace, NextItem, Conclude, GiveUp, ItemDone, Return
<1>6. CASE UNCHANGED <<cur, elapsed>>
  BY <1>1, <1>6
<1> QED
  BY <1>2, <1>3, <1>4, <1>5, <1>6 DEF Next, Exited, vars, checkVars

\* Every state of a run is well typed, with the history of its poll.
THEOREM TypeCorrect == Spec => []TypeOK
<1>1. RunTypeOK /\ RunTypeOK' /\ TypeOK /\ [Next /\ RememberDark]_vars => TypeOK'
  <2> SUFFICES ASSUME RunTypeOK, RunTypeOK', TypeOK, [Next /\ RememberDark]_vars
               PROVE  lastDark' \in {Never} \cup 0..elapsed'
    BY DEF TypeOK
  <2>1. elapsed \in Nat /\ elapsed' \in Nat
    BY FlagsAreNumbers, ServiceAssumption DEF RunTypeOK, ServiceAssumption
  <2>2. CASE UNCHANGED vars
    BY <2>2 DEF vars, checkVars, TypeOK
  <2>3. CASE Next /\ RememberDark
    <3>1. lastDark' \in {Never, elapsed'} \/ (Polling /\ Polling' /\ lastDark' = lastDark)
      BY <2>3 DEF RememberDark
    <3>2. Polling /\ Polling' => elapsed <= elapsed'
      BY <2>3, ClockStep
    <3> QED
      BY <2>1, <3>1, <3>2 DEF TypeOK
  <2> QED
    BY <2>2, <2>3
<1>2. Init => lastDark = Never
  BY DEF Init
<1>3. RunTypeOK /\ lastDark = Never => TypeOK
  BY DEF TypeOK
<1> QED
  BY <1>1, <1>2, <1>3, RunTypeCorrect, PTL DEF Spec

-----------------------------------------------------------------------------
(* What passed was served. *)

\* A check passes a service only when it saw an address.
LEMMA ServedStep ==
    ASSUME CurInv, ServicesInv, PassedWasServed, [Next]_vars
    PROVE  PassedWasServed'
<1>1. CASE CheckNext /\ UNCHANGED <<clusterVars, svcVars>>
  <2> USE <1>1 DEF svcVars, PassedWasServed
  <2>1. CASE GetEndpoints
    <3>1. cur \in Service
      BY <2>1 DEF GetEndpoints, CurInv
    <3>2. \/ UNCHANGED <<examined, badSvcs>>
          \/ /\ addrs[cur] # {} /\ badSvcs' = badSvcs
             /\ examined' = examined \cup {cur}
      BY <2>1 DEF GetEndpoints, ItemDone, Matches
    <3> QED
      BY <3>1, <3>2 DEF Passed, ServicesInv
  <2>2. CASE GiveUp
    BY <2>2 DEF GiveUp, ItemDone, Passed
  <2>3. CASE ~GetEndpoints /\ ~GiveUp
    <3>1. UNCHANGED <<examined, badSvcs>>
      BY <2>3 DEF CheckNext, ListFails, ListNamespace, StoreDone, Validate,
                  NextNamespace, NextItem, Conclude, GetService, NoPortMatches
    <3> QED
      BY <3>1 DEF Passed
  <2> QED
    BY <2>1, <2>2, <2>3
<1>2. CASE EnvironmentNext /\ UNCHANGED checkVars
  BY <1>2, ServicesStep DEF checkVars, PassedWasServed, Passed
<1>3. CASE UNCHANGED vars
  BY <1>3 DEF vars, svcVars, checkVars, PassedWasServed, Passed
<1> QED
  BY <1>1, <1>2, <1>3 DEF Next, Exited

\* PassedWasServed: a service passed by checkServiceStatus had a ready pod
\* behind it at some moment, however late its endpoints were published.
THEOREM ServiceIsReal == Spec => []PassedWasServed
<1>1. CurInv /\ ServicesInv /\ PassedWasServed /\ [Next]_vars => PassedWasServed'
  BY ServedStep
<1>2. Init => PassedWasServed
  BY DEF Init, CheckInit, PassedWasServed, Passed
<1> QED
  BY <1>1, <1>2, RunTypeCorrect, HistoryOnly, PTL

-----------------------------------------------------------------------------
(* No false alarm. *)

\* A service that was never dark exists and has an address.
DarkInv ==
    \A s \in Service : /\ addrs[s] = {} => s \in dark
                       /\ s \notin svcs => addrs[s] = {}

\* A service that one round of the poll is bound to find healthy.
Sound(s) == s \notin dark /\ \E p \in Ports[s] : p.target = p.port

Roomy == ~ApiMayFail /\ flags.interval < flags.timeout

\* The first round of the poll of a sound service has time left, and it does not
\* end before the port that matches has been compared.
AlarmInv ==
    Roomy => /\ \A s \in badSvcs : ~Sound(s)
             /\ pc = "get" /\ Sound(cur) => elapsed = 0
             /\ pc = "endpoints" /\ Sound(cur) =>
                   \A p \in Ports[cur] : p.target = p.port => p \in ports

\* The histories start with what is there.
LEMMA DarkInit == Init => DarkInv /\ AlarmInv
  BY DEF Init, ServiceInit, CheckInit, DarkInv, AlarmInv

\* What loses its address is dark from then on, whoever looks at it.
LEMMA DarkEnvironmentStep ==
    ASSUME ServicesInv, DarkInv, EnvironmentNext
    PROVE  DarkInv' /\ dark \subseteq dark'
<1>1. Watch
  BY DEF EnvironmentNext, PublishEndpoints, DeleteService
<1>2. \A s \in Service : s \notin svcs' => addrs'[s] = {}
  BY DEF EnvironmentNext, PublishEndpoints, DeleteService, DarkInv, ServicesInv
<1> QED
  BY <1>1, <1>2 DEF Watch, DarkInv

LEMMA DarkStep ==
    ASSUME ServicesInv, DarkInv, [Next]_vars PROVE DarkInv' /\ dark \subseteq dark'
<1>1. CASE UNCHANGED svcVars
  BY <1>1 DEF svcVars, DarkInv
<1>2. CASE EnvironmentNext
  BY <1>2, DarkEnvironmentStep
<1> QED
  BY <1>1, <1>2 DEF Next, Exited, vars

\* Of a sound service the port that matches is found in the first round.
LEMMA AlarmStep ==
    ASSUME RunTypeOK, CurInv, ServicesInv, DarkInv, AlarmInv, [Next]_vars PROVE AlarmInv'
<1> SUFFICES ASSUME Roomy' PROVE AlarmInv'
  BY DEF AlarmInv
<1>1. dark \subseteq dark' /\ \A s : Sound(s)' => Sound(s)
  BY DarkStep DEF Sound
<1>2. flags' = flags
  BY DEF Next, CheckNext, vars, checkVars, Exited, ListFails, ListNamespace,
         StoreDone, Validate, NextNamespace, NextItem, Conclude, GetService,
         GetEndpoints, NoPortMatches, GiveUp
<1>3. Roomy
  BY <1>2 DEF Roomy
<1>4. CASE CheckNext /\ UNCHANGED <<clusterVars, svcVars>>
  <2>0. CASE GetService
    <3>1. Sound(cur) => cur \in svcs
      BY <2>0 DEF GetService, CurInv, DarkInv, Sound
    <3> QED
      BY <1>1, <1>3, <2>0, <3>1 DEF GetService, AlarmInv, Roomy
  <2>1. CASE GetEndpoints
    <3>1. cur \in Service
      BY <2>1 DEF GetEndpoints, CurInv
    <3>2. Sound(cur) => cur \in svcs /\ addrs[cur] # {}
      BY <3>1 DEF DarkInv, Sound
    <3>3. PICK p \in ports :
         \/ pc' = "next" /\ badSvcs' = badSvcs
         \/ /\ ~Matches(p, cur) /\ ports' = ports \ {p}
            /\ UNCHANGED <<pc, cur, badSvcs>>
         \/ /\ cur \notin svcs \/ ApiMayFail
            /\ pc' = "get" /\ UNCHANGED <<cur, badSvcs>>
      BY <2>1 DEF GetEndpoints, ItemDone
    <3>4. ASSUME Sound(cur), p \in Ports[cur], p.target = p.port
          PROVE  Matches(p, cur)
      BY <3>2, <3>4 DEF Matches, EndpointPorts
    <3> QED
      BY <1>1, <1>3, <2>1, <3>2, <3>3, <3>4 DEF GetEndpoints, AlarmInv, Roomy
  <2>2. CASE GiveUp
    <3>1. flags.interval \in Nat /\ flags.timeout \in Nat /\ elapsed \in Nat
      BY FlagsAreNumbers
    <3>2. ~Sound(cur)
      BY <1>3, <2>2, <3>1 DEF GiveUp, PollExpires, Waited, AlarmInv, Roomy
    <3> QED
      BY <1>1, <1>3, <2>2, <3>2 DEF GiveUp, ItemDone, AlarmInv
  <2>3. CASE NoPortMatches
    <3>1. ~Sound(cur)
      BY <1>3, <2>3 DEF NoPortMatches, AlarmInv, Sound
    <3> QED
      BY <1>1, <1>3, <2>3, <3>1 DEF NoPortMatches, AlarmInv
  <2>4. CASE NextItem
    BY <1>1, <1>3, <2>4 DEF NextItem, AlarmInv
  <2>5. CASE \/ ListFails \/ ListNamespace \/ StoreDone \/ Validate
             \/ NextNamespace \/ Conclude
    <3>1. badSvcs' = badSvcs /\ pc' \notin {"get", "endpoints"}
      BY <2>5 DEF ListFails, ListNamespace, StoreDone, Validate, NextNamespace,
                  Conclude, Return
    <3> QED
      BY <1>1, <1>3, <3>1 DEF AlarmInv
  <2> QED
    BY <1>4, <2>0, <2>1, <2>2, <2>3, <2>4, <2>5 DEF CheckNext
<1>5. CASE EnvironmentNext /\ UNCHANGED checkVars
  BY <1>1, <1>3, <1>5 DEF checkVars, AlarmInv
<1>6. CASE UNCHANGED vars
  BY <1>1, <1>3, <1>6 DEF vars, checkVars, AlarmInv
<1> QED
  BY <1>4, <1>5, <1>6 DEF Next, Exited

\* NoFalseAlarm: with requests that succeed and time for one round, a service
\* is reported only if it was without an address at some moment, or has no port
\* of the kind checkServiceStatus recognises.
THEOREM AlarmsAreReal == Spec => []NoFalseAlarm
<1>1. RunTypeOK /\ CurInv /\ ServicesInv /\ DarkInv /\ AlarmInv /\ [Next]_vars => DarkInv' /\ AlarmInv'
  BY DarkStep, AlarmStep
<1>2. AlarmInv => NoFalseAlarm
  BY DEF AlarmInv, NoFalseAlarm, Roomy, Sound
<1> QED
  BY <1>1, <1>2, DarkInit, RunTypeCorrect, HistoryOnly, PTL

-----------------------------------------------------------------------------
(* A recovery is seen. *)

Recognised(s) == \E p \in Ports[s] : p.target = p.port

\* After a round of the poll that found nothing, the service was without an
\* address during that round; within a round, the port that would have matched is
\* still to be looked up, or the service was without one since the round began.
RoundInv ==
    /\ Polling /\ addrs[cur] = {} => lastDark = elapsed
    /\ ~ApiMayFail /\ Polling /\ Recognised(cur) =>
         \/ lastDark = elapsed
         \/ pc = "get" /\ elapsed = 0
         \/ /\ pc = "endpoints"
            /\ \A p \in Ports[cur] : p.target = p.port => p \in ports

\* A round does not end without a match unless there was no address to match.
LEMMA RoundStep ==
    ASSUME RunTypeOK, CurInv, DarkInv, RoundInv, [Next /\ RememberDark]_vars
    PROVE  RoundInv'
<1>1. CASE UNCHANGED vars
  BY <1>1 DEF vars, svcVars, checkVars, RoundInv, Polling, Recognised
<1>2. CASE Next /\ RememberDark
  <2>1. Polling' /\ addrs'[cur'] = {} => lastDark' = elapsed'
    BY <1>2 DEF RememberDark
  <2>2. Polling /\ Polling' => lastDark' \in {lastDark, elapsed'}
    BY <1>2 DEF RememberDark
  <2> SUFFICES ASSUME ~ApiMayFail, Polling', Recognised(cur)', lastDark' # elapsed'
               PROVE  \/ pc' = "get" /\ elapsed' = 0
                      \/ /\ pc' = "endpoints"
                         /\ \A p \in Ports[cur'] : p.target = p.port => p \in ports'
    BY <2>1 DEF RoundInv, Polling, Recognised
  <2>3. CASE CheckNext /\ UNCHANGED <<clusterVars, svcVars>>
    <3>1. CASE NextItem
      BY <3>1 DEF NextItem
    <3>2. CASE GetService
      <4>1. cur \in Service /\ cur' = cur /\ addrs' = addrs
        BY <2>3, <3>2 DEF GetService, CurInv, svcVars
      <4> QED
        BY <2>1, <3>2, <4>1 DEF GetService, DarkInv
    <3>3. CASE GetEndpoints
      <4>1. Polling /\ cur \in Service /\ elapsed' = elapsed /\ addrs' = addrs
        BY <2>3, <3>3 DEF GetEndpoints, CurInv, svcVars, Polling
      <4>2. PICK p \in ports :
              \/ pc' = "next"
              \/ ~Matches(p, cur) /\ ports' = ports \ {p} /\ UNCHANGED <<pc, cur>>
              \/ cur \notin svcs /\ UNCHANGED cur
        BY <3>3 DEF GetEndpoints, ItemDone
      <4>3. cur' = cur /\ addrs[cur] # {} /\ lastDark # elapsed
        BY <2>1, <2>2, <4>1, <4>2 DEF Polling
      <4>4. ~Matches(p, cur) /\ ports' = ports \ {p} /\ UNCHANGED <<pc, cur>>
        BY <4>1, <4>2, <4>3 DEF DarkInv, Polling
      <4>5. p \in Ports[cur] => p.target # p.port
        BY <4>3, <4>4 DEF Matches, EndpointPorts
      <4>6. pc = "endpoints" /\ \A q \in Ports[cur] : q.target = q.port => q \in ports
        BY <3>3, <4>1, <4>3 DEF RoundInv, Recognised, GetEndpoints
      <4> QED
        BY <4>3, <4>4, <4>5, <4>6
    <3>4. CASE NoPortMatches
      <4>1. /\ Polling /\ ports = {} /\ pc = "endpoints"
            /\ UNCHANGED <<cur, elapsed>>
        BY <3>4 DEF NoPortMatches, Polling
      <4>2. Recognised(cur) /\ lastDark # elapsed
        BY <2>2, <4>1 DEF Recognised
      <4> QED
        BY <4>1, <4>2 DEF RoundInv, Recognised
    <3>5. CASE ~(NextItem \/ GetService \/ GetEndpoints \/ NoPortMatches)
      <4>1. ~Polling'
        BY <2>3, <3>5 DEF CheckNext, ListFails, ListNamespace, StoreDone, Validate,
           NextNamespace, Conclude, GiveUp, ItemDone, Return, Polling
      <4> QED
        BY <4>1
    <3> QED
      BY <3>1, <3>2, <3>3, <3>4, <3>5
  <2>4. CASE UNCHANGED checkVars
    <3>1. UNCHANGED <<pc, cur, elapsed, ports>> /\ Polling
      BY <2>4 DEF checkVars, Polling
    <3> QED
      BY <2>2, <3>1 DEF RoundInv, Recognised
  <2> QED
    BY <1>2, <2>3, <2>4 DEF Next, Exited, vars
<1> QED
  BY <1>1, <1>2

\* RecoveryIsSeen: the poll of validateServicesByNamespace looks anew in each of
\* its rounds until no further one is sure to fit in the timeout, so that a service
\* with a recognisable port is reported only if it was without an address after
\* that, for any services, flags and moves of the cluster.
THEOREM RecoveriesAreSeen == Spec => RecoveryIsSeen
<1> DEFINE Seen ==
      \A s \in badSvcs' \ badSvcs :
          /\ ~ApiMayFail /\ flags.interval < flags.timeout
          /\ \E p \in Ports[s] : p.target = p.port
          => lastDark # Never /\ lastDark + flags.interval >= flags.timeout
<1>1. RunTypeOK /\ RoundInv /\ [Next]_vars => [Seen]_vars
  <2> SUFFICES ASSUME RunTypeOK, RoundInv, Next, NEW s \in badSvcs' \ badSvcs,
                      ~ApiMayFail, flags.interval < flags.timeout, Recognised(s)
               PROVE  lastDark # Never /\ lastDark + flags.interval >= flags.timeout
    BY DEF vars, checkVars, Recognised
  <2>1. GiveUp
    BY DEF Next, CheckNext, Exited, vars, checkVars, ListFails, ListNamespace,
           StoreDone, Validate, NextNamespace, NextItem, Conclude, GetService,
           GetEndpoints, NoPortMatches
  <2>2. s = cur /\ pc = "get" /\ PollExpires
    BY <2>1 DEF GiveUp
  <2>3. flags.interval \in Nat /\ flags.timeout \in Nat /\ elapsed \in Nat
    BY FlagsAreNumbers
  <2>4. elapsed # 0
    BY <2>2, <2>3 DEF PollExpires, Waited
  <2>5. lastDark = elapsed
    BY <2>2, <2>4 DEF RoundInv, Polling
  <2> QED
    BY <2>2, <2>3, <2>5 DEF PollExpires, Waited, Never
<1>2. RunTypeOK /\ CurInv /\ ServicesInv /\ DarkInv /\ RoundInv /\ [Next /\ RememberDark]_vars
        => DarkInv' /\ RoundInv'
  BY DarkStep, RoundStep
<1>3. Init => DarkInv /\ RoundInv
  BY DarkInit DEF Init, CheckInit, RoundInv, Polling
<1> QED
  BY <1>1, <1>2, <1>3, RunTypeCorrect, HistoryOnly, PTL DEF Spec, RecoveryIsSeen

-----------------------------------------------------------------------------
(* The package keeps the promise of Inspection. *)

\* The service at work, which is neither examined nor to do.
AtWork == IF pc \in {"get", "endpoints"} THEN {cur} ELSE {}

\* The loops lose nothing: before them nothing is judged, and within them each
\* listed service of a namespace passed is examined, at work or to do.  What ends
\* well had no error.
LoopInv ==
    /\ result = "running" <=> pc # "done"
    /\ pc \in {"store", "validate"} => examined = {} /\ badSvcs = {}
    /\ todo \cup examined \cup AtWork \subseteq listed
    /\ pc = "store" => todo = {}
    /\ badSvcs \subseteq examined
    /\ \A s \in listed : \E i \in 1..Len(NsList) : SvcNsOf[s] = NsList[i]
    /\ pc \in {"next", "get", "endpoints"} =>
         \A s \in listed : \A i \in 1..Len(NsList) :
             i < nsIdx /\ SvcNsOf[s] = NsList[i] => s \in examined \cup todo \cup AtWork
    /\ result = "nil" => badSvcs = {}

\* Nothing is listed at first.
LEMMA LoopInit == CheckInit => LoopInv
  BY DEF CheckInit, LoopInv, AtWork

\* Each step of the loops takes one thing from where it was to where it goes.
LEMMA LoopStep ==
    ASSUME RunTypeOK, CurInv, LoopInv, [Next]_vars PROVE LoopInv'
<1>1. Len(NsList) \in Nat /\ nsIdx \in Nat /\ nsIdx >= 1
  BY ServiceAssumption DEF ServiceAssumption, RunTypeOK
<1>2. CASE CheckNext
  <2>1. CASE ListFails
    BY <2>1 DEF ListFails, Return, LoopInv, AtWork
  <2>2. CASE ListNamespace
    <3> DEFINE ns == NsList[nsIdx]
               there == {s \in svcs : SvcNsOf[s] = ns}
    <3>1. /\ pc = "store" /\ nsIdx <= Len(NsList)
          /\ \/ pc' = "done" /\ result' = "nil" /\ UNCHANGED listed
             \/ /\ UNCHANGED <<pc, result>>
                /\ listed' \in {listed, {s \in listed : SvcNsOf[s] # ns} \cup there}
          /\ UNCHANGED <<todo, cur, examined, badSvcs>>
      BY <2>2 DEF ListNamespace, Return
    <3>2. \A s \in listed' : \E i \in 1..Len(NsList) : SvcNsOf[s] = NsList[i]
      <4>1. nsIdx \in 1..Len(NsList)
        BY <1>1, <3>1
      <4> QED
        BY <3>1, <4>1 DEF LoopInv
    <3> HIDE DEF ns, there
    <3> QED
      BY <3>1, <3>2 DEF LoopInv, AtWork
  <2>3. CASE StoreDone
    BY <2>3 DEF StoreDone, Return, LoopInv, AtWork
  <2>4. CASE Validate
    BY <2>4 DEF Validate, Return, LoopInv, AtWork
  <2>5. CASE NextNamespace
    <3>1. \A s \in listed : \A i \in 1..Len(NsList) :
            i < nsIdx + 1 /\ SvcNsOf[s] = NsList[i] => s \in examined \cup todo'
      BY <1>1, <2>5 DEF NextNamespace, LoopInv, AtWork
    <3> QED
      BY <2>5, <3>1 DEF NextNamespace, LoopInv, AtWork
  <2>6. CASE NextItem
    BY <2>6 DEF NextItem, LoopInv, AtWork
  <2>7. CASE Conclude
    BY <2>7 DEF Conclude, Return, LoopInv, AtWork
  <2>8. CASE GetService
    BY <2>8 DEF GetService, LoopInv, AtWork
  <2>9. CASE GetEndpoints
    <3>1. \/ UNCHANGED <<cur, examined>> /\ pc' \in {"get", "endpoints"}
          \/ pc' = "next" /\ examined' = examined \cup {cur}
      BY <2>9 DEF GetEndpoints, ItemDone
    <3> QED
      BY <2>9, <3>1 DEF GetEndpoints, LoopInv, AtWork
  <2>10. CASE NoPortMatches
    BY <2>10 DEF NoPortMatches, LoopInv, AtWork
  <2>11. CASE GiveUp
    BY <2>11 DEF GiveUp, ItemDone, LoopInv, AtWork
  <2> QED
    BY <1>2, <2>1, <2>2, <2>3, <2>4, <2>5, <2>6, <2>7, <2>8, <2>9, <2>10, <2>11
       DEF CheckNext
<1>3. CASE UNCHANGED checkVars
  BY <1>3 DEF checkVars, LoopInv, AtWork
<1> QED
  BY <1>2, <1>3 DEF Next, Exited, vars

\* Each step of the package is a step of Inspection, or none.
LEMMA PromiseStep ==
    ASSUME RunTypeOK, CurInv, LoopInv, LoopInv', [Next]_vars
    PROVE  [Promise!Next]_(Promise!vars)
<1> DEFINE verdict == CASE result = "running" -> "none"
                        [] result = "nil"     -> "pass"
                        [] OTHER              -> "fail"
<1> USE DEF Promise!vars
<1>1. CASE CheckNext
  <2>1. CASE ListFails
    <3>1. verdict = "none" /\ verdict' = "fail" /\ examined = {}
      BY <2>1 DEF ListFails, Return, LoopInv
    <3> QED
      BY <2>1, <3>1 DEF ListFails, Promise!Next, Promise!Abort
  <2>2. CASE ListNamespace
    <3>1. /\ result = "running" /\ examined = {} /\ UNCHANGED <<examined, badSvcs>>
          /\ \/ result' = "nil" /\ UNCHANGED listed
             \/ UNCHANGED result
      BY <2>2 DEF ListNamespace, Return, LoopInv
    <3>2. listed' \in SUBSET Service
      BY <1>1, <2>2 DEF ListNamespace, RunTypeOK
    <3> QED
      BY <3>1, <3>2 DEF Promise!Next, Promise!Skip, Promise!Find
  <2>3. CASE StoreDone
    BY <2>3 DEF StoreDone, Return, LoopInv, Promise!Next, Promise!Skip
  <2>4. CASE Validate
    BY <2>4 DEF Validate, Return, LoopInv, Promise!Next, Promise!Abort
  <2>5. CASE NextNamespace \/ NextItem \/ GetService \/ NoPortMatches
    BY <2>5 DEF NextNamespace, NextItem, GetService, NoPortMatches
  <2>6. CASE Conclude
    <3>1. examined = listed
      <4>1. Len(NsList) \in Nat /\ nsIdx \in Nat
        BY ServiceAssumption DEF ServiceAssumption, RunTypeOK
      <4>2. pc = "next" /\ todo = {} /\ \A i \in 1..Len(NsList) : i < nsIdx
        BY <2>6, <4>1 DEF Conclude
      <4> QED
        BY <4>2 DEF LoopInv, AtWork
    <3>2. /\ result = "running" /\ UNCHANGED <<listed, examined, badSvcs>>
          /\ result' = IF badSvcs = {} THEN "nil" ELSE "ErrFailed"
      BY <2>6 DEF Conclude, Return, LoopInv
    <3> QED
      BY <3>1, <3>2 DEF Promise!Next, Promise!Conclude
  <2>7. CASE GetEndpoints
    <3>1. /\ cur \in Service /\ cur \in listed /\ result = "running"
          /\ UNCHANGED <<listed, badSvcs, result>>
          /\ examined' \in {examined, examined \cup {cur}}
      BY <2>7 DEF GetEndpoints, ItemDone, LoopInv, AtWork, CurInv
    <3> QED
      BY <3>1 DEF Promise!Next, Promise!Judge
  <2>8. CASE GiveUp
    <3>1. /\ cur \in Service /\ cur \in listed /\ result = "running"
          /\ UNCHANGED <<listed, result>> /\ badSvcs' = badSvcs \cup {cur}
          /\ examined' = examined \cup {cur}
      BY <2>8 DEF GiveUp, ItemDone, LoopInv, AtWork, CurInv
    <3> QED
      BY <3>1 DEF Promise!Next, Promise!Judge
  <2> QED
    BY <1>1, <2>1, <2>2, <2>3, <2>4, <2>5, <2>6, <2>7, <2>8 DEF CheckNext
<1>2. CASE UNCHANGED checkVars
  BY <1>2 DEF checkVars
<1> QED
  BY <1>1, <1>2 DEF Next, Exited, vars

\* KeepsPromise: CheckServices judges all it lists and returns nil only if
\* nothing had an error, or at a namespace without services.
THEOREM ServicesKeepThePromise == Spec => KeepsPromise
<1>1. Init => Promise!Init
  BY DEF Init, CheckInit, Promise!Init
<1>2. RunTypeOK /\ CurInv /\ LoopInv /\ [Next]_vars => LoopInv'
  BY LoopStep
<1>3. RunTypeOK /\ CurInv /\ LoopInv /\ LoopInv' /\ [Next]_vars
        => [Promise!Next]_(Promise!vars)
  BY PromiseStep
<1> QED
  BY <1>1, <1>2, <1>3, LoopInit, RunTypeCorrect, HistoryOnly, PTL
     DEF Init, KeepsPromise, Promise!Spec

=============================================================================
