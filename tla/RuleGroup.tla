------------------------------ MODULE RuleGroup ------------------------------
(***************************************************************************)
(* The recording rules of telemeter_rules.go as the ruler evaluates them:  *)
(* one after the other in the order of the list, every interval.  A rule   *)
(* reads what other rules have recorded, some of them further down in the  *)
(* list.  That rounds can be missed, and that a query does not see a       *)
(* sample which is older than its lookback, is external.  An expression is *)
(* reduced to the records it reads: it has no value without the records in *)
(* reads, and without any of those in either.                              *)
(***************************************************************************)
EXTENDS Integers, Sequences, FiniteSetsExt

CONSTANTS Lookback,     \* of a query, in minutes
          LastMinute    \* bound on the time

(* Five minutes unless configured; with more than eight a query would see   *)
(* over a round that was missed.                                            *)
ASSUME LookbackAssumption == Lookback \in 5 .. 8 /\ LastMinute \in Nat

VARIABLES now, next, recorded, basis, gap

rulerVars == <<now, next, recorded, basis, gap>>

-----------------------------------------------------------------------------
Rule(record, reads) == [record |-> record, reads |-> reads, either |-> {}]
RuleOfEither(record, either) == [record |-> record, reads |-> {}, either |-> either]

(* Mutant: longer than the lookback.                                        *)
IntervalOfSix == 6
interval == 4

Subscribed == "id_version_ebs_account_internal:cluster_subscribed"
Workload ==
    [physical_cpu      |-> "cluster:usage:workload:capacity_physical_cpu_hours",
     physical_instance |-> "cluster:usage:workload:capacity_physical_instance_hours",
     virtual_cpu       |-> "cluster:usage:workload:capacity_virtual_cpu_hours"]

rules ==
    << Rule("steps:count1h", {}),
       Rule("name_reason:cluster_operator_degraded:count", {}),
       Rule("name_reason:cluster_operator_unavailable:count", {}),
       Rule("id_code:apiserver_request_error_rate_sum:max", {}),
       Rule("id_version:cluster_available", {}),
       Rule(Subscribed, {"id_version", "id_install_type", "id_primary_host_type", "id_provider"}),
       Rule("id_primary_host_type", {}),
       Rule("id_provider", {}),
       Rule("id_version", {}),
       Rule("id_install_type", {}),
       Rule("id_cloudpak_type", {}),
       Rule("id_network_type", {}),
       Rule("ebs_account_account_type_email_domain_internal", {}),
       Rule("acm_top500_mcs:acm_managed_cluster_info", {}),
       Rule(Workload.physical_cpu, {"steps:count1h"}),
       Rule(Workload.physical_instance, {"steps:count1h"}),
       Rule(Workload.virtual_cpu, {"steps:count1h"}),
       Rule("cluster:cpu_capacity_cores:_id", {}),
       Rule("cluster:capacity_effective_cpu_cores", {"cluster:cpu_capacity_cores:_id"}),
       Rule("acm_capacity_effective_cpu_cores", {"cluster:capacity_effective_cpu_cores"}),
       Rule("hostedcluster:hypershift_cluster_vcpus:vcpu_hours", {"steps:count1h"}),
       RuleOfEither("rosa:cluster:vcpu_hours",
                    {"hostedcluster:hypershift_cluster_vcpus:vcpu_hours",
                     Workload.virtual_cpu}) >>

Records == {rules[i].record : i \in DOMAIN rules}
NoSample == -1

-----------------------------------------------------------------------------
RulerInit ==
    /\ now = 0 /\ next = 1
    /\ recorded = [r \in Records |-> NoSample]     \* the time of its last sample
    /\ basis = [r \in Records |-> NoSample]        \* of the oldest data in that
    /\ gap = TRUE                                  \* no round just before this one

Visible(r) == recorded[r] # NoSample /\ now - recorded[r] < Lookback

HasValue(rule) ==
    /\ \A r \in rule.reads : Visible(r)
    /\ rule.either # {} => \E r \in rule.either : Visible(r)

Evaluate ==
    /\ next <= Len(rules)
    /\ LET rule == rules[next]
           read == {r \in rule.reads \cup rule.either : Visible(r)}
       IN  IF HasValue(rule)
           THEN /\ recorded' = [recorded EXCEPT ![rule.record] = now]
                /\ basis' = [basis EXCEPT ![rule.record] =
                                Min({now} \cup {basis[r] : r \in read})]
           ELSE UNCHANGED <<recorded, basis>>
    /\ next' = next + 1
    /\ UNCHANGED <<now, gap>>

RoundDone == next > Len(rules)

(* The next rounds come, of which the first missed ones are not evaluated.  *)
NextRound(missed) ==
    /\ RoundDone /\ now + (missed + 1) * interval <= LastMinute
    /\ now' = now + (missed + 1) * interval
    /\ next' = 1 /\ gap' = (missed > 0)
    /\ UNCHANGED <<recorded, basis>>

RulerNext == Evaluate \/ \E missed \in 0 .. 2 : NextRound(missed)

RulerSpec == RulerInit /\ [][RulerNext]_rulerVars

-----------------------------------------------------------------------------
RulerTypeOK ==
    /\ now \in 0 .. LastMinute /\ next \in 1 .. Len(rules) + 1
    /\ recorded \in [Records -> {NoSample} \cup 0 .. LastMinute]
    /\ basis \in [Records -> {NoSample} \cup 0 .. LastMinute]
    /\ gap \in BOOLEAN

(* Every record has a value after every round, but for the one whose rule   *)
(* stands before those it reads: it has none after a first round or after a *)
(* missed one, and otherwise lives on what the round before has recorded,   *)
(* which is only still to be seen as the interval is below the lookback     *)
(* (telemeter_rules.go:70, 105 against 110-125).                            *)
OneRoundBehindAtMost ==
    RoundDone => \A r \in Records :
        \/ recorded[r] = now /\ basis[r] = now
        \/ /\ r = Subscribed
           /\ IF gap THEN recorded[r] # now
                     ELSE recorded[r] = now /\ basis[r] = now - interval
=============================================================================
