-------------------------------- MODULE Rbac --------------------------------
(***************************************************************************)
(* GenerateRBAC of configuration/observatorium/rbac.go: the table of calls *)
(* that writes rbac.json, the file from which the Observatorium API        *)
(* decides what each service account may do.  The program is the table and *)
(* the two helpers that run it; the table is what maintainers edit, so the *)
(* specification is about any table in Tables, and GenerateRBAC below is   *)
(* the one in the source.                                                  *)
(*                                                                         *)
(* A hyphenated name is the sequence of its segments.  The only signal is  *)
(* metricsSignal, so roles are identified by tenant and permission.        *)
(***************************************************************************)
EXTENDS Integers, Sequences

CONSTANTS
    Segment,     \* the segments of names
    Tenant,      \* the values of tenantID
    Tables       \* the tables the generator may have been compiled with

Env  == {"testing", "staging", "production"}
Perm == {"read", "write"}
Name == Seq(Segment) \ {<<>>}
Row  == [name : Name, tenant : Tenant, perms : SUBSET Perm,
         envs : SUBSET Env, skip : BOOLEAN]

\* Its rows, and the one before which the admin binding is appended.
Table == [rows : Seq(Row), admin : Nat \ {0}]

ASSUME TablesAssumption ==
    /\ Env \cup {"rhobs", "admin", "team", "monitoring@redhat.com"}
          \subseteq Segment
    /\ {"telemeter", "rhobs"} \subseteq Tenant
    /\ Tables \subseteq Table

VARIABLES
    table,      \* the table of this run
    next,       \* the row to attach next
    admin,      \* whether the admin binding has been appended
    status,     \* "generating", "written" or "panicked"
    mapped,     \* the keys of mappedRoleNames
    Roles,      \* the roles of the file
    RoleBindings

vars == <<table, next, admin, status, mapped, Roles, RoleBindings>>

-----------------------------------------------------------------------------
\* Mutant: the parts of the key are swapped.
KeySwapped(tenant, p) == <<p, tenant>>
Key(tenant, p) == <<tenant, p>>
Keys(row)      == {Key(row.tenant, p) : p \in row.perms}

\* fmt.Sprintf("%s-%s-%s", k.tenant, k.signal, k.perm)
RoleName(k) == <<k[1], "metrics", k[2]>>
RoleNames   == Tenant \X {"metrics"} \X Perm
RoleFor(k)  == [name |-> RoleName(k), tenant |-> k[1], perm |-> k[2]]

\* The keys of ks for which getOrCreateRoleName finds no role.
Missing(ks) == ks \ mapped

\* tenantNameFollowsConvention.  The code compares the end of the name, letter
\* by letter; a word that is no environment but ends like one ("prestaging"),
\* which it refuses too, is not among the segments.
FollowsConvention(name) == name[Len(name)] \notin Env

\* The user name of the token a service account gets in an environment, less
\* the prefix "service-account-" that all of them have.
Subject(name, e) ==
    [kind |-> "user",
     name |-> IF e = "production" THEN name ELSE Append(name, e)]

Binding(row) ==
    [name     |-> row.name,
     roles    |-> {RoleName(k) : k \in Keys(row)},
     subjects |-> {Subject(row.name, e) : e \in row.envs}]

AdminKeys  == {Key("telemeter", "read"), Key("rhobs", "read")}
AdminGroup == [kind |-> "group", name |-> <<"team", "monitoring@redhat.com">>]
AdminBinding ==
    [name     |-> <<"rhobs", "admin">>,
     roles    |-> {RoleName(k) : k \in AdminKeys},
     subjects |-> {AdminGroup}]

-----------------------------------------------------------------------------
TypeOK ==
    /\ table \in Table
    /\ next \in 1..(Len(table.rows) + 1)
    /\ admin \in BOOLEAN
    /\ status \in {"generating", "written", "panicked"}
    /\ mapped \subseteq Tenant \X Perm
    /\ Roles \subseteq [name : RoleNames, tenant : Tenant, perm : Perm]
    /\ RoleBindings \subseteq [name     : Name,
                               roles    : SUBSET RoleNames,
                               subjects : SUBSET [kind : {"user", "group"},
                                                  name : Name]]

Init ==
    /\ table \in Tables
    /\ next = 1
    /\ admin = FALSE
    /\ status = "generating"
    /\ mapped = {}
    /\ Roles = {}
    /\ RoleBindings = {}

Reserve(ks) ==
    /\ Roles' = Roles \cup {RoleFor(k) : k \in Missing(ks)}
    /\ mapped' = mapped \cup ks

AtAdmin == ~admin /\ next = table.admin
Current == table.rows[next]

AppendAdmin ==
    /\ status = "generating" /\ AtAdmin
    /\ Reserve(AdminKeys)
    /\ RoleBindings' = RoleBindings \cup {AdminBinding}
    /\ admin' = TRUE
    /\ UNCHANGED <<table, next, status>>

\* Mutant: names are compared up to the shorter of the two.
DuplicateByPrefix(row) ==
    \E b \in RoleBindings :
        /\ Len(b.name) <= Len(row.name)
        /\ \A i \in 1..Len(b.name) : b.name[i] = row.name[i]
Duplicate(row) == \E b \in RoleBindings : b.name = row.name

\* The check is made in the loop over the environments.
\* Mutant: it is not made at all.
NeverBreaks(row) == FALSE
BreaksConvention(row) ==
    /\ row.envs # {}
    /\ ~FollowsConvention(row.name)
    /\ ~row.skip

\* attachBinding.  A panic leaves the generator before gen.Add: no file.
AttachBinding ==
    /\ status = "generating" /\ ~AtAdmin
    /\ next <= Len(table.rows)
    /\ ~Duplicate(Current)
    /\ Reserve(Keys(Current))
    /\ IF BreaksConvention(Current)
       THEN /\ status' = "panicked"
            /\ UNCHANGED <<next, RoleBindings>>
       ELSE /\ RoleBindings' = RoleBindings \cup {Binding(Current)}
            /\ next' = next + 1
            /\ UNCHANGED status
    /\ UNCHANGED <<table, admin>>

DuplicateName ==
    /\ status = "generating" /\ ~AtAdmin
    /\ next <= Len(table.rows)
    /\ Duplicate(Current)
    /\ status' = "panicked"
    /\ UNCHANGED <<table, next, admin, mapped, Roles, RoleBindings>>

\* gen.Add("rbac.json", ...)
WriteFile ==
    /\ status = "generating" /\ ~AtAdmin
    /\ next > Len(table.rows)
    /\ status' = "written"
    /\ UNCHANGED <<table, next, admin, mapped, Roles, RoleBindings>>

Next == AppendAdmin \/ AttachBinding \/ DuplicateName \/ WriteFile
Spec == Init /\ [][Next]_vars

-----------------------------------------------------------------------------
Deployed == {"staging", "production"}
Bind(name, tenant, perms, envs) ==
    [name |-> name, tenant |-> tenant, perms |-> perms, envs |-> envs,
     skip |-> FALSE]
OptOut(name, tenant, perms, envs) ==
    [Bind(name, tenant, perms, envs) EXCEPT !.skip = TRUE]

\* The calls of GenerateRBAC up to the admin binding, and those after it.
RowsBeforeAdmin == <<
    Bind(<<"observatorium", "cnv", "qe">>, "cnvqe", Perm, Deployed),
    Bind(<<"observatorium", "starburst", "isv", "write">>, "rhods", {"write"}, {"staging"}),
    Bind(<<"observatorium", "starburst", "isv", "read">>, "rhods", {"read"}, {"staging"}),
    Bind(<<"observatorium", "rhacs", "metrics">>, "rhacs", Perm, Deployed),
    Bind(<<"observatorium", "rhacs", "grafana">>, "rhacs", {"read"}, Deployed),
    Bind(<<"observatorium", "rhobs">>, "rhobs", Perm, Env),
    Bind(<<"observatorium", "rhobs", "mst">>, "rhobs", Perm, Deployed) >>

RowsAfterAdmin == <<
    Bind(<<"telemeter", "service">>, "telemeter", Perm, Deployed),
    Bind(<<"observatorium", "ccx", "processing">>, "telemeter", {"read"}, Deployed),
    Bind(<<"observatorium", "sdtcs">>, "telemeter", {"read"}, Deployed),
    Bind(<<"observatorium", "subwatch">>, "telemeter", {"read"}, Deployed),
    Bind(<<"observatorium", "psiocp">>, "psiocp", Perm, {"staging"}),
    Bind(<<"observatorium", "odfms", "write">>, "odfms", {"write"}, {"production"}),
    Bind(<<"observatorium", "odfms", "read">>, "odfms", {"read"}, {"production"}),
    Bind(<<"observatorium", "odfms">>, "odfms", Perm, {"staging"}),
    Bind(<<"observatorium", "reference", "addon">>, "reference-addon", Perm, Deployed),
    OptOut(<<"7f7f912e-0429-4639-8e70-609ecf65b280">>, "telemeter", {"read"}, {"production"}),
    OptOut(<<"8f7aa5e1-aa08-493d-82eb-cf24834fc08f">>, "telemeter", {"read"}, {"production"}),
    Bind(<<"observatorium", "rhtap">>, "rhtap", Perm, Deployed),
    Bind(<<"observatorium", "rhel", "read">>, "rhel", {"read"}, Deployed),
    Bind(<<"observatorium", "rhel", "write">>, "rhel", {"write"}, Deployed) >>

GenerateRBAC ==
    [rows |-> RowsBeforeAdmin \o RowsAfterAdmin,
     admin |-> Len(RowsBeforeAdmin) + 1]

-----------------------------------------------------------------------------
(* What the API reads in the file: a subject has a permission on a tenant   *)
(* when a binding of the subject names a role that grants it.               *)
Grants(subject) ==
    {Key(r.tenant, r.perm) : r \in
        {s \in Roles : \E b \in RoleBindings :
                          subject \in b.subjects /\ s.name \in b.roles}}

\* The rows attached so far.
Attached == 1..(next - 1)

\* Whether every row that opts out of the naming check would have passed it.
OptOutsAreHarmless ==
    \A i \in Attached :
        table.rows[i].skip => FollowsConvention(table.rows[i].name)

\* While no opt-out hides a misnamed account, the account of a row in an
\* environment is granted exactly the permissions of that row on its tenant,
\* and the monitoring group exactly read on telemeter and rhobs: no binding
\* attached earlier or later, and no role another tenant created, changes it
\* (attachBinding's duplicate check and naming check, getOrCreateRoleName).
GrantsAsAsked ==
    OptOutsAreHarmless =>
        /\ \A i \in Attached : \A e \in table.rows[i].envs :
              Grants(Subject(table.rows[i].name, e)) = Keys(table.rows[i])
        /\ admin => Grants(AdminGroup) = AdminKeys

\* The table of the source is accepted: none of its calls panics, whatever row
\* follows it (mimic.Panicf in attachBinding ends the whole generation).
SourceTableIsAccepted ==
    /\ status = "panicked"
    /\ Len(table.rows) >= Len(GenerateRBAC.rows)
    => SubSeq(table.rows, 1, Len(GenerateRBAC.rows)) # GenerateRBAC.rows
       \/ next > Len(GenerateRBAC.rows)
=============================================================================
