------------------------- MODULE Pipeline_proofs --------------------------
(***************************************************************************)
(* Proofs about what stands between the sources and a tested commit: the   *)
(* RBAC generator, for every table of rows it may run; the working copies  *)
(* and commits in which it runs with the others (Generation), for any      *)
(* objectives and any number of edits; and the tests job of CI (CiScript), *)
(* for any namespaces and workloads.  With the generator of SLOs, whose    *)
(* proofs are in SLOs_proofs, they make up the pipeline.                   *)
(***************************************************************************)
EXTENDS MCPipeline, SLOs_proofs, SequenceTheorems, FunctionTheorems, FiniteSetTheorems, TLAPS

(* The RBAC generator (Rbac).                                               *)

\* The bindings are those of the rows attached and of the administrators.
BindingsInv ==
    \A b \in RoleBindings :
        \/ \E i \in Attached : b = Binding(table.rows[i])
        \/ admin /\ b = AdminBinding

AllBoundInv ==
    /\ \A i \in Attached : Binding(table.rows[i]) \in RoleBindings
    /\ admin => AdminBinding \in RoleBindings

\* A role exists for each key reserved, and for no other.
RolesInv == Roles = {RoleFor(k) : k \in mapped}

ReservedInv ==
    /\ \A i \in Attached : Keys(table.rows[i]) \subseteq mapped
    /\ admin => AdminKeys \subseteq mapped

\* What the two checks of attachBinding let through.
CheckedInv ==
    /\ \A i, j \in Attached :
          table.rows[i].name = table.rows[j].name => i = j
    /\ \A i \in Attached : ~BreaksConvention(table.rows[i])

RbacInv == /\ TypeOK
           /\ BindingsInv
           /\ AllBoundInv
           /\ RolesInv
           /\ ReservedInv
           /\ CheckedInv

RoleType    == [name : RoleNames, tenant : Tenant, perm : Perm]
BindingType == [name     : Name,
                roles    : SUBSET RoleNames,
                subjects : SUBSET [kind : {"user", "group"}, name : Name]]

-----------------------------------------------------------------------------
\* Two segments make a name.
LEMMA PairIsSeq ==
    ASSUME NEW S, NEW a \in S, NEW b \in S
    PROVE  <<a, b>> \in Seq(S) /\ <<a, b>> # <<>>
  OBVIOUS

\* The parts of a key.
LEMMA PairParts ==
    ASSUME NEW S, NEW T, NEW k \in S \X T
    PROVE  k[1] \in S /\ k[2] \in T /\ k = <<k[1], k[2]>>
  OBVIOUS

\* The role of a key is a role (getOrCreateRoleName).
LEMMA RoleForType ==
    ASSUME NEW k \in Tenant \X Perm
    PROVE  RoleName(k) \in RoleNames /\ RoleFor(k) \in RoleType
<1>1. k[1] \in Tenant /\ k[2] \in Perm
  BY PairParts
<1>2. RoleName(k) \in RoleNames
  BY <1>1 DEF RoleName, RoleNames
<1> QED
  BY <1>1, <1>2 DEF RoleFor, RoleType

\* The names of the admin binding and of its group are names.
LEMMA AdminNames ==
    /\ <<"rhobs", "admin">> \in Name
    /\ <<"team", "monitoring@redhat.com">> \in Name
  BY TablesAssumption, PairIsSeq DEF Name

-----------------------------------------------------------------------------
\* A key is determined by the name of its role (getOrCreateRoleName).
LEMMA RoleNameInjective ==
    ASSUME NEW k \in Tenant \X Perm, NEW m \in Tenant \X Perm,
           RoleName(k) = RoleName(m)
    PROVE  k = m
  BY DEF RoleName

\* Accounts whose names follow the convention share no subject (attachBinding).
LEMMA SubjectDeterminesName ==
    ASSUME NEW n \in Name, NEW m \in Name, NEW e \in Env, NEW f \in Env,
           FollowsConvention(n), FollowsConvention(m),
           Subject(n, e) = Subject(m, f)
    PROVE  n = m
<1> DEFINE a == IF e = "production" THEN n ELSE Append(n, e)
           b == IF f = "production" THEN m ELSE Append(m, f)
<1>1. a = b
  BY DEF Subject
<1>2. n \in Seq(Segment) /\ m \in Seq(Segment) /\ Len(n) > 0 /\ Len(m) > 0
  BY DEF Name
<1>3. n[Len(n)] \notin Env /\ m[Len(m)] \notin Env
  BY DEF FollowsConvention
<1>4. e \in Segment /\ f \in Segment
  BY TablesAssumption DEF Env
<1>5. CASE e = "production" /\ f = "production"
  BY <1>1, <1>5
<1>6. CASE e = "production" /\ f # "production"
  <2>1. n = Append(m, f)
    BY <1>1, <1>6
  <2>2. n[Len(n)] = f
    BY <2>1, <1>2, <1>4
  <2> QED
    BY <2>2, <1>3
<1>7. CASE e # "production" /\ f = "production"
  <2>1. m = Append(n, e)
    BY <1>1, <1>7
  <2>2. m[Len(m)] = e
    BY <2>1, <1>2, <1>4
  <2> QED
    BY <2>2, <1>3
<1>8. CASE e # "production" /\ f # "production"
  <2>1. Append(n, e) = Append(m, f)
    BY <1>1, <1>8
  <2>2. Len(n) = Len(m)
    BY <2>1, <1>2, <1>4
  <2>3. \A i \in 1..Len(n) : n[i] = m[i]
    BY <2>1, <2>2, <1>2, <1>4
  <2> QED
    BY <2>2, <2>3, <1>2
<1> QED
  BY <1>5, <1>6, <1>7, <1>8

\* A subject that one binding only names is granted that binding's keys.
LEMMA GrantsOfOneBinding ==
    ASSUME mapped \subseteq Tenant \X Perm, RolesInv,
           NEW s, NEW b \in RoleBindings, s \in b.subjects,
           \A c \in RoleBindings : s \in c.subjects => c = b,
           NEW ks \in SUBSET mapped,
           b.roles = {RoleName(k) : k \in ks}
    PROVE  Grants(s) = ks
<1>1. ASSUME NEW k \in ks
      PROVE  k \in Grants(s)
  <2>1. RoleFor(k) \in Roles /\ RoleFor(k).name \in b.roles
    BY DEF RolesInv, RoleFor
  <2>2. k = Key(RoleFor(k).tenant, RoleFor(k).perm)
    BY DEF RoleFor, Key
  <2> QED
    BY <2>1, <2>2 DEF Grants
<1>2. ASSUME NEW g \in Grants(s)
      PROVE  g \in ks
  <2>1. PICK r \in Roles : /\ g = Key(r.tenant, r.perm)
                           /\ r.name \in b.roles
    BY <1>2 DEF Grants
  <2>2. PICK m \in mapped : r = RoleFor(m)
    BY <2>1 DEF RolesInv
  <2>3. PICK k \in ks : RoleName(k) = RoleName(m)
    BY <2>1, <2>2 DEF RoleFor
  <2>4. k = m
    BY <2>3, RoleNameInjective
  <2>5. g = m
    BY <2>1, <2>2 DEF RoleFor, Key
  <2> QED
    BY <2>4, <2>5
<1> QED
  BY <1>1, <1>2

-----------------------------------------------------------------------------
\* The empty file satisfies the invariant.
LEMMA InitEstablishes == Init => RbacInv
<1> SUFFICES ASSUME Init
             PROVE  RbacInv
  OBVIOUS
<1>1. table \in Table /\ Len(table.rows) \in Nat
  BY TablesAssumption DEF Init, Table
<1>2. TypeOK
  <2>1. next \in 1..(Len(table.rows) + 1)
    BY <1>1 DEF Init
  <2>2. mapped = {} /\ Roles = {} /\ RoleBindings = {}
    BY DEF Init
  <2>3. admin \in BOOLEAN /\ status \in {"generating", "written", "panicked"}
    BY DEF Init
  <2> QED
    BY <1>1, <2>1, <2>2, <2>3 DEF TypeOK
<1>3. Attached = {}
  BY DEF Init, Attached
<1> QED
  BY <1>2, <1>3
  DEF Init, RbacInv, BindingsInv, AllBoundInv, RolesInv, ReservedInv,
      CheckedInv

\* The row to attach next is one of the table's.
LEMMA CurrentIsRow ==
    ASSUME TypeOK, next <= Len(table.rows)
    PROVE  /\ Current \in Row
           /\ Keys(Current) \subseteq Tenant \X Perm
<1>1. Current \in Row
  BY DEF TypeOK, Table, Current
<1> QED
  BY <1>1 DEF Row, Keys, Key

\* Reserving keys leaves a role for each key, and for no other.
LEMMA ReserveKeepsRoles ==
    ASSUME RolesInv, NEW ks, Reserve(ks)
    PROVE  RolesInv'
  BY DEF RolesInv, Reserve, Missing

\* The admin binding needs no check: it takes no account's subject.
LEMMA AppendAdminKeeps == RbacInv /\ AppendAdmin => RbacInv'
<1> SUFFICES ASSUME RbacInv, AppendAdmin
             PROVE  RbacInv'
  OBVIOUS
<1>1. AdminKeys \subseteq Tenant \X Perm
  BY TablesAssumption DEF AdminKeys, Key, Perm
<1>2. RolesInv'
  BY ReserveKeepsRoles DEF RbacInv, AppendAdmin
<1>3. mapped' \subseteq Tenant \X Perm
  BY <1>1 DEF RbacInv, TypeOK, AppendAdmin, Reserve
<1>5. Roles' \subseteq RoleType
  BY <1>2, <1>3, RoleForType DEF RolesInv
<1>6. AdminBinding \in BindingType
  <2>1. AdminGroup \in [kind : {"user", "group"}, name : Name]
    BY AdminNames DEF AdminGroup
  <2>2. {RoleName(k) : k \in AdminKeys} \subseteq RoleNames
    BY <1>1, RoleForType
  <2> QED
    BY <2>1, <2>2, AdminNames DEF AdminBinding, BindingType
<1>7. TypeOK'
  BY <1>3, <1>5, <1>6
  DEF RbacInv, TypeOK, AppendAdmin, RoleType, BindingType
<1>8. Attached' = Attached /\ table' = table
  BY DEF AppendAdmin, Attached
<1>9. BindingsInv' /\ AllBoundInv'
  BY <1>8 DEF RbacInv, AppendAdmin, BindingsInv, AllBoundInv
<1>10. ReservedInv'
  BY <1>8 DEF RbacInv, AppendAdmin, Reserve, ReservedInv
<1>11. CheckedInv'
  BY <1>8 DEF RbacInv, CheckedInv, BreaksConvention
<1> QED
  BY <1>2, <1>7, <1>9, <1>10, <1>11 DEF RbacInv

\* A row that passes both checks keeps the invariant, as does one that does not.
LEMMA AttachBindingKeeps == RbacInv /\ AttachBinding => RbacInv'
<1> SUFFICES ASSUME RbacInv, AttachBinding
             PROVE  RbacInv'
  OBVIOUS
<1>1. Current \in Row /\ Keys(Current) \subseteq Tenant \X Perm
  BY CurrentIsRow DEF RbacInv, AttachBinding
<1>2. RolesInv'
  BY ReserveKeepsRoles DEF RbacInv, AttachBinding
<1>3. mapped' = mapped \cup Keys(Current) /\ mapped' \subseteq Tenant \X Perm
  BY <1>1 DEF RbacInv, TypeOK, AttachBinding, Reserve
<1>5. Roles' \subseteq RoleType
  BY <1>2, <1>3, RoleForType DEF RolesInv
<1>6. Binding(Current) \in BindingType
  <2>1. \A e \in Env : Subject(Current.name, e)
                         \in [kind : {"user", "group"}, name : Name]
    <3>1. ASSUME NEW e \in Env
          PROVE  Append(Current.name, e) \in Name
      BY <1>1, <3>1, TablesAssumption DEF Row, Name, Env
    <3> QED
      BY <3>1, <1>1 DEF Subject, Row
  <2>2. {RoleName(k) : k \in Keys(Current)} \subseteq RoleNames
    BY <1>1, RoleForType
  <2> QED
    BY <2>1, <2>2, <1>1 DEF Binding, BindingType, Row
<1>7. table' = table /\ admin' = admin /\ next \in Nat \ {0}
      /\ next <= Len(table.rows) /\ Len(table.rows) \in Nat
  BY DEF RbacInv, TypeOK, Table, AttachBinding
<1>8. TypeOK'
  BY <1>3, <1>5, <1>6, <1>7
  DEF RbacInv, TypeOK, AttachBinding, RoleType, BindingType
<1>9. CASE BreaksConvention(Current)
  <2>1. UNCHANGED <<table, next, admin, RoleBindings>>
    BY <1>9 DEF AttachBinding
  <2>2. Attached' = Attached
    BY <2>1 DEF Attached
  <2> QED
    BY <1>2, <1>3, <1>8, <2>1, <2>2
    DEF RbacInv, BindingsInv, AllBoundInv, ReservedInv, CheckedInv,
        BreaksConvention
<1>10. CASE ~BreaksConvention(Current)
  <2>1. /\ RoleBindings' = RoleBindings \cup {Binding(Current)}
        /\ next' = next + 1
    BY <1>10 DEF AttachBinding
  <2>2. Attached' = Attached \cup {next} /\ next \notin Attached
    BY <1>7, <2>1 DEF Attached
  <2>3. Current = table'.rows[next]
    BY <1>7 DEF Current
  <2>4. BindingsInv'
    BY <1>7, <2>1, <2>2, <2>3 DEF RbacInv, BindingsInv
  <2>5. AllBoundInv'
    BY <1>7, <2>1, <2>2, <2>3 DEF RbacInv, AllBoundInv
  <2>6. ReservedInv'
    BY <1>3, <1>7, <2>2, <2>3 DEF RbacInv, ReservedInv
  <2>7. \A i \in Attached : table.rows[i].name # Current.name
    <3>1. \A i \in Attached : Binding(table.rows[i]).name = table.rows[i].name
      BY DEF Binding
    <3> QED
      BY <3>1 DEF RbacInv, AllBoundInv, AttachBinding, Duplicate
  <2>8. CheckedInv'
    <3>1. \A i, j \in Attached' :
             table.rows[i].name = table.rows[j].name => i = j
      BY <2>2, <2>7 DEF RbacInv, CheckedInv, Current
    <3>2. \A i \in Attached' : ~BreaksConvention(table.rows[i])
      BY <1>10, <2>2 DEF RbacInv, CheckedInv, Current
    <3> QED
      BY <3>1, <3>2, <1>7 DEF CheckedInv, BreaksConvention
  <2> QED
    BY <1>2, <1>8, <2>4, <2>5, <2>6, <2>8 DEF RbacInv
<1> QED
  BY <1>9, <1>10

\* Every reachable state satisfies the inductive invariant.
THEOREM RbacInvariant == Spec => []RbacInv
<1>1. RbacInv /\ [Next]_vars => RbacInv'
  <2> SUFFICES ASSUME RbacInv, [Next]_vars
               PROVE  RbacInv'
    OBVIOUS
  <2>1. ASSUME UNCHANGED <<table, next, admin, mapped, Roles, RoleBindings>>,
               status' \in {"generating", "written", "panicked"}
        PROVE  RbacInv'
    <3>1. TypeOK'
      BY <2>1 DEF RbacInv, TypeOK
    <3>2. Attached' = Attached
      BY <2>1 DEF Attached
    <3> QED
      BY <2>1, <3>1, <3>2
      DEF RbacInv, BindingsInv, AllBoundInv, RolesInv, ReservedInv,
          CheckedInv, BreaksConvention
  <2>2. CASE DuplicateName
    BY <2>1, <2>2 DEF DuplicateName
  <2>3. CASE WriteFile
    BY <2>1, <2>3 DEF WriteFile
  <2>4. CASE UNCHANGED vars
    BY <2>1, <2>4 DEF vars, RbacInv, TypeOK
  <2> QED
    BY AppendAdminKeeps, AttachBindingKeeps, <2>2, <2>3, <2>4 DEF Next
<1> QED
  BY InitEstablishes, <1>1, PTL DEF Spec

\* Whatever the table, each service account is granted what its own row asks
\* for and nothing else, and the monitoring group its two permissions.
THEOREM AccountsGetWhatTheirRowAsks == Spec => []GrantsAsAsked
<1>1. RbacInv => GrantsAsAsked
  <2> SUFFICES ASSUME RbacInv, OptOutsAreHarmless
               PROVE  /\ \A i \in Attached : \A e \in table.rows[i].envs :
                            Grants(Subject(table.rows[i].name, e))
                              = Keys(table.rows[i])
                      /\ admin => Grants(AdminGroup) = AdminKeys
    BY DEF GrantsAsAsked
  <2> DEFINE row(i) == table.rows[i]
  <2>1. \A i \in Attached : row(i) \in Row
    BY DEF RbacInv, TypeOK, Table, Attached
  <2>2. ASSUME NEW i \in Attached, NEW e \in row(i).envs
        PROVE  Grants(Subject(row(i).name, e)) = Keys(row(i))
    <3> DEFINE s == Subject(row(i).name, e)
               b == Binding(row(i))
    <3>1. b \in RoleBindings /\ s \in b.subjects
      BY <2>2 DEF RbacInv, AllBoundInv, Binding
    <3>2. \A j \in Attached : row(j).envs # {} => FollowsConvention(row(j).name)
      BY DEF RbacInv, CheckedInv, BreaksConvention, OptOutsAreHarmless
    <3>3. ASSUME NEW c \in RoleBindings, s \in c.subjects
          PROVE  c = b
      <4>1. c # AdminBinding
        BY <3>3 DEF AdminBinding, AdminGroup, Subject
      <4>2. PICK j \in Attached : c = Binding(row(j))
        BY <4>1 DEF RbacInv, BindingsInv
      <4>3. PICK f \in row(j).envs : s = Subject(row(j).name, f)
        BY <3>3, <4>2 DEF Binding
      <4>4. row(i).name = row(j).name
        BY <2>1, <2>2, <3>2, <4>3, SubjectDeterminesName DEF Row
      <4>5. i = j
        BY <4>4 DEF RbacInv, CheckedInv
      <4> QED
        BY <4>2, <4>5
    <3>4. Keys(row(i)) \in SUBSET mapped
      BY DEF RbacInv, ReservedInv
    <3>5. b.roles = {RoleName(k) : k \in Keys(row(i))}
      BY DEF Binding
    <3> HIDE DEF s, b
    <3>6. mapped \subseteq Tenant \X Perm /\ RolesInv
      BY DEF RbacInv, TypeOK
    <3>7. Grants(s) = Keys(row(i))
      BY <3>1, <3>3, <3>4, <3>5, <3>6, GrantsOfOneBinding
    <3> QED
      BY <3>7 DEF s
  <2>3. ASSUME admin
        PROVE  Grants(AdminGroup) = AdminKeys
    <3>1. AdminBinding \in RoleBindings /\ AdminGroup \in AdminBinding.subjects
      BY <2>3 DEF RbacInv, AllBoundInv, AdminBinding
    <3>2. ASSUME NEW c \in RoleBindings, AdminGroup \in c.subjects
          PROVE  c = AdminBinding
      BY <3>2 DEF RbacInv, BindingsInv, Binding, Subject, AdminGroup
    <3>3. AdminKeys \in SUBSET mapped
      BY <2>3 DEF RbacInv, ReservedInv
    <3>4. AdminBinding.roles = {RoleName(k) : k \in AdminKeys}
      BY DEF AdminBinding
    <3>5. mapped \subseteq Tenant \X Perm /\ RolesInv
      BY DEF RbacInv, TypeOK
    <3> QED
      BY <3>1, <3>2, <3>3, <3>4, <3>5, GrantsOfOneBinding
  <2> QED
    BY <2>2, <2>3
<1> QED
  BY RbacInvariant, <1>1, PTL

-----------------------------------------------------------------------------
\* What the names of the table of the source are told apart by.
NameIs(name, n, second, last) ==
    /\ Len(name) = n /\ name[n] = last
    /\ n >= 2 => name[2] = second

\* The rows before the admin binding.
LEMMA RowsBefore ==
  /\ Len(RowsBeforeAdmin) = 7
  /\ NameIs(RowsBeforeAdmin[1].name, 3, "cnv", "qe")
  /\ NameIs(RowsBeforeAdmin[2].name, 4, "starburst", "write")
  /\ NameIs(RowsBeforeAdmin[3].name, 4, "starburst", "read")
  /\ NameIs(RowsBeforeAdmin[4].name, 3, "rhacs", "metrics")
  /\ NameIs(RowsBeforeAdmin[5].name, 3, "rhacs", "grafana")
  /\ NameIs(RowsBeforeAdmin[6].name, 2, "rhobs", "rhobs")
  /\ NameIs(RowsBeforeAdmin[7].name, 3, "rhobs", "mst")
  BY DEF RowsBeforeAdmin, Bind, OptOut, NameIs

\* The rows after it.
LEMMA RowsAfter ==
  /\ Len(RowsAfterAdmin) = 14
  /\ NameIs(RowsAfterAdmin[1].name, 2, "service", "service")
  /\ NameIs(RowsAfterAdmin[2].name, 3, "ccx", "processing")
  /\ NameIs(RowsAfterAdmin[3].name, 2, "sdtcs", "sdtcs")
  /\ NameIs(RowsAfterAdmin[4].name, 2, "subwatch", "subwatch")
  /\ NameIs(RowsAfterAdmin[5].name, 2, "psiocp", "psiocp")
  /\ NameIs(RowsAfterAdmin[6].name, 3, "odfms", "write")
  /\ NameIs(RowsAfterAdmin[7].name, 3, "odfms", "read")
  /\ NameIs(RowsAfterAdmin[8].name, 2, "odfms", "odfms")
  /\ NameIs(RowsAfterAdmin[9].name, 3, "reference", "addon")
  /\ NameIs(RowsAfterAdmin[10].name, 1, "", "7f7f912e-0429-4639-8e70-609ecf65b280")
  /\ NameIs(RowsAfterAdmin[11].name, 1, "", "8f7aa5e1-aa08-493d-82eb-cf24834fc08f")
  /\ NameIs(RowsAfterAdmin[12].name, 2, "rhtap", "rhtap")
  /\ NameIs(RowsAfterAdmin[13].name, 3, "rhel", "read")
  /\ NameIs(RowsAfterAdmin[14].name, 3, "rhel", "write")
  BY DEF RowsAfterAdmin, Bind, OptOut, NameIs

\* The table of the source is the one followed by the other.
LEMMA SourceRows ==
  /\ Len(GenerateRBAC.rows) = 21
  /\ \A i \in 1 .. 7 : GenerateRBAC.rows[i] = RowsBeforeAdmin[i]
  /\ \A i \in 1 .. 14 : GenerateRBAC.rows[i + 7] = RowsAfterAdmin[i]
<1> DEFINE S == {RowsBeforeAdmin[i] : i \in 1 .. 7} \cup {RowsAfterAdmin[i] : i \in 1 .. 14}
           b == RowsBeforeAdmin
           a == RowsAfterAdmin
<1>1. b \in Seq(S) /\ Len(b) = 7
  <2>1. b = [i \in 1 .. 7 |-> b[i]]
    BY DEF RowsBeforeAdmin
  <2>2. \A i \in 1 .. 7 : b[i] \in S
    OBVIOUS
  <2> HIDE DEF S, b
  <2>3. b \in [1 .. 7 -> S]
    BY <2>1, <2>2
  <2> QED
    BY <2>3, 7 \in Nat, SeqDef, RowsBefore DEF b
<1>2. a \in Seq(S) /\ Len(a) = 14
  <2>1. a = [i \in 1 .. 14 |-> a[i]]
    BY DEF RowsAfterAdmin
  <2>2. \A i \in 1 .. 14 : a[i] \in S
    OBVIOUS
  <2> HIDE DEF S, a
  <2>3. a \in [1 .. 14 -> S]
    BY <2>1, <2>2
  <2> QED
    BY <2>3, 14 \in Nat, SeqDef, RowsAfter DEF a
<1>3. GenerateRBAC.rows = b \o a
  BY DEF GenerateRBAC
<1> HIDE DEF S, a, b
<1>4. /\ Len(b \o a) = Len(b) + Len(a)
      /\ \A i \in 1 .. Len(b) + Len(a) :
            (b \o a)[i] = IF i <= Len(b) THEN b[i] ELSE a[i - Len(b)]
  BY <1>1, <1>2, ConcatProperties
<1>5. /\ Len(b \o a) = 21
      /\ \A i \in 1 .. 21 : (b \o a)[i] = IF i <= 7 THEN b[i] ELSE a[i - 7]
  BY <1>1, <1>2, <1>4, 7 + 14 = 21
<1>6. ASSUME NEW i \in 1 .. 14
      PROVE  (b \o a)[i + 7] = a[i]
  <2>1. i + 7 \in 1 .. 21 /\ ~ (i + 7 <= 7) /\ (i + 7) - 7 = i
    OBVIOUS
  <2> QED
    BY <2>1, <1>5
<1>7. a = RowsAfterAdmin /\ b = RowsBeforeAdmin
  BY DEF a, b
<1>8. ASSUME NEW i \in 1 .. 7
      PROVE  (b \o a)[i] = b[i]
  <2>1. i \in 1 .. 21 /\ i <= 7
    OBVIOUS
  <2> QED
    BY <2>1, <1>5
<1> QED
  BY <1>3, <1>5, <1>6, <1>7, <1>8

\* What the names of the whole table are told apart by.
LEMMA SourceNames ==
  /\ NameIs(GenerateRBAC.rows[1].name, 3, "cnv", "qe")
  /\ NameIs(GenerateRBAC.rows[2].name, 4, "starburst", "write")
  /\ NameIs(GenerateRBAC.rows[3].name, 4, "starburst", "read")
  /\ NameIs(GenerateRBAC.rows[4].name, 3, "rhacs", "metrics")
  /\ NameIs(GenerateRBAC.rows[5].name, 3, "rhacs", "grafana")
  /\ NameIs(GenerateRBAC.rows[6].name, 2, "rhobs", "rhobs")
  /\ NameIs(GenerateRBAC.rows[7].name, 3, "rhobs", "mst")
  /\ NameIs(GenerateRBAC.rows[8].name, 2, "service", "service")
  /\ NameIs(GenerateRBAC.rows[9].name, 3, "ccx", "processing")
  /\ NameIs(GenerateRBAC.rows[10].name, 2, "sdtcs", "sdtcs")
  /\ NameIs(GenerateRBAC.rows[11].name, 2, "subwatch", "subwatch")
  /\ NameIs(GenerateRBAC.rows[12].name, 2, "psiocp", "psiocp")
  /\ NameIs(GenerateRBAC.rows[13].name, 3, "odfms", "write")
  /\ NameIs(GenerateRBAC.rows[14].name, 3, "odfms", "read")
  /\ NameIs(GenerateRBAC.rows[15].name, 2, "odfms", "odfms")
  /\ NameIs(GenerateRBAC.rows[16].name, 3, "reference", "addon")
  /\ NameIs(GenerateRBAC.rows[17].name, 1, "", "7f7f912e-0429-4639-8e70-609ecf65b280")
  /\ NameIs(GenerateRBAC.rows[18].name, 1, "", "8f7aa5e1-aa08-493d-82eb-cf24834fc08f")
  /\ NameIs(GenerateRBAC.rows[19].name, 2, "rhtap", "rhtap")
  /\ NameIs(GenerateRBAC.rows[20].name, 3, "rhel", "read")
  /\ NameIs(GenerateRBAC.rows[21].name, 3, "rhel", "write")
<1>1. /\ 1 + 7 = 8 /\ 2 + 7 = 9 /\ 3 + 7 = 10 /\ 4 + 7 = 11 /\ 5 + 7 = 12 /\ 6 + 7 = 13
      /\ 7 + 7 = 14 /\ 8 + 7 = 15 /\ 9 + 7 = 16 /\ 10 + 7 = 17 /\ 11 + 7 = 18
      /\ 12 + 7 = 19 /\ 13 + 7 = 20 /\ 14 + 7 = 21
  OBVIOUS
<1>2. /\ GenerateRBAC.rows[1] = RowsBeforeAdmin[1]
      /\ GenerateRBAC.rows[2] = RowsBeforeAdmin[2]
      /\ GenerateRBAC.rows[3] = RowsBeforeAdmin[3]
      /\ GenerateRBAC.rows[4] = RowsBeforeAdmin[4]
      /\ GenerateRBAC.rows[5] = RowsBeforeAdmin[5]
      /\ GenerateRBAC.rows[6] = RowsBeforeAdmin[6]
      /\ GenerateRBAC.rows[7] = RowsBeforeAdmin[7]
      /\ GenerateRBAC.rows[8] = RowsAfterAdmin[1]
      /\ GenerateRBAC.rows[9] = RowsAfterAdmin[2]
      /\ GenerateRBAC.rows[10] = RowsAfterAdmin[3]
      /\ GenerateRBAC.rows[11] = RowsAfterAdmin[4]
      /\ GenerateRBAC.rows[12] = RowsAfterAdmin[5]
      /\ GenerateRBAC.rows[13] = RowsAfterAdmin[6]
      /\ GenerateRBAC.rows[14] = RowsAfterAdmin[7]
      /\ GenerateRBAC.rows[15] = RowsAfterAdmin[8]
      /\ GenerateRBAC.rows[16] = RowsAfterAdmin[9]
      /\ GenerateRBAC.rows[17] = RowsAfterAdmin[10]
      /\ GenerateRBAC.rows[18] = RowsAfterAdmin[11]
      /\ GenerateRBAC.rows[19] = RowsAfterAdmin[12]
      /\ GenerateRBAC.rows[20] = RowsAfterAdmin[13]
      /\ GenerateRBAC.rows[21] = RowsAfterAdmin[14]
  BY <1>1, SourceRows
<1> QED
  BY <1>2, RowsBefore, RowsAfter, Zenon

\* No two of its rows have the same name, nor has one that of the admin
\* binding, and none ends in an environment.
LEMMA SourceNamesDiffer ==
  /\ \A i \in 1 .. 21 :
        /\ FollowsConvention(GenerateRBAC.rows[i].name)
        /\ GenerateRBAC.rows[i].name # AdminBinding.name
  /\ \A i, j \in 1 .. 21 :
        GenerateRBAC.rows[i].name = GenerateRBAC.rows[j].name => i = j
<1> DEFINE n(i)      == GenerateRBAC.rows[i].name
           len(i)    == Len(n(i))
           last(i)   == n(i)[Len(n(i))]
           second(i) == n(i)[2]
<1>0. \A i \in 1 .. 21 :
         \/ i = 1 \/ i = 2 \/ i = 3 \/ i = 4 \/ i = 5 \/ i = 6 \/ i = 7
         \/ i = 8 \/ i = 9 \/ i = 10 \/ i = 11 \/ i = 12 \/ i = 13 \/ i = 14
         \/ i = 15 \/ i = 16 \/ i = 17 \/ i = 18 \/ i = 19 \/ i = 20 \/ i = 21
  OBVIOUS
<1>1. /\ len(1) = 3 /\ last(1) = "qe"
      /\ len(2) = 4 /\ last(2) = "write"
      /\ len(3) = 4 /\ last(3) = "read"
      /\ len(4) = 3 /\ last(4) = "metrics"
      /\ len(5) = 3 /\ last(5) = "grafana"
      /\ len(6) = 2 /\ last(6) = "rhobs"
      /\ len(7) = 3 /\ last(7) = "mst"
      /\ len(8) = 2 /\ last(8) = "service"
      /\ len(9) = 3 /\ last(9) = "processing"
      /\ len(10) = 2 /\ last(10) = "sdtcs"
      /\ len(11) = 2 /\ last(11) = "subwatch"
      /\ len(12) = 2 /\ last(12) = "psiocp"
      /\ len(13) = 3 /\ last(13) = "write" /\ second(13) = "odfms"
      /\ len(14) = 3 /\ last(14) = "read" /\ second(14) = "odfms"
      /\ len(15) = 2 /\ last(15) = "odfms"
      /\ len(16) = 3 /\ last(16) = "addon"
      /\ len(17) = 1 /\ last(17) = "7f7f912e-0429-4639-8e70-609ecf65b280"
      /\ len(18) = 1 /\ last(18) = "8f7aa5e1-aa08-493d-82eb-cf24834fc08f"
      /\ len(19) = 2 /\ last(19) = "rhtap"
      /\ len(20) = 3 /\ last(20) = "read" /\ second(20) = "rhel"
      /\ len(21) = 3 /\ last(21) = "write" /\ second(21) = "rhel"
  BY SourceNames DEF NameIs
<1>2. \A i, j \in 1 .. 21 :
         n(i) = n(j) => len(i) = len(j) /\ last(i) = last(j) /\ second(i) = second(j)
  OBVIOUS
<1>3. /\ \A i \in 1 .. 21 : last(i) \notin Env => FollowsConvention(n(i))
      /\ \A i \in 1 .. 21 : n(i) = AdminBinding.name => last(i) = "admin"
  <2>1. AdminBinding.name[Len(AdminBinding.name)] = "admin"
    BY DEF AdminBinding
  <2> QED
    BY <2>1 DEF FollowsConvention
<1> HIDE DEF n, len, last, second
<1>4. ASSUME NEW i \in 1 .. 21
      PROVE  last(i) \notin Env /\ last(i) # "admin"
  BY <1>0, <1>1 DEF Env
<1>5. ASSUME NEW i \in 1 .. 21, NEW j \in 1 .. 21, n(i) = n(j)
      PROVE  i = j
  <2>1. len(i) = len(j) /\ last(i) = last(j) /\ second(i) = second(j)
    BY <1>2, <1>5
  <2> QED
    BY <2>1, <1>0, <1>1
<1> QED
  BY <1>3, <1>4, <1>5 DEF n

\* A panic is the doing of the row it came at.
PanicInv ==
    status = "panicked" =>
        next <= Len(table.rows) /\ (Duplicate(Current) \/ BreaksConvention(Current))

\* A panic leaves the rows and the bindings as they were.
LEMMA PanicKeeps == RbacInv /\ PanicInv /\ [Next]_vars => PanicInv'
<1> SUFFICES ASSUME RbacInv, PanicInv, [Next]_vars, status' = "panicked"
             PROVE  next' <= Len(table'.rows)
                       /\ (Duplicate(Current)' \/ BreaksConvention(Current)')
  BY DEF PanicInv
<1>1. ASSUME UNCHANGED <<table, next, RoleBindings>>
      PROVE  /\ Current' = Current
             /\ Duplicate(Current)' <=> Duplicate(Current)
             /\ BreaksConvention(Current)' <=> BreaksConvention(Current)
  BY <1>1 DEF Current, Duplicate, BreaksConvention, FollowsConvention
<1>2. CASE AppendAdmin
  BY <1>2 DEF AppendAdmin
<1>3. CASE AttachBinding
  <2>1. BreaksConvention(Current) /\ UNCHANGED <<table, next, RoleBindings>>
        /\ next <= Len(table.rows)
    BY <1>3 DEF AttachBinding
  <2> QED
    BY <2>1, <1>1
<1>4. CASE DuplicateName
  BY <1>4, <1>1 DEF DuplicateName
<1>5. CASE WriteFile
  BY <1>5 DEF WriteFile
<1>6. CASE UNCHANGED vars
  BY <1>6, <1>1 DEF vars, PanicInv
<1> QED
  BY <1>2, <1>3, <1>4, <1>5, <1>6 DEF Next

\* The generator that was committed writes its file, and goes on doing so for
\* any rows that are added after its own.
THEOREM TheSourceIsAccepted == Spec => []SourceTableIsAccepted
<1>1. Init => PanicInv
  BY DEF Init, PanicInv
<1>2. RbacInv /\ PanicInv => SourceTableIsAccepted
  <2> DEFINE R == GenerateRBAC.rows
  <2> SUFFICES ASSUME RbacInv, PanicInv
               PROVE  SourceTableIsAccepted
    OBVIOUS
  <2> SUFFICES ASSUME status = "panicked", Len(table.rows) >= Len(R),
                      SubSeq(table.rows, 1, Len(R)) = R, next <= Len(R)
               PROVE  FALSE
    <3>1. Len(R) = 21
      BY SourceRows
    <3>2. Len(table.rows) \in Nat /\ next \in 1 .. (Len(table.rows) + 1)
      BY DEF RbacInv, TypeOK, Table
    <3> HIDE DEF R
    <3>3. next \in Int /\ (~ (next > Len(R)) => next <= Len(R))
      BY <3>1, <3>2
    <3> QED
      BY <3>3 DEF SourceTableIsAccepted, R
  <2>1. Len(R) = 21 /\ next \in 1 .. 21 /\ Attached = 1 .. next - 1
        /\ table.rows \in Seq(Row)
    <3>1. Len(R) = 21
      BY SourceRows
    <3>2. /\ next \in 1 .. (Len(table.rows) + 1) /\ table.rows \in Seq(Row)
          /\ Len(table.rows) \in Nat /\ Attached = 1 .. next - 1
      BY DEF RbacInv, TypeOK, Attached, Table
    <3> HIDE DEF R
    <3> QED
      BY <3>1, <3>2
  <2>2. \A i \in 1 .. 21 : table.rows[i] = R[i]
    <3>1. \A i \in 1 .. 21 : SubSeq(table.rows, 1, 21)[i] = table.rows[i]
      BY <2>1, SubSeqProperties
    <3> QED
      BY <3>1, <2>1
  <2> HIDE DEF R
  <2>3. Current = R[next]
    BY <2>1, <2>2 DEF Current
  <2>4. ~ BreaksConvention(Current)
    BY <2>1, <2>3, SourceNamesDiffer DEF BreaksConvention, R
  <2>5. PICK b \in RoleBindings : b.name = Current.name
    BY <2>4 DEF PanicInv, Duplicate
  <2>6. CASE \E i \in Attached : b = Binding(table.rows[i])
    <3>1. PICK i \in Attached : b = Binding(table.rows[i])
      BY <2>6
    <3>2. i \in 1 .. 21 /\ i # next
      <4>1. next \in 1 .. 21 /\ i \in 1 .. next - 1
        BY <2>1
      <4> QED
        BY <4>1
    <3>3. R[i].name = R[next].name
      BY <3>1, <3>2, <2>2, <2>3, <2>5 DEF Binding
    <3> QED
      BY <3>2, <3>3, <2>1, SourceNamesDiffer DEF R
  <2>7. CASE b = AdminBinding
    BY <2>1, <2>3, <2>5, <2>7, SourceNamesDiffer DEF R
  <2> QED
    BY <2>5, <2>6, <2>7 DEF RbacInv, BindingsInv
<1> QED
  BY <1>1, <1>2, PanicKeeps, RbacInvariant, PTL DEF Spec

-----------------------------------------------------------------------------
(* The working copy and the build job (Generation).                         *)

AllGenerators == {"slo", "rbac", "services"}
Sources == [rbac : Nat, jsonnet : Nat, lib : Nat, services : Nat, rows : SUBSET Objectives,
            broken : AllGenerators \cup {"jsonnet", "nothing"}]
PyrraFiles == {Pyrra(o) : o \in Objectives}
Trackable  == {TemplateFile, ManifestFile, RuleFile} \cup PyrraFiles

\* Only make prometheusrules removes a file, and only the rules.
FilesInv ==
    /\ src \in Sources /\ committed.src \in Sources
    /\ edits \in Nat /\ jsonOld \in BOOLEAN /\ templateOld \in BOOLEAN /\ libOld \in BOOLEAN
    /\ made \subseteq {"rules", "manifests"} /\ build \in {"none", "passed", "failed"}
    /\ {TemplateFile, ManifestFile} \subseteq DOMAIN tree \cap DOMAIN committed.files
    /\ DOMAIN tree \subseteq Trackable \cup {RbacJson}
    /\ DOMAIN committed.files \subseteq Trackable \cap (DOMAIN tree \cup {RuleFile})

\* The verdict is about the commit there is.
JudgedInv ==
    build = "passed" =>
        ~ Panics(committed.src) /\ Valid(Rebuilt(committed)) /\ DiffIsEmpty(committed)

\* A file is as the sources generate it.
IsCurrent(f) == f \in DOMAIN tree /\ tree[f] = Content(src, f)

\* What make decides by: a file it takes for new is current, save for lib.
JsonInv == ~ jsonOld => IsCurrent(RbacJson)
TemplateInv ==
    ~ jsonOld /\ ~ templateOld /\ ~ libOld /\ src.broken # "jsonnet" => IsCurrent(TemplateFile)

\* What a target has made stays so until the next edit.
RulesMadeInv ==
    "rules" \in made =>
        ~ Panics(src) /\ \A f \in {ManifestFile} \cup SloFiles(src) : IsCurrent(f)
ManifestsMadeInv ==
    "manifests" \in made =>
        ~ jsonOld /\ (~ libOld /\ src.broken # "jsonnet" => IsCurrent(TemplateFile))

CurrentInv == JsonInv /\ TemplateInv /\ RulesMadeInv /\ ManifestsMadeInv
GenInv == FilesInv /\ JudgedInv /\ CurrentInv

\* The names of the files are all different (slo.go, Makefile).
LEMMA FilesDiffer ==
  /\ RuleFile # ManifestFile /\ RuleFile # TemplateFile /\ RuleFile # RbacJson
  /\ ManifestFile # TemplateFile /\ ManifestFile # RbacJson /\ TemplateFile # RbacJson
  /\ \A o : Pyrra(o) \notin {RuleFile, ManifestFile, TemplateFile, RbacJson}
  BY DEF RuleFile, ManifestFile, TemplateFile, RbacJson, Pyrra

\* The content of each file, and the names of the generators.
LEMMA ContentIs ==
  ASSUME NEW s
  PROVE  /\ Content(s, RuleFile) = s.rows /\ Content(s, RbacJson) = s.rbac
         /\ Content(s, ManifestFile) = s.services
         /\ Content(s, TemplateFile) = Template(s, s.rbac)
  BY FilesDiffer DEF Content

LEMMA GeneratorNames ==
  /\ DOMAIN Generators = 1 .. 3
  /\ Generators[1] = "slo" /\ Generators[2] = "rbac" /\ Generators[3] = "services"
  /\ Range(Generators) = AllGenerators
<1>1. /\ DOMAIN Generators = 1 .. 3
      /\ Generators[1] = "slo" /\ Generators[2] = "rbac" /\ Generators[3] = "services"
  BY DEF Generators
<1> QED
  BY <1>1 DEF Range, AllGenerators

\* Without a broken generator each returns.
LEMMA ReturnedAre ==
  ASSUME NEW s
  PROVE  /\ Returned(s) \subseteq AllGenerators
         /\ ~ Panics(s) => Returned(s) = AllGenerators
<1>1. ASSUME NEW g
      PROVE  g \in Returned(s) <=>
               \E i \in 1 .. 3 : g = Generators[i] /\ \A k \in 1 .. i : Generators[k] # s.broken
  BY GeneratorNames DEF Returned
<1>2. Returned(s) \subseteq AllGenerators
  BY <1>1, GeneratorNames DEF AllGenerators
<1>3. ASSUME ~ Panics(s), NEW g \in AllGenerators
      PROVE  g \in Returned(s)
  <2>1. s.broken \notin AllGenerators
    BY <1>3, GeneratorNames DEF Panics
  <2>2. PICK i \in 1 .. 3 : g = Generators[i]
    BY GeneratorNames DEF AllGenerators
  <2>3. \A k \in 1 .. i : Generators[k] # s.broken
    BY <2>1, GeneratorNames DEF AllGenerators
  <2> QED
    BY <1>1, <2>2, <2>3
<1> QED
  BY <1>2, <1>3

\* What mimic.go writes: the files of the generators that return, and
\* some of one that panics.
LEMMA MimicMakes ==
  ASSUME NEW s, NEW files, NEW some \in SUBSET PartlyAdded(s)
  PROVE  /\ DOMAIN files \subseteq DOMAIN Mimic(s, files, some)
         /\ DOMAIN Mimic(s, files, some)
              \subseteq DOMAIN files \cup SloFiles(s) \cup {RbacJson, ManifestFile}
         /\ \A f \in DOMAIN Mimic(s, files, some) :
              \/ Mimic(s, files, some)[f] = Content(s, f) /\ f # TemplateFile
              \/ f \in DOMAIN files /\ Mimic(s, files, some)[f] = files[f]
         /\ TemplateFile \in DOMAIN files =>
              Mimic(s, files, some)[TemplateFile] = files[TemplateFile]
         /\ "rbac" \in Returned(s) =>
              /\ RbacJson \in DOMAIN Mimic(s, files, some)
              /\ Mimic(s, files, some)[RbacJson] = Content(s, RbacJson)
         /\ ~ Panics(s) => \A f \in SloFiles(s) \cup {RbacJson, ManifestFile} :
              f \in DOMAIN Mimic(s, files, some) /\ Mimic(s, files, some)[f] = Content(s, f)
<1> DEFINE written == some \cup UNION {Added(s, g) : g \in Returned(s)}
<1>1. /\ Added(s, "slo") = SloFiles(s) /\ Added(s, "rbac") = {RbacJson}
      /\ Added(s, "services") = {ManifestFile}
  BY DEF Added
<1>2. /\ written \subseteq SloFiles(s) \cup {RbacJson, ManifestFile}
      /\ ~ Panics(s) => some = {}
  <2>1. /\ some \subseteq SloFiles(s) \cup {ManifestFile}
        /\ ~ Panics(s) => some = {}
    BY GeneratorNames DEF PartlyAdded, Panics, AllGenerators
  <2> QED
    BY <1>1, <2>1, ReturnedAre DEF AllGenerators
<1>3. "rbac" \in Returned(s) => RbacJson \in written
  BY <1>1
<1>4. ~ Panics(s) => written = SloFiles(s) \cup {RbacJson, ManifestFile}
  BY <1>1, <1>2, ReturnedAre DEF AllGenerators
<1>5. TemplateFile \notin written
  BY <1>2, FilesDiffer DEF SloFiles
<1>6. Mimic(s, files, some) = [f \in DOMAIN files \cup written |->
                           IF f \in written THEN Content(s, f) ELSE files[f]]
  BY DEF Mimic
<1> HIDE DEF written
<1> QED
  BY <1>2, <1>3, <1>4, <1>5, <1>6

\* make prometheusrules without a panic generates all but the template.
LEMMA RulesMake ==
  ASSUME NEW s, NEW files, NEW some \in SUBSET PartlyAdded(s)
  PROVE  /\ DOMAIN files \ {RuleFile} \subseteq DOMAIN MakeRules(s, files, some)
         /\ DOMAIN MakeRules(s, files, some)
              \subseteq DOMAIN files \cup SloFiles(s) \cup {RbacJson, ManifestFile}
         /\ \A f \in DOMAIN MakeRules(s, files, some) :
              \/ MakeRules(s, files, some)[f] = Content(s, f) /\ f # TemplateFile
              \/ f \in DOMAIN files /\ MakeRules(s, files, some)[f] = files[f]
         /\ TemplateFile \in DOMAIN files =>
              MakeRules(s, files, some)[TemplateFile] = files[TemplateFile]
         /\ "rbac" \in Returned(s) =>
              /\ RbacJson \in DOMAIN MakeRules(s, files, some)
              /\ MakeRules(s, files, some)[RbacJson] = Content(s, RbacJson)
         /\ ~ Panics(s) => \A f \in SloFiles(s) \cup {RbacJson, ManifestFile} :
              f \in DOMAIN MakeRules(s, files, some) /\ MakeRules(s, files, some)[f] = Content(s, f)
<1> DEFINE rest == [f \in DOMAIN files \ {RuleFile} |-> files[f]]
<1>1. MakeRules(s, files, some) = Mimic(s, rest, some)
  BY DEF MakeRules
<1>2. /\ DOMAIN rest = DOMAIN files \ {RuleFile} /\ \A f \in DOMAIN rest : rest[f] = files[f]
      /\ TemplateFile \in DOMAIN files => TemplateFile \in DOMAIN rest
  BY FilesDiffer
<1> HIDE DEF rest
<1> QED
  BY <1>1, <1>2, MimicMakes

\* make manifests, when the template is made.
LEMMA TemplateMake ==
  ASSUME NEW s, NEW files
  PROVE  /\ DOMAIN MakeTemplate(s, files) = DOMAIN files \cup {TemplateFile}
         /\ \A f \in DOMAIN files \ {TemplateFile} : MakeTemplate(s, files)[f] = files[f]
         /\ s.broken # "jsonnet" /\ files[RbacJson] = s.rbac =>
              MakeTemplate(s, files)[TemplateFile] = Content(s, TemplateFile)
         /\ s.broken = "jsonnet" => MakeTemplate(s, files)[TemplateFile] = Garbage
<1>1. MakeTemplate(s, files) = [f \in DOMAIN files \cup {TemplateFile} |->
                                  IF f = TemplateFile THEN Jsonnet(s, files) ELSE files[f]]
  BY DEF MakeTemplate
<1>2. /\ s.broken # "jsonnet" /\ files[RbacJson] = s.rbac =>
           Jsonnet(s, files) = Content(s, TemplateFile)
      /\ s.broken = "jsonnet" => Jsonnet(s, files) = Garbage
  BY ContentIs DEF Jsonnet
<1> QED
  BY <1>1, <1>2

-----------------------------------------------------------------------------
(* The build job.                                                           *)

\* What the build job has in the end: all that the sources generate, and the
\* files of retired objectives.
LEMMA RebuiltIsCurrent ==
  ASSUME NEW c, c.src \in Sources, ~ Panics(c.src), Valid(Rebuilt(c))
  PROVE  /\ c.src.broken = "nothing"
         /\ \A f \in DOMAIN Expected(c.src) : Rebuilt(c)[f] = Expected(c.src)[f]
<1> DEFINE s == c.src
           got == Mimic(s, c.files, {})
           all == MakeTemplate(s, got)
<1>1. CheckedOut(c) = all
  BY DEF CheckedOut, MakeManifests, JsonMade
<1>2. Rebuilt(c) = MakeRules(s, all, {})
  BY <1>1 DEF Rebuilt
<1>3. /\ RbacJson \in DOMAIN got /\ got[RbacJson] = s.rbac
  BY MimicMakes, ContentIs
<1> HIDE DEF got
<1>4. /\ TemplateFile \in DOMAIN all
      /\ s.broken # "jsonnet" => all[TemplateFile] = Content(s, TemplateFile)
      /\ s.broken = "jsonnet" => all[TemplateFile] = Garbage
  BY <1>3, TemplateMake
<1> HIDE DEF all
<1>5. /\ Rebuilt(c)[TemplateFile] = all[TemplateFile]
      /\ \A f \in SloFiles(s) \cup {ManifestFile} : Rebuilt(c)[f] = Content(s, f)
  BY <1>2, <1>4, RulesMake
<1>6. s.broken # "jsonnet"
  BY <1>4, <1>5 DEF Valid
<1>7. s.broken = "nothing"
  BY <1>6, GeneratorNames DEF Panics, Sources
<1>8. \A f \in {TemplateFile, ManifestFile} \cup SloFiles(s) : Rebuilt(c)[f] = Content(s, f)
  BY <1>4, <1>5, <1>6
<1> QED
  BY <1>7, <1>8 DEF Expected

-----------------------------------------------------------------------------
(* The steps of the maintainer and of the job.                              *)

\* A fresh checkout satisfies the invariant.
LEMMA FirstCopy ==
  ASSUME GenerationAssumption, GenInit
  PROVE  GenInv
<1>1. (CHOOSE o \in Objectives : TRUE) \in Objectives
  BY DEF GenerationAssumption
<1>2. src \in Sources /\ committed.src = src
  BY <1>1 DEF GenInit, Sources
<1>3. DOMAIN tree = {TemplateFile, ManifestFile} \cup SloFiles(src) /\ committed.files = tree
  BY DEF GenInit, Expected
<1>4. SloFiles(src) \subseteq PyrraFiles \cup {RuleFile}
  BY <1>2 DEF SloFiles, PyrraFiles, Sources
<1>5. FilesInv
  BY <1>2, <1>3, <1>4 DEF FilesInv, Trackable, GenInit
<1>6. tree[TemplateFile] = Content(src, TemplateFile)
  BY DEF GenInit, Expected
<1>7. JudgedInv /\ CurrentInv
  BY <1>3, <1>6 DEF GenInit, JudgedInv, CurrentInv, JsonInv, TemplateInv, RulesMadeInv,
                   ManifestsMadeInv, IsCurrent
<1> QED
  BY <1>5, <1>7 DEF GenInv

\* The verdict is about the commit as long as neither changes.
LEMMA VerdictStays ==
  ASSUME JudgedInv, UNCHANGED <<committed, build>>
  PROVE  JudgedInv'
  BY DEF JudgedInv, Panics, Valid, DiffIsEmpty

\* After an edit nothing counts as made; what is new by the flags was so before.
LEMMA EditKeeps ==
  ASSUME GenInv, NEW s \in Sources, Edited(s),
         jsonOld' \in BOOLEAN, templateOld' \in BOOLEAN, libOld' \in BOOLEAN,
         ~ jsonOld' => ~ jsonOld /\ s.rbac = src.rbac,
         ~ templateOld' /\ ~ libOld' /\ s.broken # "jsonnet" =>
            /\ ~ templateOld /\ ~ libOld /\ src.broken # "jsonnet"
            /\ s.jsonnet = src.jsonnet /\ s.lib = src.lib
  PROVE  GenInv'
<1>1. /\ src' = s /\ edits' = edits + 1 /\ made' = {} /\ UNCHANGED <<tree, committed, build>>
  BY DEF Edited
<1>2. FilesInv'
  BY <1>1 DEF GenInv, FilesInv
<1>3. JudgedInv'
  BY <1>1, VerdictStays DEF GenInv
<1>4. JsonInv'
  BY <1>1, ContentIs DEF GenInv, CurrentInv, JsonInv, IsCurrent
<1>5. TemplateInv'
  <2>1. ASSUME ~ jsonOld', ~ templateOld', ~ libOld', s.broken # "jsonnet"
        PROVE  Template(s, s.rbac) = Template(src, src.rbac)
    BY <2>1 DEF Template
  <2> QED
    BY <1>1, <2>1, ContentIs DEF GenInv, CurrentInv, TemplateInv, IsCurrent
<1>6. RulesMadeInv' /\ ManifestsMadeInv'
  BY <1>1 DEF RulesMadeInv, ManifestsMadeInv
<1> QED
  BY <1>2, <1>3, <1>4, <1>5, <1>6 DEF GenInv, CurrentInv

\* Each of the edits keeps the invariant.
LEMMA EditsKeep ==
  ASSUME GenInv,
         EditRbac \/ EditJsonnet \/ EditLib \/ EditServices \/ EditRows \/ BreakOrMend
  PROVE  GenInv'
<1>1. /\ src \in Sources /\ edits + 1 \in Nat
      /\ jsonOld \in BOOLEAN /\ templateOld \in BOOLEAN /\ libOld \in BOOLEAN
  BY DEF GenInv, FilesInv
<1>2. CASE EditRbac
  <2> DEFINE s == [src EXCEPT !.rbac = edits + 1]
  <2>1. s \in Sources /\ s.jsonnet = src.jsonnet /\ s.lib = src.lib /\ s.broken = src.broken
    BY <1>1 DEF Sources
  <2> QED
    BY <1>1, <1>2, <2>1, EditKeeps DEF EditRbac
<1>3. CASE EditJsonnet
  <2> DEFINE s == [src EXCEPT !.jsonnet = edits + 1]
  <2>1. s \in Sources /\ s.rbac = src.rbac
    BY <1>1 DEF Sources
  <2> QED
    BY <1>1, <1>3, <2>1, EditKeeps DEF EditJsonnet
<1>4. CASE EditLib
  <2> DEFINE s == [src EXCEPT !.lib = edits + 1]
  <2>1. s \in Sources /\ s.rbac = src.rbac
    BY <1>1 DEF Sources
  <2> QED
    BY <1>1, <1>4, <2>1, EditKeeps DEF EditLib
<1>5. CASE EditServices
  <2> DEFINE s == [src EXCEPT !.services = edits + 1]
  <2>1. /\ s \in Sources /\ s.rbac = src.rbac /\ s.jsonnet = src.jsonnet
        /\ s.lib = src.lib /\ s.broken = src.broken
    BY <1>1 DEF Sources
  <2> QED
    BY <1>1, <1>5, <2>1, EditKeeps DEF EditServices
<1>6. CASE EditRows
  <2>1. PICK rows \in SUBSET Objectives : Edited([src EXCEPT !.rows = rows])
    BY <1>6 DEF EditRows
  <2> DEFINE s == [src EXCEPT !.rows = rows]
  <2>2. /\ s \in Sources /\ s.rbac = src.rbac /\ s.jsonnet = src.jsonnet
        /\ s.lib = src.lib /\ s.broken = src.broken
    BY <1>1 DEF Sources
  <2> QED
    BY <1>1, <1>6, <2>1, <2>2, EditKeeps DEF EditRows
<1>7. CASE BreakOrMend
  <2>1. PICK b \in Range(Generators) \cup {"jsonnet", "nothing"} :
           /\ Edited([src EXCEPT !.broken = b])
           /\ jsonOld' = (jsonOld \/ "rbac" \in {b, src.broken})
           /\ templateOld' = templateOld
           /\ libOld' = (libOld \/ "jsonnet" \in {b, src.broken})
    BY <1>7 DEF BreakOrMend
  <2> DEFINE s == [src EXCEPT !.broken = b]
  <2>2. /\ s \in Sources /\ s.rbac = src.rbac /\ s.jsonnet = src.jsonnet
        /\ s.lib = src.lib /\ s.broken = b
    BY <1>1, GeneratorNames DEF Sources
  <2>3. /\ jsonOld' \in BOOLEAN /\ templateOld' \in BOOLEAN /\ libOld' \in BOOLEAN
        /\ ~ jsonOld' => ~ jsonOld
        /\ ~ libOld' => ~ libOld /\ src.broken # "jsonnet"
    BY <1>1, <2>1
  <2> HIDE DEF s
  <2> QED
    BY <2>1, <2>2, <2>3, EditKeeps DEF s
<1> QED
  BY <1>2, <1>3, <1>4, <1>5, <1>6, <1>7

\* What make leaves: every file that was there is still as it was or is current.
Improves ==
    /\ UNCHANGED <<src, committed, build, edits>>
    /\ DOMAIN tree \ {RuleFile} \subseteq DOMAIN tree'
    /\ DOMAIN tree' \subseteq Trackable \cup {RbacJson}
    /\ \A f \in DOMAIN tree' \ {TemplateFile} :
          tree'[f] = Content(src, f) \/ (f \in DOMAIN tree /\ tree'[f] = tree[f])

\* The files of the SLO generator.
LEMMA SloFilesAreKnown ==
  ASSUME NEW s \in Sources
  PROVE  SloFiles(s) \subseteq PyrraFiles \cup {RuleFile}
  BY DEF SloFiles, PyrraFiles, Sources

\* Making more files current keeps the types, and what was current.
LEMMA ImprovementKeepsFiles ==
  ASSUME FilesInv, Improves, jsonOld' \in BOOLEAN, templateOld' \in BOOLEAN, libOld' \in BOOLEAN,
         made' \subseteq {"rules", "manifests"}
  PROVE  FilesInv'
  BY FilesDiffer DEF FilesInv, Improves

LEMMA ImprovementKeepsCurrent ==
  ASSUME Improves, NEW f, IsCurrent(f), f \in DOMAIN tree', f # TemplateFile
  PROVE  IsCurrent(f)'
  BY DEF Improves, IsCurrent

\* make prometheusrules and make manifests keep the invariant.
LEMMA RulesKeep ==
  ASSUME GenInv, PrometheusRules
  PROVE  GenInv'
<1>0. PICK some \in SUBSET PartlyAdded(src) : tree' = MakeRules(src, tree, some)
  BY DEF PrometheusRules
<1>1. /\ FilesInv /\ CurrentInv /\ src \in Sources
      /\ tree' = MakeRules(src, tree, some)
      /\ jsonOld' = (jsonOld /\ "rbac" \notin Returned(src))
      /\ templateOld' = (templateOld \/ "rbac" \in Returned(src))
      /\ made' = IF Panics(src) THEN made ELSE made \cup {"rules"}
      /\ UNCHANGED <<src, libOld, edits, committed, build>>
  BY <1>0 DEF PrometheusRules, Made, GenInv, FilesInv
<1>2. Improves
  BY <1>1, RulesMake, SloFilesAreKnown DEF Improves, FilesInv, Trackable
<1>3. FilesInv'
  BY <1>1, <1>2, ImprovementKeepsFiles DEF FilesInv
<1>4. JudgedInv'
  BY <1>1, VerdictStays DEF GenInv
<1>5. TemplateFile \in DOMAIN tree' /\ tree'[TemplateFile] = tree[TemplateFile]
  BY <1>1, <1>3, RulesMake DEF FilesInv
<1>6. "rbac" \in Returned(src) => IsCurrent(RbacJson)'
  BY <1>1, RulesMake DEF IsCurrent
<1>7. IsCurrent(RbacJson) => IsCurrent(RbacJson)'
  BY <1>2, FilesDiffer, ImprovementKeepsCurrent DEF Improves, IsCurrent
<1>8. JsonInv'
  BY <1>1, <1>6, <1>7 DEF CurrentInv, JsonInv
<1>9. IsCurrent(TemplateFile) => IsCurrent(TemplateFile)'
  BY <1>1, <1>5 DEF IsCurrent
<1>10. TemplateInv'
  BY <1>1, <1>9 DEF CurrentInv, TemplateInv
<1>11. ~ Panics(src) => \A f \in {ManifestFile} \cup SloFiles(src) : IsCurrent(f)'
  BY <1>1, RulesMake DEF IsCurrent
<1>12. RulesMadeInv'
  <2>1. "rules" \in made' => ~ Panics(src)
    BY <1>1 DEF CurrentInv, RulesMadeInv
  <2> QED
    BY <1>1, <1>11, <2>1 DEF RulesMadeInv
<1>13. ManifestsMadeInv'
  BY <1>1, <1>9 DEF CurrentInv, ManifestsMadeInv
<1> QED
  BY <1>3, <1>4, <1>8, <1>10, <1>12, <1>13 DEF GenInv, CurrentInv

LEMMA ManifestsKeep ==
  ASSUME GenInv, Manifests
  PROVE  GenInv'
<1>0. PICK some \in SUBSET PartlyAdded(src) :
         tree' = MakeManifests(src, tree, RbacJsonDue, templateOld, some)
  BY DEF Manifests
<1>1. /\ FilesInv /\ CurrentInv /\ src \in Sources /\ jsonOld \in BOOLEAN
      /\ templateOld \in BOOLEAN /\ libOld \in BOOLEAN /\ UNCHANGED <<src, edits, committed, build>>
      /\ tree' = MakeManifests(src, tree, RbacJsonDue, templateOld, some)
  BY <1>0 DEF Manifests, GenInv, FilesInv
<1>2. RbacJsonDue <=> jsonOld
  BY <1>1 DEF CurrentInv, JsonInv, IsCurrent, RbacJsonDue
<1>3. JudgedInv'
  BY <1>1, VerdictStays DEF GenInv
<1>4. CASE jsonOld /\ Panics(src)
  <2>1. /\ tree' = Mimic(src, tree, some)
        /\ jsonOld' = (jsonOld /\ "rbac" \notin Returned(src))
        /\ templateOld' = (templateOld \/ "rbac" \in Returned(src))
        /\ UNCHANGED <<libOld, made>>
    BY <1>1, <1>2, <1>4 DEF Manifests, MakeManifests, JsonMade
  <2>2. Improves
    BY <1>0, <1>1, <2>1, MimicMakes, SloFilesAreKnown DEF Improves, FilesInv, Trackable
  <2>3. FilesInv'
    BY <1>1, <2>1, <2>2, ImprovementKeepsFiles DEF FilesInv
  <2>4. JsonInv' /\ TemplateInv'
    <3>1. "rbac" \in Returned(src) => IsCurrent(RbacJson)'
      BY <1>0, <1>1, <2>1, MimicMakes DEF IsCurrent
    <3>2. ~ jsonOld' => "rbac" \in Returned(src) /\ templateOld'
      BY <1>4, <2>1
    <3> QED
      BY <3>1, <3>2 DEF JsonInv, TemplateInv
  <2>5. RulesMadeInv' /\ ManifestsMadeInv'
    BY <1>1, <1>4, <2>1 DEF CurrentInv, RulesMadeInv, ManifestsMadeInv
  <2> QED
    BY <1>3, <2>3, <2>4, <2>5 DEF GenInv, CurrentInv
<1>5. CASE ~ (jsonOld /\ Panics(src))
  <2> DEFINE got == JsonMade(src, tree, RbacJsonDue, some)
  <2>1. /\ jsonOld' = FALSE /\ templateOld' = FALSE
        /\ libOld' = (libOld /\ ~ (jsonOld \/ templateOld)) /\ made' = made \cup {"manifests"}
    BY <1>1, <1>2, <1>5 DEF Manifests
  <2>2. tree' = IF jsonOld \/ templateOld THEN MakeTemplate(src, got) ELSE got
    BY <1>1, <1>2, <1>5 DEF MakeManifests
  <2>3. /\ DOMAIN tree \subseteq DOMAIN got
        /\ DOMAIN got \subseteq DOMAIN tree \cup SloFiles(src) \cup {RbacJson, ManifestFile}
        /\ \A f \in DOMAIN got :
              \/ got[f] = Content(src, f) /\ f # TemplateFile
              \/ f \in DOMAIN tree /\ got[f] = tree[f]
        /\ RbacJson \in DOMAIN got /\ got[RbacJson] = Content(src, RbacJson)
        /\ ~ jsonOld => got = tree
    <3>1. CASE jsonOld
      BY <1>2, <1>5, <3>1, MimicMakes DEF JsonMade
    <3>2. CASE ~ jsonOld
      BY <1>1, <1>2, <3>2 DEF JsonMade, CurrentInv, JsonInv, IsCurrent
    <3> QED
      BY <3>1, <3>2
  <2> HIDE DEF got
  <2>4. /\ TemplateFile \in DOMAIN tree'
        /\ DOMAIN tree' = DOMAIN got \cup {TemplateFile}
        /\ \A f \in DOMAIN got \ {TemplateFile} : tree'[f] = got[f]
    <3>1. TemplateFile \in DOMAIN got
      BY <1>1, <2>3 DEF FilesInv
    <3>2. CASE jsonOld \/ templateOld
      <4>1. tree' = MakeTemplate(src, got)
        BY <2>2, <3>2
      <4>2. /\ DOMAIN MakeTemplate(src, got) = DOMAIN got \cup {TemplateFile}
            /\ \A f \in DOMAIN got \ {TemplateFile} : MakeTemplate(src, got)[f] = got[f]
        BY TemplateMake
      <4> QED
        BY <4>1, <4>2
    <3>3. CASE ~ (jsonOld \/ templateOld)
      BY <2>2, <3>1, <3>3
    <3> QED
      BY <3>2, <3>3
  <2>5. Improves
    <3>1. DOMAIN tree' \subseteq Trackable \cup {RbacJson}
      <4>1. SloFiles(src) \subseteq Trackable /\ {TemplateFile, ManifestFile} \subseteq Trackable
        BY <1>1, SloFilesAreKnown DEF Trackable
      <4>2. DOMAIN tree \subseteq Trackable \cup {RbacJson}
        BY <1>1 DEF FilesInv
      <4> QED
        BY <2>3, <2>4, <4>1, <4>2
    <3>2. ASSUME NEW f \in DOMAIN tree' \ {TemplateFile}
          PROVE  tree'[f] = Content(src, f) \/ (f \in DOMAIN tree /\ tree'[f] = tree[f])
      BY <2>3, <2>4
    <3>3. DOMAIN tree \ {RuleFile} \subseteq DOMAIN tree'
      BY <2>3, <2>4
    <3> QED
      BY <1>1, <3>1, <3>2, <3>3 DEF Improves
  <2>6. FilesInv'
    BY <1>1, <2>1, <2>5, ImprovementKeepsFiles DEF FilesInv
  <2>7. IsCurrent(RbacJson)'
    BY <1>1, <2>3, <2>4, FilesDiffer DEF IsCurrent
  <2>8. ~ libOld' /\ src.broken # "jsonnet" => IsCurrent(TemplateFile)'
    <3>1. CASE jsonOld \/ templateOld
      <4>1. tree' = MakeTemplate(src, got) /\ got[RbacJson] = src.rbac
        BY <2>2, <2>3, <3>1, ContentIs
      <4>2. src.broken # "jsonnet" => tree'[TemplateFile] = Content(src, TemplateFile)
        BY <4>1, TemplateMake
      <4> QED
        BY <1>1, <2>4, <4>2 DEF IsCurrent
    <3>2. CASE ~ (jsonOld \/ templateOld)
      BY <1>1, <2>1, <2>2, <2>3, <3>2 DEF CurrentInv, TemplateInv, IsCurrent
    <3> QED
      BY <3>1, <3>2
  <2>9. RulesMadeInv'
    <3>1. ASSUME NEW f \in {ManifestFile} \cup SloFiles(src), IsCurrent(f)
          PROVE  IsCurrent(f)'
      <4>1. f \in DOMAIN tree' /\ f # TemplateFile
        BY <2>3, <2>4, <3>1, FilesDiffer DEF IsCurrent, SloFiles
      <4> QED
        BY <2>5, <3>1, <4>1, ImprovementKeepsCurrent
    <3> QED
      BY <1>1, <2>1, <3>1 DEF CurrentInv, RulesMadeInv
  <2>10. JsonInv' /\ TemplateInv' /\ ManifestsMadeInv'
    BY <1>1, <2>1, <2>7, <2>8 DEF JsonInv, TemplateInv, ManifestsMadeInv
  <2> QED
    BY <1>3, <2>6, <2>9, <2>10 DEF GenInv, CurrentInv
<1> QED
  BY <1>4, <1>5

\* So does a commit.
LEMMA CommitKeeps ==
  ASSUME GenInv, Commit
  PROVE  GenInv'
<1>1. PICK addNew \in BOOLEAN :
         committed' = [src |-> src, files |-> [f \in Tracked(addNew) |-> tree[f]]]
  BY DEF Commit
<1>2. build' = "none" /\ UNCHANGED <<src, tree, jsonOld, templateOld, libOld, edits, made>>
  BY DEF Commit
<1>3. committed'.src = src /\ DOMAIN committed'.files = Tracked(addNew)
  BY <1>1
<1>4. FilesInv'
  BY <1>2, <1>3, FilesDiffer DEF GenInv, FilesInv, Tracked
<1>5. JudgedInv'
  BY <1>2 DEF JudgedInv
<1>6. \A f : IsCurrent(f)' <=> IsCurrent(f)
  BY <1>2 DEF IsCurrent
<1>7. CurrentInv'
  BY <1>2, <1>6 DEF GenInv, CurrentInv, JsonInv, TemplateInv, RulesMadeInv, ManifestsMadeInv
<1> QED
  BY <1>4, <1>5, <1>7 DEF GenInv

\* The verdict, and a stutter.
LEMMA JudgementKeeps ==
  ASSUME GenInv, Build \/ UNCHANGED genVars
  PROVE  GenInv'
<1>1. UNCHANGED <<src, tree, jsonOld, templateOld, libOld, edits, made, committed>>
  BY DEF Build, genVars
<1>2. FilesInv'
  BY <1>1 DEF GenInv, FilesInv, Build, genVars
<1>3. ASSUME Build
      PROVE  JudgedInv'
  BY <1>1, <1>3 DEF Build, JudgedInv, Panics, Valid, DiffIsEmpty
<1>4. ASSUME UNCHANGED genVars
      PROVE  JudgedInv'
  BY <1>1, <1>4, VerdictStays DEF GenInv, genVars
<1>5. \A f : IsCurrent(f)' <=> IsCurrent(f)
  BY <1>1 DEF IsCurrent
<1>6. CurrentInv'
  BY <1>1, <1>5 DEF GenInv, CurrentInv, JsonInv, TemplateInv, RulesMadeInv, ManifestsMadeInv
<1> QED
  BY <1>2, <1>3, <1>4, <1>6 DEF GenInv

-----------------------------------------------------------------------------
(* The theorems.                                                            *)

\* What make takes for new is current, what a target has made stays so until
\* the next edit, and the verdict is about the commit there is (Makefile:131).
THEOREM GenerationInvariant == GenSpec => []GenInv
<1>1. GenInit => GenInv
  BY GenerationAssumption, FirstCopy
<1>2. GenInv /\ [GenNext]_genVars => GenInv'
  BY EditsKeep, RulesKeep, ManifestsKeep, CommitKeeps, JudgementKeeps DEF GenNext
<1> QED
  BY <1>1, <1>2, PTL DEF GenSpec

\* A commit that passes the build job has what its own sources generate, for
\* any objectives and whatever the working copy had made it of.
THEOREM PassedIsCurrent == GenSpec => []GreenIsCurrent
<1>1. ASSUME GenInv, build = "passed"
      PROVE  LET c == committed
                 want == Expected(c.src)
                 pyrra == {Pyrra(o) : o \in Objectives}
             IN  /\ c.src.broken = "nothing"
                 /\ \A f \in DOMAIN c.files :
                       IF f \in DOMAIN want THEN c.files[f] = want[f] ELSE f \in pyrra
                 /\ DOMAIN want \ DOMAIN c.files \subseteq pyrra \cup {RuleFile}
  <2> DEFINE c == committed
             want == Expected(c.src)
  <2>1. /\ c.src \in Sources /\ DOMAIN c.files \subseteq Trackable
        /\ {TemplateFile, ManifestFile} \subseteq DOMAIN c.files
    BY <1>1 DEF GenInv, FilesInv
  <2>2. /\ ~ Panics(c.src) /\ Valid(Rebuilt(c))
        /\ \A f \in DOMAIN c.files : Rebuilt(c)[f] = c.files[f]
    BY <1>1 DEF GenInv, JudgedInv, DiffIsEmpty
  <2>3. c.src.broken = "nothing" /\ \A f \in DOMAIN want : Rebuilt(c)[f] = want[f]
    BY <2>1, <2>2, RebuiltIsCurrent
  <2>4. /\ DOMAIN want = {TemplateFile, ManifestFile} \cup SloFiles(c.src)
        /\ RuleFile \in SloFiles(c.src) /\ SloFiles(c.src) \subseteq PyrraFiles \cup {RuleFile}
    BY <2>1, SloFilesAreKnown DEF Expected, SloFiles
  <2> HIDE DEF want, c
  <2>5. \A f \in DOMAIN c.files :
           IF f \in DOMAIN want THEN c.files[f] = want[f] ELSE f \in PyrraFiles
    BY <2>1, <2>2, <2>3, <2>4 DEF Trackable
  <2>6. DOMAIN want \ DOMAIN c.files \subseteq PyrraFiles \cup {RuleFile}
    BY <2>1, <2>4
  <2> QED
    BY <2>3, <2>5, <2>6 DEF PyrraFiles, want, c
<1>2. GenInv => GreenIsCurrent
  BY <1>1 DEF GreenIsCurrent
<1> QED
  BY <1>2, GenerationInvariant, PTL

\* After both targets only the template may be out of date, for what make does
\* not look at, in any order of edits, panics and runs (Makefile:158).
THEOREM BothMadeIsCurrent == GenSpec => []MadeIsCurrent
<1>1. ASSUME GenInv, made = {"rules", "manifests"}, NEW f \in DOMAIN Expected(src)
      PROVE  /\ f \in DOMAIN tree
             /\ tree[f] # Expected(src)[f] =>
                  f = TemplateFile /\ (libOld \/ src.broken = "jsonnet")
  <2>1. Expected(src)[f] = Content(src, f) /\ f \in {TemplateFile, ManifestFile} \cup SloFiles(src)
    BY <1>1 DEF Expected
  <2>2. \A g \in {ManifestFile} \cup SloFiles(src) : IsCurrent(g)
    BY <1>1 DEF GenInv, CurrentInv, RulesMadeInv
  <2>3. TemplateFile \in DOMAIN tree
    BY <1>1 DEF GenInv, FilesInv
  <2>4. ~ libOld /\ src.broken # "jsonnet" => IsCurrent(TemplateFile)
    BY <1>1 DEF GenInv, CurrentInv, ManifestsMadeInv
  <2> QED
    BY <2>1, <2>2, <2>3, <2>4 DEF IsCurrent
<1>2. GenInv => MadeIsCurrent
  BY <1>1 DEF MadeIsCurrent
<1> QED
  BY <1>2, GenerationInvariant, PTL

\* The working copy, the commit and the verdict are well typed.
THEOREM GenerationTypes == GenSpec => []GenTypeOK
<1>1. ASSUME GenInv
      PROVE  GenTypeOK
  <2>1. /\ src.rows \subseteq Objectives
        /\ src.broken \in Range(Generators) \cup {"jsonnet", "nothing"}
    BY <1>1, GeneratorNames DEF GenInv, FilesInv, Sources
  <2>2. RbacJson \notin Trackable
    BY FilesDiffer DEF Trackable, PyrraFiles
  <2> QED
    BY <1>1, <2>1, <2>2 DEF GenInv, FilesInv, GenTypeOK, Trackable, PyrraFiles
<1> QED
  BY <1>1, GenerationInvariant, PTL

-----------------------------------------------------------------------------
(***************************************************************************)
(* The tests job (CiScript): a failure is never lost, and a green job has  *)
(* seen every rollout.  What has not been seen yet is kept in what is left *)
(* to do.                                                                  *)
(***************************************************************************)

(* The commands of the three parts of the script.                           *)
DeployCmds ==
    {Cmd("prereq", "")} \cup {Cmd("ns", n) : n \in Range(NS)}
        \cup {Cmd("active", n) : n \in Range(Apps)}
        \cup {Cmd("apply", n) : n \in Range(Apps)}

TestCmds ==
    {Cmd("tenant", ""), Cmd("restart", API), Cmd("up_metrics", ""), Cmd("wait_job", "")}
        \cup {Cmd("statefulsets", n) : n \in Range(NS)}
        \cup {Cmd("check_status", w) : w \in Workloads}
        \cup UNION {{Cmd("deployments", [ns |-> n, found |-> S]) : S \in SUBSET Sts[n]} :
                        n \in Range(NS)}

GatherCmds ==
    {Cmd("nodes", ""), Cmd("exit", 1)} \cup {Cmd("pods", n) : n \in Range(NS)}
        \cup {Cmd("describe", w) : w \in Workloads}
        \cup {Cmd("containers", w) : w \in Workloads}
        \cup {Cmd("logs", w) : w \in Workloads}

(* The API is checked at some point after each restart of it.               *)
Rechecked(s) ==
    \A i \in 1 .. Len(s) :
        s[i] = Cmd("restart", API) =>
            \E j \in i + 1 .. Len(s) : s[j] = Cmd("check_status", API)

Left == Range(todo)

(* A run that has failed ends with 1: nothing but gathering precedes that.  *)
FailInv ==
    failed => \/ code = 1
              \/ code = NoCode /\ todo \in Seq(GatherCmds) /\ Cmd("exit", 1) \in Left

CodeInv ==
    /\ code # NoCode => todo = << >>
    /\ ~ failed => code \in {NoCode, 0}

TodoInv ==
    ~ failed =>
        /\ task \in {"deploy", "tests"}
        /\ task = "deploy" => code = NoCode /\ todo \in Seq(DeployCmds)
        /\ task = "tests" => todo \in Seq(TestCmds) /\ Rechecked(todo)

(* What has not been applied yet is left to do.                             *)
AppliedInv ==
    ~ failed => \A n \in Range(Apps) :
        /\ n \in exists \/ Cmd("active", n) \in Left
        /\ Of(n) \subseteq Applied \/ Cmd("active", n) \in Left \/ Cmd("apply", n) \in Left

(* A workload has been seen, its turn has come, or its namespace has yet to *)
(* be listed.                                                               *)
Accounted(n, w) ==
    \/ w \in seen
    \/ Cmd("check_status", w) \in Left
    \/ Cmd("statefulsets", n) \in Left
    \/ \E S \in SUBSET Sts[n] :
          /\ Cmd("deployments", [ns |-> n, found |-> S]) \in Left
          /\ w \in S \/ w \in Dep[n]
    \/ w \in Sts[n] /\ n \in unlisted

SeenInv ==
    ~ failed /\ task = "tests" =>
        /\ jobSeen \/ Cmd("wait_job", "") \in Left
        /\ API \in seen \/ Cmd("check_status", API) \in Left
        /\ \A n \in Range(NS) : \A w \in Of(n) \cap Applied : Accounted(n, w)

ScriptInv == FailInv /\ CodeInv /\ TodoInv /\ AppliedInv /\ SeenInv

-----------------------------------------------------------------------------
(* Commands and lists of them. *)

\* A command is its operation and its argument.
LEMMA CmdFields ==
  ASSUME NEW a, NEW b, NEW c, NEW d
  PROVE  /\ Cmd(a, b).op = a /\ Cmd(a, b).arg = b
         /\ Cmd(a, b) = Cmd(c, d) => a = c /\ b = d
  BY DEF Cmd

\* A finite set is listed without leaving anything out.
LEMMA SetToSeqLists ==
  ASSUME NEW S, IsFiniteSet(S)
  PROVE  /\ SetToSeq(S) \in Seq(S)
         /\ Range(SetToSeq(S)) = S
<1> DEFINE n == Cardinality(S)
<1>1. n \in Nat /\ ExistsBijection(1 .. n, S)
  BY FS_CardinalityType
<1>2. PICK f \in Bijection(1 .. n, S) : TRUE
  BY <1>1 DEF ExistsBijection
<1>3. f \in [1 .. n -> S] /\ IsInjective(f)
  BY <1>2, Fun_BijectionProperties DEF Bijection, Injection
<1>4. SetToSeq(S) \in [1 .. n -> S] /\ IsInjective(SetToSeq(S))
  BY <1>3 DEF SetToSeq
<1>5. SetToSeq(S) \in Injection(1 .. n, S)
  BY <1>4 DEF Injection
<1>6. IsFiniteSet(1 .. n) /\ Cardinality(1 .. n) = n
  BY <1>1, FS_Interval
<1>7. SetToSeq(S) \in Surjection(1 .. n, S)
  BY <1>5, <1>6, FS_Injection
<1>8. Range(SetToSeq(S)) = S
  BY <1>4, <1>7 DEF Surjection, Range
<1> QED
  BY <1>1, <1>4, <1>8

\* Each and Over give one command for each member.
LEMMA EachLists ==
  ASSUME NEW op, NEW S, IsFiniteSet(S)
  PROVE  /\ Each(op, S) \in Seq({Cmd(op, x) : x \in S})
         /\ Range(Each(op, S)) = {Cmd(op, x) : x \in S}
<1> DEFINE s == SetToSeq(S)
           t == [i \in DOMAIN s |-> Cmd(op, s[i])]
<1>1. s \in Seq(S) /\ Range(s) = S
  BY SetToSeqLists
<1>2. Each(op, S) = t
  BY DEF Each
<1> HIDE DEF s
<1>3. DOMAIN s = 1 .. Len(s) /\ Len(s) \in Nat /\ \A i \in 1 .. Len(s) : s[i] \in S
  BY <1>1
<1>4. t \in Seq({Cmd(op, x) : x \in S})
  BY <1>3
<1>5. Range(t) = {Cmd(op, x) : x \in S}
  BY <1>1, <1>3 DEF Range
<1> QED
  BY <1>2, <1>4, <1>5

\* Over gives one command for each member of a list.
LEMMA OverLists ==
  ASSUME NEW op, NEW s, s \in Seq(Range(s))
  PROVE  /\ Over(op, s) \in Seq({Cmd(op, x) : x \in Range(s)})
         /\ Range(Over(op, s)) = {Cmd(op, x) : x \in Range(s)}
<1> DEFINE t == [i \in DOMAIN s |-> Cmd(op, s[i])]
           S == Range(s)
<1>1. S = {s[i] : i \in DOMAIN s}
  BY DEF Range
<1>2. DOMAIN s = 1 .. Len(s) /\ Len(s) \in Nat /\ \A i \in 1 .. Len(s) : s[i] \in S
  OBVIOUS
<1>3. t \in Seq({Cmd(op, x) : x \in S})
  <2> HIDE DEF S
  <2> QED
    BY <1>2
<1>4. Range(t) = {Cmd(op, x) : x \in S}
  BY <1>1, <1>2 DEF Range
<1> QED
  BY <1>3, <1>4 DEF Over

-----------------------------------------------------------------------------
(* The head of the list gives way to other commands. *)

\* The members of a list whose head gives way to other commands.
LEMMA ReplaceHead ==
  ASSUME NEW S, NEW s \in Seq(S), s # << >>, NEW cmds \in Seq(S)
  PROVE  /\ Head(s) \in S /\ Tail(s) \in Seq(S)
         /\ cmds \o Tail(s) \in Seq(S)
         /\ Range(cmds \o Tail(s)) = Range(cmds) \cup Range(Tail(s))
         /\ Range(s) = {Head(s)} \cup Range(Tail(s))
<1>1. Head(s) \in S /\ Tail(s) \in Seq(S)
  BY HeadTailProperties
<1>2. Range(cmds \o Tail(s)) = Range(cmds) \cup Range(Tail(s))
  BY <1>1, RangeConcatenation, ZenonT(30)
<1>3. s = <<Head(s)>> \o Tail(s)
  <2>1. <<Head(s)>> \in Seq(S) /\ Len(<<Head(s)>>) = 1 /\ <<Head(s)>>[1] = Head(s)
    BY <1>1
  <2>2. /\ Len(s) \in Nat \ {0} /\ Len(Tail(s)) = Len(s) - 1 /\ Head(s) = s[1]
        /\ \A i \in 1 .. Len(Tail(s)) : Tail(s)[i] = s[i + 1]
    BY HeadTailProperties, EmptySeq
  <2>3. /\ <<Head(s)>> \o Tail(s) \in Seq(S)
        /\ Len(<<Head(s)>> \o Tail(s)) = 1 + Len(Tail(s))
        /\ \A i \in 1 .. 1 + Len(Tail(s)) :
              (<<Head(s)>> \o Tail(s))[i] =
                 IF i <= 1 THEN <<Head(s)>>[i] ELSE Tail(s)[i - 1]
    BY <1>1, <2>1, ConcatProperties
  <2>4. \A i \in 1 .. Len(s) : s[i] = (<<Head(s)>> \o Tail(s))[i]
    BY <2>1, <2>2, <2>3
  <2> QED
    BY <2>2, <2>3, <2>4, SeqEqual
<1>4. Range(<<Head(s)>>) = {Head(s)} /\ <<Head(s)>> \in Seq(S)
  BY <1>1 DEF Range
<1>5. ASSUME NEW h \in Seq(S)
      PROVE  Range(h \o Tail(s)) = Range(h) \cup Range(Tail(s))
  BY <1>1, RangeConcatenation, ZenonT(30)
<1>6. Range(s) = {Head(s)} \cup Range(Tail(s))
  BY <1>3, <1>4, <1>5, Zenon
<1> QED
  BY <1>1, <1>2, <1>6, ConcatProperties

\* What stands in a list is in its range.
LEMMA InRange ==
  ASSUME NEW S, NEW s \in Seq(S), NEW i \in 1 .. Len(s)
  PROVE  s[i] \in Range(s)
  BY DEF Range

\* Restarts stay followed by a check when no restart is put in front.
LEMMA RecheckedStays ==
  ASSUME NEW S, NEW s \in Seq(S), s # << >>, NEW cmds \in Seq(S), Rechecked(s),
         Cmd("restart", API) \notin Range(cmds)
  PROVE  Rechecked(cmds \o Tail(s))
<1> DEFINE t == cmds \o Tail(s)
           c == Cmd("restart", API)
           d == Cmd("check_status", API)
<1>1. /\ Len(s) \in Nat \ {0} /\ Len(Tail(s)) = Len(s) - 1 /\ Tail(s) \in Seq(S)
      /\ \A i \in 1 .. Len(Tail(s)) : Tail(s)[i] = s[i + 1]
  BY HeadTailProperties, EmptySeq
<1>2. /\ Len(t) = Len(cmds) + Len(Tail(s)) /\ Len(cmds) \in Nat
      /\ \A i \in 1 .. Len(t) :
            t[i] = IF i <= Len(cmds) THEN cmds[i] ELSE Tail(s)[i - Len(cmds)]
  BY <1>1, ConcatProperties
<1>3. \A i \in 1 .. Len(cmds) : cmds[i] # c
  BY DEF Range
<1> SUFFICES ASSUME NEW i \in 1 .. Len(t), t[i] = c
             PROVE  \E j \in i + 1 .. Len(t) : t[j] = d
  BY DEF Rechecked
<1> HIDE DEF t, c, d
<1>4. i > Len(cmds) /\ t[i] = s[i - Len(cmds) + 1] /\ i - Len(cmds) + 1 \in 1 .. Len(s)
  <2>1. i > Len(cmds)
    BY <1>1, <1>2, <1>3
  <2>2. i - Len(cmds) \in 1 .. Len(Tail(s)) /\ ~ (i <= Len(cmds))
    BY <1>1, <1>2, <2>1
  <2>3. t[i] = Tail(s)[i - Len(cmds)]
    BY <1>2, <2>2
  <2>4. Tail(s)[i - Len(cmds)] = s[i - Len(cmds) + 1]
    BY <1>1, <2>2
  <2>5. i - Len(cmds) + 1 \in 1 .. Len(s)
    <3>1. Len(s) \in Nat /\ Len(Tail(s)) = Len(s) - 1 /\ Len(cmds) \in Nat
      BY <1>1, <1>2
    <3> QED
      BY <2>2, <3>1
  <2> QED
    BY <2>1, <2>3, <2>4, <2>5
<1>5. PICK k \in (i - Len(cmds) + 1) + 1 .. Len(s) : s[k] = d
  BY <1>4 DEF Rechecked, c, d
<1>6. k + Len(cmds) - 1 \in i + 1 .. Len(t) /\ t[k + Len(cmds) - 1] = s[k]
  <2>1. /\ Len(t) = Len(cmds) + Len(Tail(s)) /\ Len(Tail(s)) = Len(s) - 1
        /\ Len(cmds) \in Nat /\ Len(s) \in Nat
    BY <1>1, <1>2
  <2>2. /\ k + Len(cmds) - 1 \in i + 1 .. Len(t)
        /\ ~ (k + Len(cmds) - 1 <= Len(cmds))
        /\ (k + Len(cmds) - 1) - Len(cmds) = k - 1 /\ k - 1 \in 1 .. Len(Tail(s))
        /\ k + Len(cmds) - 1 \in 1 .. Len(t)
    BY <1>4, <2>1
  <2>3. t[k + Len(cmds) - 1] = Tail(s)[k - 1]
    BY <1>2, <2>2
  <2>4. Tail(s)[k - 1] = s[k]
    BY <1>1, <2>2
  <2> QED
    BY <2>2, <2>3, <2>4
<1> QED
  BY <1>5, <1>6

\* A check is left after the restart at the head.
LEMMA RecheckIsLeft ==
  ASSUME NEW S, NEW s \in Seq(S), s # << >>, Rechecked(s), Head(s) = Cmd("restart", API)
  PROVE  Cmd("check_status", API) \in Range(Tail(s))
<1>1. /\ Len(s) \in Nat \ {0} /\ Len(Tail(s)) = Len(s) - 1 /\ Tail(s) \in Seq(S)
      /\ \A i \in 1 .. Len(Tail(s)) : Tail(s)[i] = s[i + 1]
      /\ Head(s) = s[1]
  BY HeadTailProperties, EmptySeq
<1>2. PICK j \in 2 .. Len(s) : s[j] = Cmd("check_status", API)
  BY <1>1 DEF Rechecked
<1>3. j - 1 \in 1 .. Len(Tail(s)) /\ Tail(s)[j - 1] = Cmd("check_status", API)
  BY <1>1, <1>2
<1> QED
  BY <1>1, <1>3, InRange

\* The same of the list of commands.
LEMMA Replaced ==
  ASSUME NEW S, todo \in Seq(S), todo # << >>, NEW cmds \in Seq(S), Then(cmds)
  PROVE  /\ Head(todo) \in S /\ todo' \in Seq(S)
         /\ \A c : c \in Left' <=> c \in Range(cmds) \/ c \in Range(Tail(todo))
         /\ \A c : c \in Left <=> c = Head(todo) \/ c \in Range(Tail(todo))
         /\ UNCHANGED <<task, code>>
  BY ReplaceHead DEF Then, Left

\* A command that is done and gives way to none.
LEMMA NoneIsASequence == \A S : << >> \in Seq(S) /\ Range(<< >>) = {}
  BY DEF Range

-----------------------------------------------------------------------------
(* The lists the script begins its parts with. *)

\* The lists of commands each part begins with.
LEMMA DeployList ==
  ASSUME ScriptAssumption
  PROVE  /\ ci_deploy \in Seq(DeployCmds)
         /\ \A n \in Range(Apps) : Cmd("active", n) \in Range(ci_deploy)
<1> DEFINE a == <<Cmd("prereq", "")>>
           b == Over("ns", NS)
           c == Over("active", Apps)
<1>1. a \in Seq(DeployCmds)
  BY DEF DeployCmds
<1>2. b \in Seq(DeployCmds)
  <2>1. {Cmd("ns", n) : n \in Range(NS)} \subseteq DeployCmds
    BY DEF DeployCmds
  <2> QED
    BY <2>1, OverLists, SeqMonotonic DEF ScriptAssumption
<1>3. c \in Seq(DeployCmds) /\ Range(c) = {Cmd("active", n) : n \in Range(Apps)}
  <2>1. {Cmd("active", n) : n \in Range(Apps)} \subseteq DeployCmds
    BY DEF DeployCmds
  <2> QED
    BY <2>1, OverLists, SeqMonotonic DEF ScriptAssumption
<1> HIDE DEF a, b, c
<1>4. a \o b \in Seq(DeployCmds)
  BY <1>1, <1>2, ConcatProperties
<1>5. /\ (a \o b) \o c \in Seq(DeployCmds)
      /\ Range((a \o b) \o c) = Range(a \o b) \cup Range(c)
  <2>1. ASSUME NEW d \in Seq(DeployCmds)
        PROVE  d \o c \in Seq(DeployCmds) /\ Range(d \o c) = Range(d) \cup Range(c)
    BY <1>3, ConcatProperties, RangeConcatenation
  <2> QED
    BY <1>4, <2>1
<1> QED
  BY <1>3, <1>5 DEF ci_deploy, a, b, c

LEMMA GatherList ==
  ASSUME ScriptAssumption
  PROVE  /\ must_gather \o <<Cmd("exit", 1)>> \in Seq(GatherCmds)
         /\ Cmd("exit", 1) \in Range(must_gather \o <<Cmd("exit", 1)>>)
<1> DEFINE a == Over("pods", NS)
           b == <<Cmd("nodes", "")>>
           c == <<Cmd("exit", 1)>>
<1>1. a \in Seq(GatherCmds)
  <2>1. {Cmd("pods", n) : n \in Range(NS)} \subseteq GatherCmds
    BY DEF GatherCmds
  <2> QED
    BY <2>1, OverLists, SeqMonotonic DEF ScriptAssumption
<1>2. b \in Seq(GatherCmds) /\ c \in Seq(GatherCmds)
  BY DEF GatherCmds
<1>3. Cmd("exit", 1) \in Range(c)
  BY DEF Range
<1> HIDE DEF a, b, c
<1>4. a \o b \in Seq(GatherCmds)
  BY <1>1, <1>2, ConcatProperties
<1>5. ASSUME NEW d \in Seq(GatherCmds)
      PROVE  d \o c \in Seq(GatherCmds) /\ Range(d \o c) = Range(d) \cup Range(c)
  BY <1>2, ConcatProperties, RangeConcatenation
<1> QED
  BY <1>3, <1>4, <1>5 DEF must_gather, a, b, c

LEMMA TestList ==
  ASSUME ScriptAssumption
  PROVE  /\ run_test \in Seq(TestCmds)
         /\ \A n \in Range(NS) : Cmd("statefulsets", n) \in Range(run_test)
         /\ Cmd("wait_job", "") \in Range(run_test)
         /\ Cmd("check_status", API) \in Range(run_test)
         /\ Rechecked(run_test)
<1> DEFINE a == Over("statefulsets", NS)
           b == <<Cmd("tenant", ""), Cmd("restart", API), Cmd("check_status", API),
                  Cmd("up_metrics", ""), Cmd("wait_job", "")>>
<1>1. a \in Seq(TestCmds) /\ Range(a) = {Cmd("statefulsets", n) : n \in Range(NS)}
  <2>1. {Cmd("statefulsets", n) : n \in Range(NS)} \subseteq TestCmds
    BY DEF TestCmds
  <2> QED
    BY <2>1, OverLists, SeqMonotonic DEF ScriptAssumption
<1>2. b \in Seq(TestCmds) /\ Len(b) = 5
  <2>1. ASSUME NEW S, NEW c1 \in S, NEW c2 \in S, NEW c3 \in S, NEW c4 \in S, NEW c5 \in S
        PROVE  <<c1, c2, c3, c4, c5>> \in Seq(S) /\ Len(<<c1, c2, c3, c4, c5>>) = 5
    OBVIOUS
  <2>2. /\ Cmd("tenant", "") \in TestCmds /\ Cmd("restart", API) \in TestCmds
        /\ Cmd("check_status", API) \in TestCmds /\ Cmd("up_metrics", "") \in TestCmds
        /\ Cmd("wait_job", "") \in TestCmds
    <3>1. Cmd("check_status", API) \in {Cmd("check_status", w) : w \in Workloads}
      BY DEF ScriptAssumption
    <3> QED
      BY <3>1 DEF TestCmds
  <2> QED
    BY <2>1, <2>2
<1>b. /\ b[2] = Cmd("restart", API) /\ b[3] = Cmd("check_status", API)
      /\ b[5] = Cmd("wait_job", "")
      /\ \A i \in 1 .. 5 : b[i] = Cmd("restart", API) => i = 2
  <2>1. /\ Cmd("tenant", "") # Cmd("restart", API)
        /\ Cmd("check_status", API) # Cmd("restart", API)
        /\ Cmd("up_metrics", "") # Cmd("restart", API)
        /\ Cmd("wait_job", "") # Cmd("restart", API)
    BY DEF Cmd
  <2>2. \A i \in 1 .. 5 : i = 1 \/ i = 2 \/ i = 3 \/ i = 4 \/ i = 5
    OBVIOUS
  <2>3. /\ b[1] = Cmd("tenant", "") /\ b[2] = Cmd("restart", API)
        /\ b[3] = Cmd("check_status", API) /\ b[4] = Cmd("up_metrics", "")
        /\ b[5] = Cmd("wait_job", "")
    OBVIOUS
  <2> HIDE DEF b
  <2>4. \A i \in 1 .. 5 : b[i] = Cmd("restart", API) => i = 2
    BY <2>1, <2>2, <2>3
  <2> QED
    BY <2>3, <2>4
<1> HIDE DEF a, b
<1>3. /\ a \o b \in Seq(TestCmds) /\ Range(a \o b) = Range(a) \cup Range(b)
      /\ Len(a \o b) = Len(a) + 5 /\ Len(a) \in Nat
      /\ \A i \in 1 .. Len(a) + 5 :
            (a \o b)[i] = IF i <= Len(a) THEN a[i] ELSE b[i - Len(a)]
  <2>1. ASSUME NEW c \in Seq(TestCmds), NEW d \in Seq(TestCmds), Len(d) = 5
        PROVE  /\ c \o d \in Seq(TestCmds) /\ Range(c \o d) = Range(c) \cup Range(d)
               /\ Len(c \o d) = Len(c) + 5 /\ Len(c) \in Nat
               /\ \A i \in 1 .. Len(c) + 5 :
                     (c \o d)[i] = IF i <= Len(c) THEN c[i] ELSE d[i - Len(c)]
    <3>1. /\ c \o d \in Seq(TestCmds) /\ Len(c \o d) = Len(c) + Len(d) /\ Len(c) \in Nat
          /\ \A i \in 1 .. Len(c) + Len(d) :
                (c \o d)[i] = IF i <= Len(c) THEN c[i] ELSE d[i - Len(c)]
      BY ConcatProperties
    <3>2. Range(c \o d) = Range(c) \cup Range(d)
      BY RangeConcatenation
    <3> QED
      BY <2>1, <3>1, <3>2
  <2> QED
    BY <1>1, <1>2, <2>1
<1>4. Cmd("wait_job", "") \in Range(b) /\ Cmd("check_status", API) \in Range(b)
  <2>1. 3 \in 1 .. Len(b) /\ 5 \in 1 .. Len(b)
    BY <1>2
  <2>2. b[3] \in Range(b) /\ b[5] \in Range(b)
    BY <1>2, <2>1, InRange
  <2> QED
    BY <1>b, <2>2
<1>5. \A i \in 1 .. Len(a) : a[i] # Cmd("restart", API)
  <2>1. \A i \in 1 .. Len(a) : a[i] \in Range(a)
    BY <1>1, InRange
  <2>2. \A n : Cmd("statefulsets", n) # Cmd("restart", API)
    BY DEF Cmd
  <2> QED
    BY <1>1, <2>1, <2>2
<1>6. Rechecked(a \o b)
  <2> SUFFICES ASSUME NEW i \in 1 .. Len(a \o b), (a \o b)[i] = Cmd("restart", API)
               PROVE  \E j \in i + 1 .. Len(a \o b) : (a \o b)[j] = Cmd("check_status", API)
    BY DEF Rechecked
  <2>1. i > Len(a)
    BY <1>3, <1>5
  <2>2. b[i - Len(a)] = Cmd("restart", API) /\ i - Len(a) \in 1 .. 5
    BY <1>3, <2>1
  <2>3. i = Len(a) + 2
    <3>1. i - Len(a) = 2
      BY <1>b, <2>2
    <3> QED
      BY <1>3, <3>1
  <2>4. (a \o b)[i + 1] = b[3] /\ i + 1 \in i + 1 .. Len(a \o b)
    BY <1>3, <2>3
  <2> QED
    BY <1>b, <2>4
<1> QED
  BY <1>1, <1>3, <1>4, <1>6 DEF run_test, a, b

-----------------------------------------------------------------------------
(* The invariant. *)

\* The deployment that is about to begin satisfies the invariant.
THEOREM ScriptInitially ==
  ASSUME ScriptAssumption, ScriptInit
  PROVE  ScriptInv
<1>1. FailInv /\ CodeInv /\ SeenInv
  BY DEF ScriptInit, FailInv, CodeInv, SeenInv
<1>2. todo \in Seq(DeployCmds) /\ \A n \in Range(Apps) : Cmd("active", n) \in Left
  BY DeployList DEF ScriptInit, Left
<1>3. TodoInv
  BY <1>2 DEF ScriptInit, TodoInv
<1>4. AppliedInv
  BY <1>2 DEF AppliedInv
<1> QED
  BY <1>1, <1>3, <1>4 DEF ScriptInv

\* The kinds of commands of each part.
LEMMA DeployKinds ==
  ASSUME NEW c \in DeployCmds
  PROVE  \/ c.op = "prereq"
         \/ c.op = "ns" /\ c.arg \in Range(NS)
         \/ c.op = "active" /\ c.arg \in Range(Apps) /\ c = Cmd("active", c.arg)
         \/ c.op = "apply" /\ c.arg \in Range(Apps) /\ c = Cmd("apply", c.arg)
<1>1. CASE c = Cmd("prereq", "")
  BY <1>1, CmdFields
<1>2. CASE \E n \in Range(NS) : c = Cmd("ns", n)
  BY <1>2, CmdFields
<1>3. CASE \E n \in Range(Apps) : c = Cmd("active", n)
  <2>1. PICK n \in Range(Apps) : c = Cmd("active", n)
    BY <1>3
  <2>2. c.op = "active" /\ c.arg = n
    BY <2>1, CmdFields
  <2> QED
    BY <2>1, <2>2
<1>4. CASE \E n \in Range(Apps) : c = Cmd("apply", n)
  <2>1. PICK n \in Range(Apps) : c = Cmd("apply", n)
    BY <1>4
  <2>2. c.op = "apply" /\ c.arg = n
    BY <2>1, CmdFields
  <2> QED
    BY <2>1, <2>2
<1> QED
  BY <1>1, <1>2, <1>3, <1>4 DEF DeployCmds

LEMMA TestKinds ==
  ASSUME NEW c \in TestCmds
  PROVE  \/ c.op \in {"tenant", "up_metrics"}
         \/ c.op = "restart" /\ c = Cmd("restart", API)
         \/ c.op = "wait_job" /\ c = Cmd("wait_job", "")
         \/ c.op = "statefulsets" /\ c.arg \in Range(NS) /\ c = Cmd("statefulsets", c.arg)
         \/ c.op = "check_status" /\ c.arg \in Workloads /\ c = Cmd("check_status", c.arg)
         \/ /\ c.op = "deployments" /\ c.arg.ns \in Range(NS)
            /\ c.arg.found \in SUBSET Sts[c.arg.ns]
            /\ c = Cmd("deployments", [ns |-> c.arg.ns, found |-> c.arg.found])
<1>1. CASE c \in {Cmd("tenant", ""), Cmd("restart", API), Cmd("up_metrics", ""),
                  Cmd("wait_job", "")}
  <2>1. /\ Cmd("tenant", "").op = "tenant" /\ Cmd("restart", API).op = "restart"
        /\ Cmd("up_metrics", "").op = "up_metrics" /\ Cmd("wait_job", "").op = "wait_job"
    BY CmdFields
  <2> QED
    BY <1>1, <2>1
<1>2. CASE c \in {Cmd("statefulsets", n) : n \in Range(NS)}
  <2>1. PICK n \in Range(NS) : c = Cmd("statefulsets", n)
    BY <1>2
  <2>2. c.op = "statefulsets" /\ c.arg = n
    BY <2>1, CmdFields
  <2> QED
    BY <2>1, <2>2
<1>3. CASE c \in {Cmd("check_status", w) : w \in Workloads}
  <2>1. PICK w \in Workloads : c = Cmd("check_status", w)
    BY <1>3
  <2>2. c.op = "check_status" /\ c.arg = w
    BY <2>1, CmdFields
  <2> QED
    BY <2>1, <2>2
<1>4. CASE \E n \in Range(NS) : \E S \in SUBSET Sts[n] :
              c = Cmd("deployments", [ns |-> n, found |-> S])
  <2>0. PICK n \in Range(NS) : \E S \in SUBSET Sts[n] :
               c = Cmd("deployments", [ns |-> n, found |-> S])
    BY <1>4
  <2>1. PICK S \in SUBSET Sts[n] : c = Cmd("deployments", [ns |-> n, found |-> S])
    BY <2>0
  <2>2. c.op = "deployments" /\ c.arg = [ns |-> n, found |-> S]
    BY <2>1, CmdFields
  <2>3. c.arg.ns = n /\ c.arg.found = S
    BY <2>2
  <2> QED
    BY <2>1, <2>2, <2>3
<1> QED
  BY <1>1, <1>2, <1>3, <1>4 DEF TestCmds

LEMMA GatherKinds ==
  ASSUME NEW c \in GatherCmds
  PROVE  \/ c.op = "nodes"
         \/ c.op = "exit" /\ c.arg = 1 /\ c = Cmd("exit", 1)
         \/ c.op = "pods" /\ c.arg \in Range(NS)
         \/ c.op \in {"describe", "containers", "logs"} /\ c.arg \in Workloads
<1>1. CASE c \in {Cmd("nodes", ""), Cmd("exit", 1)}
  <2>1. c = Cmd("nodes", "") => c.op = "nodes"
    BY CmdFields
  <2>2. c = Cmd("exit", 1) => c.op = "exit" /\ c.arg = 1
    BY CmdFields
  <2> QED
    BY <1>1, <2>1, <2>2
<1>2. CASE c \in {Cmd("pods", n) : n \in Range(NS)}
  BY <1>2, CmdFields
<1>3. CASE \E w \in Workloads : \E op \in {"describe", "containers", "logs"} : c = Cmd(op, w)
  <2>1. PICK w \in Workloads : \E op \in {"describe", "containers", "logs"} : c = Cmd(op, w)
    BY <1>3
  <2>2. c.arg = w /\ c.op \in {"describe", "containers", "logs"}
    BY <2>1, CmdFields
  <2> QED
    BY <2>2
<1> QED
  BY <1>1, <1>2, <1>3 DEF GatherCmds

\* errexit, and the branch that gathers first, fail the run.
LEMMA FailingSteps ==
  ASSUME ScriptAssumption, ScriptInv, todo # << >>, Errexit \/ OtherwiseGather
  PROVE  ScriptInv'
<1>1. CASE Errexit
  BY <1>1 DEF Errexit, ScriptInv, FailInv, CodeInv, TodoInv, AppliedInv, SeenInv
<1>2. CASE OtherwiseGather
  <2>1. code = NoCode /\ code' = NoCode /\ failed'
    BY <1>2 DEF OtherwiseGather, ScriptInv, CodeInv
  <2>2. todo' \in Seq(GatherCmds) /\ Cmd("exit", 1) \in Left'
    BY <1>2, GatherList DEF OtherwiseGather, Left
  <2> QED
    BY <2>1, <2>2 DEF ScriptInv, FailInv, CodeInv, TodoInv, AppliedInv, SeenInv
<1> QED
  BY <1>1, <1>2

\* While it gathers, a failed run goes on to its exit.
LEMMA GatheringSteps ==
  ASSUME ScriptInv, failed, todo # << >>, NEW cmds \in Seq(GatherCmds),
         Head(todo).op # "exit", Then(cmds), failed' = failed
  PROVE  ScriptInv'
<1>1. code = NoCode /\ todo \in Seq(GatherCmds) /\ Cmd("exit", 1) \in Left
  BY DEF ScriptInv, FailInv, CodeInv, NoCode
<1>2. todo' \in Seq(GatherCmds) /\ code' = code
      /\ \A c : c \in Left /\ c # Head(todo) => c \in Left'
  BY <1>1, Replaced
<1>3. Cmd("exit", 1) # Head(todo)
  BY CmdFields
<1> QED
  BY <1>1, <1>2, <1>3 DEF ScriptInv, FailInv, CodeInv, TodoInv, AppliedInv, SeenInv

\* While it deploys, the run applies what is left.
LEMMA DeploySteps ==
  ASSUME ScriptInv, ~ failed, task = "deploy", todo # << >>,
         NEW cmds \in Seq(DeployCmds), Then(cmds), failed' = failed,
         exists \subseteq exists', Applied \subseteq Applied',
         Head(todo).op = "active" =>
            Head(todo).arg \in exists /\ Cmd("apply", Head(todo).arg) \in Range(cmds),
         Head(todo).op = "apply" => Of(Head(todo).arg) \subseteq Applied'
  PROVE  ScriptInv'
<1>1. code = NoCode /\ todo \in Seq(DeployCmds)
  BY DEF ScriptInv, TodoInv
<1>2. /\ todo' \in Seq(DeployCmds) /\ UNCHANGED <<task, code>>
      /\ \A c : c \in Left /\ c # Head(todo) => c \in Left'
      /\ \A c : c \in Range(cmds) => c \in Left'
  BY <1>1, Replaced
<1>3. FailInv' /\ CodeInv' /\ TodoInv' /\ SeenInv'
  BY <1>1, <1>2 DEF FailInv, CodeInv, TodoInv, SeenInv
<1>4. AppliedInv'
  <2> SUFFICES ASSUME NEW n \in Range(Apps)
               PROVE  /\ n \in exists' \/ Cmd("active", n) \in Left'
                      /\ \/ Of(n) \subseteq Applied' \/ Cmd("active", n) \in Left'
                         \/ Cmd("apply", n) \in Left'
    BY DEF AppliedInv, Of
  <2>1. /\ n \in exists \/ Cmd("active", n) \in Left
        /\ Of(n) \subseteq Applied \/ Cmd("active", n) \in Left \/ Cmd("apply", n) \in Left
    BY DEF ScriptInv, AppliedInv
  <2>2. CASE Head(todo) = Cmd("active", n)
    BY <1>2, <2>2, CmdFields
  <2>3. CASE Head(todo) = Cmd("apply", n)
    BY <1>2, <2>1, <2>3, CmdFields
  <2>4. CASE Head(todo) # Cmd("active", n) /\ Head(todo) # Cmd("apply", n)
    BY <1>2, <2>1, <2>4
  <2> QED
    BY <2>2, <2>3, <2>4
<1> QED
  BY <1>3, <1>4 DEF ScriptInv

\* While it tests, the run sees what is left.
LEMMA TestingSteps ==
  ASSUME ScriptInv, ~ failed, task = "tests", todo # << >>,
         NEW cmds \in Seq(TestCmds), Then(cmds), failed' = failed,
         Cmd("restart", API) \notin Range(cmds),
         exists' = exists, Applied' = Applied, SeenInv'
  PROVE  ScriptInv'
<1>1. todo \in Seq(TestCmds) /\ Rechecked(todo) /\ code = NoCode
  BY DEF ScriptInv, TodoInv, CodeInv
<1>2. todo' \in Seq(TestCmds) /\ UNCHANGED <<task, code>>
  BY <1>1, Replaced
<1>3. Rechecked(todo')
  BY <1>1, RecheckedStays DEF Then
<1>4. AppliedInv'
  <2>1. \A n : Cmd("active", n) \notin Left /\ Cmd("apply", n) \notin Left
    <3>1. Left \subseteq TestCmds
      BY <1>1, RangeOfSeq DEF Left
    <3>2. \A n : Cmd("active", n) \notin TestCmds /\ Cmd("apply", n) \notin TestCmds
      <4>1. ASSUME NEW n, NEW c \in TestCmds, c = Cmd("active", n) \/ c = Cmd("apply", n)
            PROVE  FALSE
        <5>1. c.op \in {"active", "apply"}
          BY <4>1, CmdFields
        <5> QED
          BY <5>1, TestKinds
      <4> QED
        BY <4>1
    <3> QED
      BY <3>1, <3>2
  <2>2. \A n \in Range(Apps) : n \in exists /\ Of(n) \subseteq Applied
    BY <2>1 DEF ScriptInv, AppliedInv
  <2> QED
    BY <2>2 DEF AppliedInv, Of
<1> QED
  BY <1>1, <1>2, <1>3, <1>4 DEF ScriptInv, FailInv, CodeInv, TodoInv, Rechecked

\* Nothing is left of an empty list, and a run that gathers has its exit left.
LEMMA EmptyList ==
  ASSUME ScriptInv, todo = << >>, code = NoCode
  PROVE  Left = {} /\ ~ failed
<1>1. Left = {}
  BY DEF Left, Range
<1> QED
  BY <1>1 DEF ScriptInv, FailInv, NoCode

\* The tests begin when all of the deployment is done.
LEMMA StartingTests ==
  ASSUME ScriptAssumption, ScriptInv, StartTests
  PROVE  ScriptInv'
<1>1. /\ task = "deploy" /\ todo = << >> /\ code = NoCode /\ task' = "tests"
      /\ todo' = run_test /\ code' = code /\ failed' = failed
      /\ exists' = exists /\ pod' = pod
  BY DEF StartTests, clusterState
<1>2. Left = {} /\ ~ failed
  BY <1>1, EmptyList
<1>3. \A n \in Range(Apps) : n \in exists /\ Of(n) \subseteq Applied
  BY <1>2 DEF ScriptInv, AppliedInv
<1>4. AppliedInv'
  BY <1>1, <1>3 DEF AppliedInv, Of, Applied
<1>5. TodoInv'
  BY <1>1, TestList DEF TodoInv, Rechecked
<1>6. SeenInv'
  BY <1>1, TestList DEF SeenInv, Accounted, Left
<1> QED
  BY <1>1, <1>2, <1>4, <1>5, <1>6 DEF ScriptInv, FailInv, CodeInv

\* A job ends with 0 when nothing is left, and with 1 when it has gathered.
LEMMA Finishing ==
  ASSUME ScriptInv, Finish
  PROVE  ScriptInv'
<1>1. /\ task = "tests" /\ todo = << >> /\ code = NoCode /\ code' = 0
      /\ UNCHANGED <<task, todo, failed, exists, pod, seen, unlisted, jobSeen>>
  BY DEF Finish, clusterState, verdictState
<1>2. ~ failed
  BY <1>1, EmptyList
<1> QED
  BY <1>1, <1>2 DEF ScriptInv, FailInv, CodeInv, TodoInv, AppliedInv, SeenInv,
                    Accounted, Rechecked, Left, Applied, Of

LEMMA Exiting ==
  ASSUME ScriptInv, Exit
  PROVE  ScriptInv'
<1>1. todo # << >> /\ Head(todo).op = "exit" /\ code' = Head(todo).arg /\ todo' = << >>
      /\ failed' = failed
  BY DEF Exit, Runs, Arg
<1>2. CASE failed
  <2>1. todo \in Seq(GatherCmds)
    BY <1>1, <1>2 DEF ScriptInv, FailInv, CodeInv, NoCode
  <2>2. Head(todo) \in GatherCmds
    BY <1>1, <2>1, HeadTailProperties
  <2>3. code' = 1
    BY <1>1, <2>2, GatherKinds
  <2> QED
    BY <1>1, <1>2, <2>3 DEF ScriptInv, FailInv, CodeInv, TodoInv, AppliedInv, SeenInv
<1>3. CASE ~ failed
  <2>1. todo \in Seq(DeployCmds) \/ todo \in Seq(TestCmds)
    BY <1>3 DEF ScriptInv, TodoInv
  <2>2. Head(todo) \in DeployCmds \/ Head(todo) \in TestCmds
    BY <1>1, <2>1, HeadTailProperties
  <2> QED
    BY <1>1, <2>2, DeployKinds, TestKinds
<1> QED
  BY <1>2, <1>3

\* The pods move: the list and what has been seen stay.
LEMMA PodsMoving ==
  ASSUME ScriptInv, PodMoves
  PROVE  ScriptInv'
<1>1. Applied' = Applied
  BY DEF PodMoves, Applied
<1> QED
  BY <1>1 DEF PodMoves, ScriptInv, FailInv, CodeInv, TodoInv, AppliedInv, SeenInv,
              Accounted, Rechecked, Left, Of, verdictState

\* Each step of a gathering, a deploying and a testing run keeps the invariant.
LEMMA GatherStep ==
  ASSUME ScriptAssumption, ScriptInv, failed, ScriptStep
  PROVE  ScriptInv'
<1>1. CASE Exit
  BY <1>1, Exiting
<1>2. CASE Finish
  BY <1>2, Finishing
<1>3. CASE StartTests
  BY <1>3, StartingTests
<1>4. CASE todo # << >> /\ (Errexit \/ OtherwiseGather)
  BY <1>4, FailingSteps
<1>5. ASSUME todo # << >>, ~ Exit, ~ Errexit, ~ OtherwiseGather
      PROVE  ScriptInv'
  <2>1. todo \in Seq(GatherCmds)
    BY <1>5 DEF ScriptInv, FailInv, CodeInv, NoCode
  <2>2. Head(todo) \in GatherCmds
    BY <1>5, <2>1, HeadTailProperties
  <2>3. ~ Runs("prereq") /\ ~ Runs("tenant") /\ ~ Runs("up_metrics") /\ ~ CreateNamespace
        /\ ~ WaitActive /\ ~ Apply /\ ~ ListStatefulSets /\ ~ ListDeployments
        /\ ~ CheckStatus /\ ~ Restart /\ ~ WaitJob
    BY <2>2, GatherKinds DEF Runs, CreateNamespace, WaitActive, Apply, ListStatefulSets,
          ListDeployments, CheckStatus, Restart, WaitJob
  <2>4. ~ StartTests /\ ~ Finish
    BY <1>5 DEF StartTests, Finish
  <2>5. CASE Plain
    <3>1. Then(<< >>) /\ Head(todo).op = "nodes" /\ failed' = failed
      BY <1>5, <2>3, <2>5 DEF Plain, Go, Runs
    <3> QED
      BY <1>5, <3>1, NoneIsASequence, GatheringSteps
  <2>6. CASE GatherPods
    <3> DEFINE T == {w \in Of(Head(todo).arg) \cap Applied : pod[w] # "absent"}
    <3>1. /\ Head(todo).op = "pods" /\ failed' = failed
          /\ Then(Each("describe", T)) \/ Then(<< >>)
      BY <2>6 DEF GatherPods, Go, Runs, Arg
    <3>2. Head(todo).arg \in Range(NS)
      BY <2>2, <3>1, GatherKinds
    <3>3. IsFiniteSet(T) /\ T \subseteq Workloads
      <4>1. IsFiniteSet(Of(Head(todo).arg))
        BY <3>2 DEF ScriptAssumption
      <4>2. T \in SUBSET Of(Head(todo).arg)
        OBVIOUS
      <4>3. IsFiniteSet(T)
        BY <4>1, <4>2, FS_Subset
      <4> QED
        BY <3>2, <4>2, <4>3 DEF Workloads, Of
    <3> HIDE DEF T
    <3>4. {Cmd("describe", w) : w \in T} \subseteq GatherCmds
      BY <3>3 DEF GatherCmds
    <3>5. Each("describe", T) \in Seq(GatherCmds)
      BY <3>3, <3>4, EachLists, SeqMonotonic
    <3> QED
      BY <1>5, <3>1, <3>5, NoneIsASequence, GatheringSteps
  <2>7. CASE Describe
    <3>1. /\ Head(todo).op = "describe" /\ failed' = failed
          /\ Then(<<Cmd("containers", Head(todo).arg)>>)
      BY <1>5, <2>7 DEF Describe, Runs, Arg
    <3>2. <<Cmd("containers", Head(todo).arg)>> \in Seq(GatherCmds)
      <4>1. Head(todo).arg \in Workloads
        BY <2>2, <3>1, GatherKinds
      <4>2. Cmd("containers", Head(todo).arg) \in GatherCmds
        BY <4>1 DEF GatherCmds
      <4> QED
        BY <4>2
    <3> QED
      BY <1>5, <3>1, <3>2, GatheringSteps
  <2>8. CASE Containers
    <3>1. /\ Head(todo).op = "containers" /\ failed' = failed
          /\ Then(<<Cmd("logs", Head(todo).arg)>>) \/ Then(<< >>)
      BY <1>5, <2>8 DEF Containers, Runs, Arg, Go
    <3>2. <<Cmd("logs", Head(todo).arg)>> \in Seq(GatherCmds)
      <4>1. Head(todo).arg \in Workloads
        BY <2>2, <3>1, GatherKinds
      <4>2. Cmd("logs", Head(todo).arg) \in GatherCmds
        BY <4>1 DEF GatherCmds
      <4> QED
        BY <4>2
    <3> QED
      BY <1>5, <3>1, <3>2, NoneIsASequence, GatheringSteps
  <2>9. CASE Logs
    <3>1. Head(todo).op = "logs" /\ failed' = failed /\ Then(<< >>)
      BY <1>5, <2>9 DEF Logs, Runs, Arg, Go
    <3> QED
      BY <1>5, <3>1, NoneIsASequence, GatheringSteps
  <2> QED
    BY <1>5, <2>3, <2>4, <2>5, <2>6, <2>7, <2>8, <2>9 DEF ScriptStep
<1>6. todo = << >> => Finish \/ StartTests
  BY DEF ScriptStep, Plain, CreateNamespace, WaitActive, Apply, ListStatefulSets,
         ListDeployments, CheckStatus, Restart, WaitJob, Exit, GatherPods, Describe,
         Containers, Logs, Runs
<1> QED
  BY <1>1, <1>2, <1>3, <1>4, <1>5, <1>6

LEMMA DeployStep ==
  ASSUME ScriptAssumption, ScriptInv, ~ failed, task = "deploy", ScriptStep
  PROVE  ScriptInv'
<1>1. CASE Exit
  BY <1>1, Exiting
<1>2. CASE StartTests
  BY <1>2, StartingTests
<1>3. ASSUME todo # << >>, ~ Exit, ~ Errexit
      PROVE  ScriptInv'
  <2>1. todo \in Seq(DeployCmds)
    BY DEF ScriptInv, TodoInv
  <2>2. Head(todo) \in DeployCmds
    BY <1>3, <2>1, HeadTailProperties
  <2>3. /\ ~ ListStatefulSets /\ ~ ListDeployments /\ ~ CheckStatus /\ ~ Restart /\ ~ WaitJob
        /\ ~ GatherPods /\ ~ Describe /\ ~ Containers /\ ~ Logs
    BY <2>2, DeployKinds DEF Runs, ListStatefulSets, ListDeployments, CheckStatus, Restart,
          WaitJob, GatherPods, Describe, Containers, Logs
  <2>4. ~ StartTests /\ ~ Finish
    BY <1>3 DEF StartTests, Finish
  <2>5. CASE Plain
    <3>1. /\ Then(<< >>) /\ Head(todo).op \notin {"active", "apply"}
          /\ UNCHANGED <<failed, exists, pod>>
      BY <1>3, <2>5 DEF Plain, Go, Runs, clusterState
    <3> QED
      BY <1>3, <3>1, NoneIsASequence, DeploySteps DEF Applied
  <2>6. CASE CreateNamespace
    <3>1. /\ Then(<< >>) /\ Head(todo).op = "ns" /\ UNCHANGED <<failed, pod>>
          /\ exists \subseteq exists'
      BY <1>3, <2>6 DEF CreateNamespace, Go, Runs
    <3> QED
      BY <1>3, <3>1, NoneIsASequence, DeploySteps DEF Applied
  <2>7. CASE WaitActive
    <3> DEFINE c == Cmd("apply", Head(todo).arg)
    <3>1. /\ Then(<<c>>) /\ Head(todo).op = "active" /\ UNCHANGED <<failed, exists, pod>>
          /\ Head(todo).arg \in exists
      BY <1>3, <2>7 DEF WaitActive, Runs, Arg, clusterState
    <3>2. Head(todo).arg \in Range(Apps)
      BY <2>2, <3>1, DeployKinds
    <3>3. c \in DeployCmds
      BY <3>2 DEF DeployCmds
    <3> HIDE DEF c
    <3>4. <<c>> \in Seq(DeployCmds) /\ c \in Range(<<c>>)
      BY <3>3 DEF Range
    <3> QED
      BY <1>3, <3>1, <3>4, DeploySteps DEF Applied, c
  <2>8. CASE Apply
    <3>1. /\ Then(<< >>) /\ Head(todo).op = "apply" /\ UNCHANGED <<failed, exists>>
          /\ Applied' = Applied \cup Of(Head(todo).arg)
      BY <1>3, <2>8 DEF Apply, Go, Runs, Arg, Applied
    <3> QED
      BY <1>3, <3>1, NoneIsASequence, DeploySteps
  <2> QED
    BY <1>3, <2>3, <2>4, <2>5, <2>6, <2>7, <2>8 DEF ScriptStep
<1>4. todo # << >> /\ Errexit => ScriptInv'
  BY FailingSteps
<1>5. todo = << >> => Finish \/ StartTests
  BY DEF ScriptStep, Plain, CreateNamespace, WaitActive, Apply, ListStatefulSets,
         ListDeployments, CheckStatus, Restart, WaitJob, Exit, GatherPods, Describe,
         Containers, Logs, Runs
<1>6. CASE Finish
  BY <1>6, Finishing
<1> QED
  BY <1>1, <1>2, <1>3, <1>4, <1>5, <1>6

LEMMA TestStep ==
  ASSUME ScriptAssumption, ScriptInv, ~ failed, task = "tests", ScriptStep
  PROVE  ScriptInv'
<1>1. CASE Exit
  BY <1>1, Exiting
<1>2. CASE Finish
  BY <1>2, Finishing
<1>3. ASSUME todo # << >>, ~ Exit, ~ Errexit, ~ OtherwiseGather
      PROVE  ScriptInv'
  <2>1. todo \in Seq(TestCmds) /\ Rechecked(todo)
    BY DEF ScriptInv, TodoInv
  <2>2. Head(todo) \in TestCmds
    BY <1>3, <2>1, HeadTailProperties
  <2>3. /\ jobSeen \/ Cmd("wait_job", "") \in Left
        /\ API \in seen \/ Cmd("check_status", API) \in Left
        /\ \A n \in Range(NS) : \A w \in Of(n) \cap Applied : Accounted(n, w)
    BY DEF ScriptInv, SeenInv
  <2>4. /\ ~ StartTests /\ ~ Finish /\ ~ CreateNamespace /\ ~ WaitActive /\ ~ Apply
        /\ ~ GatherPods /\ ~ Describe /\ ~ Containers /\ ~ Logs
    BY <1>3, <2>2, TestKinds DEF Runs, StartTests, Finish, CreateNamespace, WaitActive, Apply,
          GatherPods, Describe, Containers, Logs
  <2>5. ASSUME NEW cmds \in Seq(TestCmds), Then(cmds)
        PROVE  /\ \A c : c \in Left /\ c # Head(todo) => c \in Left'
               /\ \A c : c \in Range(cmds) => c \in Left'
    BY <1>3, <2>1, <2>5, Replaced
  <2>6. CASE Plain
    <3>1. /\ Then(<< >>) /\ Head(todo).op \in {"prereq", "tenant", "up_metrics", "nodes"}
          /\ UNCHANGED <<failed, exists, pod, seen, unlisted, jobSeen>>
      BY <1>3, <2>6 DEF Plain, Go, Runs, clusterState, verdictState
    <3>2. \A c : c \in Left /\ c # Head(todo) => c \in Left'
      BY <2>5, <3>1, NoneIsASequence
    <3>3. \A x : /\ Head(todo) # Cmd("wait_job", x) /\ Head(todo) # Cmd("check_status", x)
                 /\ Head(todo) # Cmd("statefulsets", x) /\ Head(todo) # Cmd("deployments", x)
      BY <3>1, CmdFields
    <3>4. SeenInv'
      BY <2>3, <3>1, <3>2, <3>3 DEF SeenInv, Accounted, Of, Applied
    <3> QED
      BY <1>3, <3>1, <3>4, NoneIsASequence, TestingSteps DEF Applied
  <2>7. CASE ListStatefulSets
    <3> DEFINE n == Head(todo).arg
    <3>1. n \in Range(NS) /\ Head(todo) = Cmd("statefulsets", n)
      BY <2>2, <2>7, TestKinds DEF ListStatefulSets, Runs
    <3>2. PICK S \in SUBSET Sts[n] :
             /\ Then(<<Cmd("deployments", [ns |-> n, found |-> S])>>)
             /\ UNCHANGED <<failed, exists, pod, seen, jobSeen>>
             /\ \/ S = Sts[n] \cap Applied /\ unlisted' = unlisted
                \/ unlisted' = unlisted \cup {n}
      BY <2>7 DEF ListStatefulSets, Arg, clusterState
    <3> DEFINE c == Cmd("deployments", [ns |-> n, found |-> S])
    <3> HIDE DEF n
    <3>3. c \in TestCmds
      <4>1. c \in UNION {{Cmd("deployments", [ns |-> m, found |-> T]) : T \in SUBSET Sts[m]} :
                            m \in Range(NS)}
        BY <3>1
      <4> QED
        BY <4>1 DEF TestCmds
    <3>4. c # Cmd("restart", API)
      BY CmdFields
    <3>5. Then(<<c>>)
      BY <3>2
    <3> HIDE DEF c
    <3>6. <<c>> \in Seq(TestCmds) /\ Range(<<c>>) = {c}
      BY <3>3 DEF Range
    <3>7. c \in Left' /\ \A d : d \in Left /\ d # Head(todo) => d \in Left'
      BY <2>5, <3>5, <3>6
    <3>8. \A x : /\ Head(todo) # Cmd("wait_job", x) /\ Head(todo) # Cmd("check_status", x)
                 /\ Head(todo) # Cmd("deployments", x)
                 /\ x # n => Head(todo) # Cmd("statefulsets", x)
      BY <3>1, CmdFields
    <3>9. ASSUME NEW m \in Range(NS), NEW w \in Of(m) \cap Applied
          PROVE  Accounted(m, w)'
      <4>1. Accounted(m, w)
        BY <2>3
      <4>2. CASE m = n
        <5>1. CASE w \in S \/ w \in Dep[n]
          BY <3>7, <4>2, <5>1 DEF Accounted, c
        <5>2. CASE w \notin S /\ w \notin Dep[n]
          BY <3>2, <4>2, <5>2 DEF Accounted, Of
        <5> QED
          BY <5>1, <5>2
      <4>3. CASE m # n
        BY <3>2, <3>7, <3>8, <4>1, <4>3 DEF Accounted
      <4> QED
        BY <4>2, <4>3
    <3>10. SeenInv'
      BY <2>3, <3>2, <3>7, <3>8, <3>9 DEF SeenInv, Applied, Of
    <3> QED
      BY <1>3, <3>2, <3>4, <3>5, <3>6, <3>10, TestingSteps DEF Applied
  <2>8. CASE ListDeployments
    <3> DEFINE n == Head(todo).arg.ns
               F == Head(todo).arg.found
               G == Dep[n] \cap Applied
               a == Each("check_status", F)
               b == Each("check_status", G)
    <3>1. /\ n \in Range(NS) /\ F \in SUBSET Sts[n]
          /\ Head(todo) = Cmd("deployments", [ns |-> n, found |-> F])
      BY <2>2, <2>8, TestKinds DEF ListDeployments, Runs
    <3>2. /\ Then(a \o b)
          /\ UNCHANGED <<failed, exists, pod, seen, jobSeen, unlisted>>
      BY <1>3, <2>8 DEF ListDeployments, Arg, clusterState, verdictState
    <3> HIDE DEF n, F
    <3>3. IsFiniteSet(F) /\ IsFiniteSet(G) /\ F \subseteq Workloads /\ G \subseteq Workloads
      <4>1. IsFiniteSet(Of(n)) /\ F \in SUBSET Of(n) /\ G \in SUBSET Of(n)
        BY <3>1 DEF ScriptAssumption, Of
      <4>2. Of(n) \subseteq Workloads
        BY <3>1 DEF Of, Workloads
      <4> QED
        BY <4>1, <4>2, FS_Subset
    <3> HIDE DEF G
    <3>4. /\ a \in Seq(TestCmds) /\ Range(a) = {Cmd("check_status", w) : w \in F}
          /\ b \in Seq(TestCmds) /\ Range(b) = {Cmd("check_status", w) : w \in G}
      <4>1. /\ {Cmd("check_status", w) : w \in F} \subseteq TestCmds
            /\ {Cmd("check_status", w) : w \in G} \subseteq TestCmds
        BY <3>3 DEF TestCmds
      <4>2. ASSUME NEW T, IsFiniteSet(T), {Cmd("check_status", w) : w \in T} \subseteq TestCmds
            PROVE  /\ Each("check_status", T) \in Seq(TestCmds)
                   /\ Range(Each("check_status", T)) = {Cmd("check_status", w) : w \in T}
        BY <4>2, EachLists, SeqMonotonic
      <4> QED
        BY <3>3, <4>1, <4>2
    <3> HIDE DEF a, b
    <3>5. a \o b \in Seq(TestCmds) /\ Range(a \o b) = Range(a) \cup Range(b)
      <4>1. ASSUME NEW d \in Seq(TestCmds), NEW e \in Seq(TestCmds)
            PROVE  d \o e \in Seq(TestCmds) /\ Range(d \o e) = Range(d) \cup Range(e)
        BY ConcatProperties, RangeConcatenation
      <4> QED
        BY <3>4, <4>1
    <3>6. Cmd("restart", API) \notin Range(a \o b)
      BY <3>4, <3>5, CmdFields
    <3>7. /\ \A w \in F \cup G : Cmd("check_status", w) \in Left'
          /\ \A d : d \in Left /\ d # Head(todo) => d \in Left'
      BY <2>5, <3>2, <3>4, <3>5
    <3>8. \A x : /\ Head(todo) # Cmd("wait_job", x) /\ Head(todo) # Cmd("check_status", x)
                 /\ Head(todo) # Cmd("statefulsets", x)
      BY <3>1, CmdFields
    <3>9. ASSUME NEW m \in Range(NS), NEW w \in Of(m) \cap Applied
          PROVE  Accounted(m, w)'
      <4>1. Accounted(m, w)
        BY <2>3
      <4>2. CASE \E S \in SUBSET Sts[m] :
                    /\ Cmd("deployments", [ns |-> m, found |-> S]) \in Left
                    /\ w \in S \/ w \in Dep[m]
        <5>1. PICK S \in SUBSET Sts[m] :
                    /\ Cmd("deployments", [ns |-> m, found |-> S]) \in Left
                    /\ w \in S \/ w \in Dep[m]
          BY <4>2
        <5>2. CASE Cmd("deployments", [ns |-> m, found |-> S]) = Head(todo)
          <6>1. [ns |-> m, found |-> S] = [ns |-> n, found |-> F]
            BY <3>1, <5>2, CmdFields
          <6>2. m = n /\ S = F
            BY <6>1
          <6>3. w \in F \cup G
            BY <5>1, <6>2 DEF G
          <6> QED
            BY <3>7, <6>3 DEF Accounted
        <5>3. CASE Cmd("deployments", [ns |-> m, found |-> S]) # Head(todo)
          BY <3>7, <5>1, <5>3 DEF Accounted
        <5> QED
          BY <5>2, <5>3
      <4> QED
        BY <3>2, <3>7, <3>8, <4>1, <4>2 DEF Accounted
    <3>10. SeenInv'
      BY <2>3, <3>2, <3>7, <3>8, <3>9 DEF SeenInv, Applied, Of
    <3> QED
      BY <1>3, <3>2, <3>5, <3>6, <3>10, TestingSteps DEF Applied
  <2>9. CASE CheckStatus
    <3>1. /\ Then(<< >>) /\ Head(todo).op = "check_status" /\ seen' = seen \cup {Head(todo).arg}
          /\ UNCHANGED <<failed, exists, pod, unlisted, jobSeen>>
      BY <1>3, <2>9 DEF CheckStatus, Go, Runs, Arg, clusterState
    <3>2. \A c : c \in Left /\ c # Head(todo) => c \in Left'
      BY <2>5, <3>1, NoneIsASequence
    <3>3. \A x : /\ Head(todo) # Cmd("wait_job", x)
                 /\ Head(todo) # Cmd("statefulsets", x) /\ Head(todo) # Cmd("deployments", x)
                 /\ Head(todo) = Cmd("check_status", x) => x \in seen'
      BY <3>1, CmdFields
    <3>4. SeenInv'
      BY <2>3, <3>1, <3>2, <3>3 DEF SeenInv, Accounted, Of, Applied
    <3> QED
      BY <1>3, <3>1, <3>4, NoneIsASequence, TestingSteps DEF Applied
  <2>10. CASE Restart
    <3>1. /\ Then(<< >>) /\ Head(todo).op = "restart" /\ seen' = seen \ {Head(todo).arg}
          /\ UNCHANGED <<failed, exists, unlisted, jobSeen>> /\ Applied' = Applied
      BY <1>3, <2>10 DEF Restart, Go, Runs, Arg, Applied
    <3>2. Head(todo) = Cmd("restart", API) /\ Head(todo).arg = API
      <4>1. Head(todo) = Cmd("restart", API)
        BY <2>2, <3>1, TestKinds
      <4> QED
        BY <4>1, CmdFields
    <3>3. \A c : c \in Left /\ c # Head(todo) => c \in Left'
      BY <2>5, <3>1, NoneIsASequence
    <3>4. Cmd("check_status", API) \in Left'
      <4>1. Cmd("check_status", API) \in Range(Tail(todo))
        BY <1>3, <2>1, <3>2, RecheckIsLeft
      <4> QED
        BY <1>3, <2>1, <3>1, <4>1, NoneIsASequence, Replaced
    <3>5. \A x : /\ Head(todo) # Cmd("wait_job", x) /\ Head(todo) # Cmd("check_status", x)
                 /\ Head(todo) # Cmd("statefulsets", x) /\ Head(todo) # Cmd("deployments", x)
      BY <3>1, CmdFields
    <3>6. ASSUME NEW m \in Range(NS), NEW w \in Of(m) \cap Applied
          PROVE  Accounted(m, w)'
      <4>1. Accounted(m, w)
        BY <2>3
      <4>2. CASE w = API
        BY <3>4, <4>2 DEF Accounted
      <4>3. CASE w # API
        BY <3>1, <3>2, <3>3, <3>5, <4>1, <4>3 DEF Accounted
      <4> QED
        BY <4>2, <4>3
    <3>7. SeenInv'
      BY <2>3, <3>1, <3>3, <3>4, <3>5, <3>6 DEF SeenInv, Of
    <3> QED
      BY <1>3, <3>1, <3>7, NoneIsASequence, TestingSteps
  <2>11. CASE WaitJob
    <3>1. /\ Then(<< >>) /\ Head(todo).op = "wait_job" /\ jobSeen' = TRUE
          /\ UNCHANGED <<failed, exists, pod, seen, unlisted>>
      BY <1>3, <2>11 DEF WaitJob, Go, Runs, clusterState
    <3>2. \A c : c \in Left /\ c # Head(todo) => c \in Left'
      BY <2>5, <3>1, NoneIsASequence
    <3>3. \A x : /\ Head(todo) # Cmd("check_status", x)
                 /\ Head(todo) # Cmd("statefulsets", x) /\ Head(todo) # Cmd("deployments", x)
      BY <3>1, CmdFields
    <3>4. SeenInv'
      BY <2>3, <3>1, <3>2, <3>3 DEF SeenInv, Accounted, Of, Applied
    <3> QED
      BY <1>3, <3>1, <3>4, NoneIsASequence, TestingSteps DEF Applied
  <2> QED
    BY <1>3, <2>4, <2>6, <2>7, <2>8, <2>9, <2>10, <2>11 DEF ScriptStep
<1>4. todo # << >> /\ (Errexit \/ OtherwiseGather) => ScriptInv'
  BY FailingSteps
<1>5. todo = << >> => Finish \/ StartTests
  BY DEF ScriptStep, Plain, CreateNamespace, WaitActive, Apply, ListStatefulSets,
         ListDeployments, CheckStatus, Restart, WaitJob, Exit, GatherPods, Describe,
         Containers, Logs, Runs
<1>6. CASE StartTests
  BY <1>6, StartingTests
<1> QED
  BY <1>1, <1>2, <1>3, <1>4, <1>5, <1>6

-----------------------------------------------------------------------------
\* The invariant of the job: what is left to do accounts for what is not done,
\* and a failed run is on its way to exit 1 (ci_test.sh:3, 9-13, 86-106).
\* The steps of the script, whether or not it is ever run to its end.
ScriptSteps == ScriptInit /\ [][ScriptNext]_scriptVars

\* Fairness takes no step away.
LEMMA FairOrNot == ScriptSpec => ScriptSteps
  BY PTL DEF ScriptSpec, ScriptSteps

\* Every reachable state satisfies the inductive invariant of the script.
THEOREM ScriptInvariant ==
  ASSUME ScriptAssumption
  PROVE  ScriptSteps => []ScriptInv
<1>1. ScriptInit => ScriptInv
  BY ScriptInitially
<1>2. ScriptInv /\ [ScriptNext]_scriptVars => ScriptInv'
  <2>1. ASSUME ScriptInv, ScriptStep
        PROVE  ScriptInv'
    <3>1. failed \/ task = "deploy" \/ task = "tests"
      BY <2>1 DEF ScriptInv, TodoInv
    <3> QED
      BY <2>1, <3>1, GatherStep, DeployStep, TestStep
  <2>2. ASSUME ScriptInv, UNCHANGED scriptVars
        PROVE  ScriptInv'
    BY <2>2 DEF scriptVars, clusterState, verdictState, gatherState, ScriptInv, FailInv, CodeInv,
                TodoInv, AppliedInv, SeenInv, Accounted, Rechecked, Left, Applied, Of
  <2> QED
    BY <2>1, <2>2, PodsMoving DEF ScriptNext
<1> QED
  BY <1>1, <1>2, PTL DEF ScriptSteps

\* What the invariant says of a green job.
LEMMA ScriptInvSuffices == ScriptInv => NoFailureIsLost /\ GreenMeansRolledOut
<1>1. ScriptInv => NoFailureIsLost
  BY DEF ScriptInv, FailInv, NoFailureIsLost, NoCode
<1>2. ASSUME ScriptInv, code = 0
      PROVE  GreenMeansRolledOut
  <2>1. ~ failed /\ todo = << >>
    BY <1>2 DEF ScriptInv, FailInv, CodeInv, NoCode
  <2>2. Left = {}
    BY <2>1 DEF Left, Range
  <2>3. task = "tests"
    BY <1>2, <2>1 DEF ScriptInv, TodoInv, NoCode
  <2> QED
    BY <1>2, <2>1, <2>2, <2>3 DEF ScriptInv, AppliedInv, SeenInv, Accounted, GreenMeansRolledOut
<1>3. ScriptInv => GreenMeansRolledOut
  BY <1>2 DEF GreenMeansRolledOut
<1> QED
  BY <1>1, <1>3

\* No failed rollout, job or command ends in a green job, whatever the
\* gathering meets (ci_test.sh:9-13, 102-105).
THEOREM FailuresAreKept ==
  ASSUME ScriptAssumption
  PROVE  ScriptSpec => []NoFailureIsLost
  BY ScriptInvSuffices, ScriptInvariant, FairOrNot, PTL

\* A green job has seen every workload roll out, for any namespaces and
\* workloads, but for statefulsets whose listing failed (ci_test.sh:86-106).
THEOREM GreenHasSeenAll ==
  ASSUME ScriptAssumption
  PROVE  ScriptSpec => []GreenMeansRolledOut
  BY ScriptInvSuffices, ScriptInvariant, FairOrNot, PTL

-----------------------------------------------------------------------------
(* What the gathering leaves behind. *)

(* The one exit comes at the end.                                           *)
EndsInExit(s) == \A i \in 1 .. Len(s) : s[i].op = "exit" <=> i = Len(s)

Existing == {w \in Applied : pod[w] # "absent"}

(* An expected pod is gathered, or what gathers it is left to do.           *)
ToGather(w) ==
    \/ w \in gathered
    \/ Cmd("logs", w) \in Left
    \/ Cmd("containers", w) \in Left
    \/ Cmd("describe", w) \in Left
    \/ \E n \in Range(NS) : w \in Of(n) /\ Cmd("pods", n) \in Left

GatherInv ==
    /\ Applied \subseteq Workloads
    /\ ~ failed => expected = {}
    /\ code = 1 /\ ~ disturbed => expected \subseteq gathered
    /\ failed /\ code = NoCode /\ ~ disturbed =>
          /\ EndsInExit(todo)
          /\ expected = Existing
          /\ \A w \in expected : ToGather(w)

\* A list that ends in its one exit still does when its head has given way.
LEMMA EndStays ==
  ASSUME NEW S, NEW s \in Seq(S), s # << >>, NEW cmds \in Seq(S), EndsInExit(s),
         Head(s).op # "exit", \A c \in Range(cmds) : c.op # "exit"
  PROVE  EndsInExit(cmds \o Tail(s))
<1> DEFINE t == cmds \o Tail(s)
<1>1. /\ Len(s) \in Nat \ {0} /\ Len(Tail(s)) = Len(s) - 1 /\ Tail(s) \in Seq(S)
      /\ \A i \in 1 .. Len(Tail(s)) : Tail(s)[i] = s[i + 1]
      /\ Head(s) = s[1]
  BY HeadTailProperties, EmptySeq
<1>2. Len(s) > 1
  <2>1. 1 \in 1 .. Len(s) /\ s[1].op # "exit"
    BY <1>1
  <2>2. 1 # Len(s)
    BY <2>1 DEF EndsInExit
  <2> QED
    BY <1>1, <2>2
<1>3. /\ Len(t) = Len(cmds) + Len(Tail(s)) /\ Len(cmds) \in Nat
      /\ \A i \in 1 .. Len(t) :
            t[i] = IF i <= Len(cmds) THEN cmds[i] ELSE Tail(s)[i - Len(cmds)]
  BY <1>1, ConcatProperties
<1>4. \A i \in 1 .. Len(cmds) : cmds[i].op # "exit"
  BY InRange
<1> SUFFICES ASSUME NEW i \in 1 .. Len(t)
             PROVE  t[i].op = "exit" <=> i = Len(t)
  BY DEF EndsInExit
<1> HIDE DEF t
<1>5. CASE i <= Len(cmds)
  BY <1>1, <1>2, <1>3, <1>4, <1>5
<1>6. CASE i > Len(cmds)
  <2>0. i - Len(cmds) \in 1 .. Len(Tail(s)) /\ ~ (i <= Len(cmds))
    BY <1>1, <1>3, <1>6
  <2>1. t[i] = Tail(s)[i - Len(cmds)] /\ i - Len(cmds) \in 1 .. Len(Tail(s))
    BY <1>3, <2>0
  <2>2. t[i] = s[i - Len(cmds) + 1] /\ i - Len(cmds) + 1 \in 1 .. Len(s)
    BY <1>1, <2>1
  <2>3. t[i].op = "exit" <=> i - Len(cmds) + 1 = Len(s)
    BY <2>2 DEF EndsInExit
  <2>4. /\ Len(t) = Len(cmds) + Len(Tail(s)) /\ Len(Tail(s)) = Len(s) - 1
        /\ Len(cmds) \in Nat /\ Len(s) \in Nat
    BY <1>1, <1>3
  <2>5. i - Len(cmds) + 1 = Len(s) <=> i = Len(t)
    BY <2>0, <2>4
  <2> QED
    BY <2>3, <2>5
<1> QED
  BY <1>1, <1>3, <1>5, <1>6

\* The exit is put at the end.
LEMMA ExitAppended ==
  ASSUME NEW S, NEW s \in Seq(S), \A c \in Range(s) : c.op # "exit",
         NEW t \in Seq(S), Len(t) = 1, t[1].op = "exit"
  PROVE  EndsInExit(s \o t)
<1>1. /\ Len(s) \in Nat /\ Len(s \o t) = Len(s) + 1
      /\ \A i \in 1 .. Len(s) + 1 : (s \o t)[i] = IF i <= Len(s) THEN s[i] ELSE t[i - Len(s)]
  <2>1. /\ Len(s \o t) = Len(s) + Len(t)
        /\ \A i \in 1 .. Len(s) + Len(t) :
              (s \o t)[i] = IF i <= Len(s) THEN s[i] ELSE t[i - Len(s)]
    BY ConcatProperties
  <2> QED
    BY <2>1
<1>2. \A i \in 1 .. Len(s) : s[i].op # "exit"
  BY InRange
<1> SUFFICES ASSUME NEW i \in 1 .. Len(s) + 1
             PROVE  (s \o t)[i].op = "exit" <=> i = Len(s) + 1
  BY <1>1 DEF EndsInExit
<1>3. CASE i <= Len(s)
  BY <1>1, <1>2, <1>3
<1>4. CASE i > Len(s)
  <2>1. i = Len(s) + 1 /\ i - Len(s) = 1
    BY <1>1, <1>4
  <2> QED
    BY <1>1, <2>1
<1> QED
  BY <1>1, <1>3, <1>4

\* What the gathering begins with.
LEMMA GatherWords ==
  ASSUME ScriptAssumption
  PROVE  /\ must_gather \in Seq(GatherCmds)
         /\ \A n \in Range(NS) : Cmd("pods", n) \in Range(must_gather)
         /\ \A c \in Range(must_gather) : c.op \in {"pods", "nodes"}
<1> DEFINE a == Over("pods", NS)
           b == <<Cmd("nodes", "")>>
<1>1. a \in Seq(GatherCmds) /\ Range(a) = {Cmd("pods", n) : n \in Range(NS)}
  <2>1. {Cmd("pods", n) : n \in Range(NS)} \subseteq GatherCmds
    BY DEF GatherCmds
  <2> QED
    BY <2>1, OverLists, SeqMonotonic DEF ScriptAssumption
<1>2. b \in Seq(GatherCmds)
  BY DEF GatherCmds
<1>3. Range(b) = {Cmd("nodes", "")}
  <2>1. ASSUME NEW c
        PROVE  Range(<<c>>) = {c}
    BY DEF Range
  <2> QED
    BY <2>1
<1> HIDE DEF a, b
<1>4. a \o b \in Seq(GatherCmds) /\ Range(a \o b) = Range(a) \cup Range(b)
  <2>1. ASSUME NEW d \in Seq(GatherCmds), NEW e \in Seq(GatherCmds)
        PROVE  d \o e \in Seq(GatherCmds) /\ Range(d \o e) = Range(d) \cup Range(e)
    BY ConcatProperties, RangeConcatenation
  <2> QED
    BY <1>1, <1>2, <2>1
<1>5. \A c \in Range(a \o b) : c.op \in {"pods", "nodes"}
  <2>1. \A n : Cmd("pods", n).op = "pods" /\ Cmd("nodes", n).op = "nodes"
    BY CmdFields
  <2> QED
    BY <1>1, <1>3, <1>4, <2>1
<1> QED
  BY <1>1, <1>4, <1>5 DEF must_gather, a, b

\* The gathering begins with every pod there is still to be gathered.
LEMMA GatheringBegins ==
  ASSUME ScriptAssumption, ScriptInv, GatherInv, todo # << >>, OtherwiseGather
  PROVE  GatherInv'
<1> DEFINE c == <<Cmd("exit", 1)>>
<1>1. /\ failed' /\ code' = code /\ todo' = must_gather \o c
      /\ expected' = Existing /\ Existing' = Existing /\ Applied' = Applied
  BY DEF OtherwiseGather, Existing, Applied, clusterState
<1>2. code' = NoCode
  BY <1>1 DEF ScriptInv, CodeInv
<1>3. c \in Seq(GatherCmds) /\ Len(c) = 1 /\ c[1].op = "exit"
  BY CmdFields DEF GatherCmds
<1> HIDE DEF c
<1>4. EndsInExit(todo')
  BY <1>1, <1>3, GatherWords, ExitAppended
<1>5. \A n \in Range(NS) : Cmd("pods", n) \in Left'
  <2>1. ASSUME NEW d \in Seq(GatherCmds)
        PROVE  Range(d \o c) = Range(d) \cup Range(c)
    BY <1>3, RangeConcatenation
  <2>2. Range(must_gather \o c) = Range(must_gather) \cup Range(c)
    BY <2>1, GatherWords
  <2> QED
    BY <1>1, <2>2, GatherWords DEF Left
<1>6. \A w \in expected' : ToGather(w)'
  <2>1. \A w \in Existing : \E n \in Range(NS) : w \in Of(n)
    BY DEF GatherInv, Existing, Workloads, Of
  <2> QED
    BY <1>1, <1>5, <2>1 DEF ToGather, Of
<1> QED
  BY <1>1, <1>2, <1>4, <1>6 DEF GatherInv, EndsInExit, NoCode

\* A step is of a command, or begins the tests, or ends them; a run that gathers
\* takes only the steps of the gathering.
LEMMA StepsHaveACommand ==
  ASSUME ScriptStep, todo = << >>
  PROVE  Finish \/ StartTests
  BY DEF ScriptStep, Plain, CreateNamespace, WaitActive, Apply, ListStatefulSets,
         ListDeployments, CheckStatus, Restart, WaitJob, Exit, GatherPods, Describe,
         Containers, Logs, Runs

\* A run that gathers takes only the steps of the gathering.
LEMMA GatheringHead ==
  ASSUME ScriptInv, failed, todo # << >>
  PROVE  /\ code = NoCode /\ todo \in Seq(GatherCmds) /\ Head(todo) \in GatherCmds
         /\ ~ CreateNamespace /\ ~ WaitActive /\ ~ Apply /\ ~ ListStatefulSets
         /\ ~ ListDeployments /\ ~ CheckStatus /\ ~ Restart /\ ~ WaitJob
         /\ ~ StartTests /\ ~ Finish
<1>1. code = NoCode /\ todo \in Seq(GatherCmds)
  BY DEF ScriptInv, FailInv, CodeInv, NoCode
<1>2. Head(todo) \in GatherCmds
  BY <1>1, HeadTailProperties
<1> QED
  BY <1>1, <1>2, GatherKinds DEF Runs, CreateNamespace, WaitActive, Apply, ListStatefulSets,
     ListDeployments, CheckStatus, Restart, WaitJob, StartTests, Finish

\* Only known workloads are applied.
LEMMA KnownWorkloads ==
  ASSUME ScriptAssumption, ScriptInv, GatherInv, ScriptStep
  PROVE  Applied' \subseteq Workloads
<1>1. CASE Apply
  <2>1. todo # << >> /\ Head(todo).op = "apply"
    BY <1>1 DEF Apply, Runs
  <2>2. ~ failed
    BY <1>1, <2>1, GatheringHead
  <2>3. Head(todo) \in DeployCmds \/ Head(todo) \in TestCmds
    BY <2>1, <2>2, HeadTailProperties DEF ScriptInv, TodoInv
  <2>4. Head(todo).arg \in Range(NS)
    BY <2>1, <2>3, DeployKinds, TestKinds DEF ScriptAssumption
  <2>5. Of(Head(todo).arg) \subseteq Workloads
    BY <2>4 DEF Of, Workloads
  <2> QED
    BY <1>1, <2>5 DEF Apply, Errexit, Applied, Arg, GatherInv, clusterState
<1>2. CASE Restart
  BY <1>2 DEF Restart, Errexit, Applied, GatherInv, clusterState
<1>3. ASSUME ~ Apply, ~ Restart
      PROVE  pod' = pod
  BY <1>3 DEF ScriptStep, Plain, CreateNamespace, WaitActive, StartTests, ListStatefulSets,
     ListDeployments, CheckStatus, WaitJob, Finish, Exit, GatherPods, Describe, Containers,
     Logs, OtherwiseGather, Errexit, clusterState
<1> QED
  BY <1>1, <1>2, <1>3 DEF Applied, GatherInv

\* errexit comes in the way of the gathering.
LEMMA FailingGathers ==
  ASSUME ScriptInv, GatherInv, todo # << >>, Errexit
  PROVE  GatherInv'
<1>1. failed' /\ code' = 1 /\ Applied' = Applied /\ expected' = expected
      /\ disturbed' = (disturbed \/ Gathering)
  BY DEF Errexit, Applied, clusterState
<1>2. CASE failed /\ ~ disturbed
  <2>1. code = NoCode /\ todo \in Seq(GatherCmds)
    BY <1>2, GatheringHead
  <2>2. Len(todo) \in 1 .. Len(todo)
    BY <2>1, EmptySeq
  <2>3. todo[Len(todo)].op = "exit"
    BY <1>2, <2>1, <2>2 DEF GatherInv, EndsInExit
  <2>4. Gathering
    BY <2>3 DEF Gathering, Last
  <2> QED
    BY <1>1, <2>4 DEF GatherInv, NoCode
<1>3. CASE failed /\ disturbed
  BY <1>1, <1>3 DEF GatherInv, NoCode
<1>4. CASE ~ failed
  BY <1>1, <1>4 DEF GatherInv, NoCode
<1> QED
  BY <1>2, <1>3, <1>4

\* A step of the gathering that leaves nothing out.
LEMMA GatheringOn ==
  ASSUME ScriptInv, GatherInv, failed, todo # << >>, ~ disturbed, ~ disturbed',
         NEW cmds \in Seq(GatherCmds), Then(cmds), Head(todo).op # "exit",
         \A c \in Range(cmds) : c.op # "exit",
         UNCHANGED <<failed, pod, expected>>, gathered \subseteq gathered',
         \A w \in expected : ToGather(w) => ToGather(w)'
  PROVE  GatherInv'
<1>1. code = NoCode /\ todo \in Seq(GatherCmds)
  BY GatheringHead
<1>2. EndsInExit(todo) /\ expected = Existing /\ \A w \in expected : ToGather(w)
  BY <1>1 DEF GatherInv
<1>3. EndsInExit(todo')
  BY <1>1, <1>2, EndStays DEF Then
<1>4. code' = code /\ Existing' = Existing /\ Applied' = Applied
  BY DEF Then, Existing, Applied
<1> QED
  BY <1>1, <1>2, <1>3, <1>4 DEF GatherInv, EndsInExit, NoCode

\* Each step keeps what is to be gathered in what is left.
LEMMA GatherInvStep ==
  ASSUME ScriptAssumption, ScriptInv, ScriptInv', GatherInv, ScriptStep
  PROVE  GatherInv'
<1>1. CASE todo # << >> /\ Errexit
  BY <1>1, FailingGathers
<1>2. CASE todo # << >> /\ OtherwiseGather
  BY <1>2, GatheringBegins
<1>3. ASSUME ~ failed, ~ Errexit, ~ OtherwiseGather
      PROVE  GatherInv'
  <2>1. UNCHANGED <<failed, expected>>
    BY <1>3 DEF ScriptStep, Plain, CreateNamespace, WaitActive, Apply, StartTests,
       ListStatefulSets, ListDeployments, CheckStatus, Restart, WaitJob, Finish, Exit,
       GatherPods, Describe, Containers, Logs, gatherState
  <2> QED
    BY <1>3, <2>1, KnownWorkloads DEF GatherInv
<1>4. ASSUME failed, disturbed, todo # << >>, ~ Errexit, ~ OtherwiseGather
      PROVE  GatherInv'
  <2>1. failed' /\ disturbed'
    BY <1>4, GatheringHead DEF ScriptStep, Plain, Exit, GatherPods, Describe, Containers,
       Logs, gatherState
  <2> QED
    BY <2>1, KnownWorkloads DEF GatherInv
<1>5. ASSUME failed, ~ disturbed, todo # << >>, ~ Errexit, ~ OtherwiseGather
      PROVE  GatherInv'
  <2>1. /\ code = NoCode /\ todo \in Seq(GatherCmds) /\ Head(todo) \in GatherCmds
        /\ expected = Existing /\ \A w \in expected : ToGather(w)
    BY <1>5, GatheringHead DEF GatherInv
  <2>2. ASSUME NEW cmds \in Seq(GatherCmds), Then(cmds)
        PROVE  /\ \A c : c \in Left /\ c # Head(todo) => c \in Left'
               /\ \A c : c \in Range(cmds) => c \in Left'
    BY <1>5, <2>1, <2>2, Replaced
  <2>3. ASSUME NEW c
        PROVE  Range(<<c>>) = {c} /\ Range(<< >>) = {}
    BY DEF Range
  <2>4. CASE Plain
    <3>1. /\ Then(<< >>) /\ Head(todo).op = "nodes" /\ UNCHANGED <<failed, pod>>
          /\ UNCHANGED <<expected, gathered, disturbed>>
      BY <1>5, <2>1, <2>4, GatherKinds DEF Plain, Go, Runs, clusterState, gatherState
    <3>2. \A c : c \in Left /\ c # Head(todo) => c \in Left'
      BY <2>2, <3>1, NoneIsASequence
    <3>3. \A op \in {"logs", "containers", "describe", "pods"} : \A x : Head(todo) # Cmd(op, x)
      BY <3>1, CmdFields
    <3>4. \A w \in expected : ToGather(w) => ToGather(w)'
      BY <3>1, <3>2, <3>3 DEF ToGather, Of
    <3> QED
      BY <1>5, <3>1, <3>4, NoneIsASequence, GatheringOn
  <2>5. CASE GatherPods
    <3> DEFINE n == Head(todo).arg
               T == {w \in Of(n) \cap Applied : pod[w] # "absent"}
    <3>1. /\ Head(todo).op = "pods" /\ UNCHANGED <<failed, pod, expected, gathered>>
          /\ \/ Then(Each("describe", T)) /\ disturbed' = disturbed
             \/ disturbed' /\ Then(<< >>)
      BY <2>5 DEF GatherPods, Runs, Arg, clusterState, Go
    <3>2. CASE disturbed'
      BY <1>5, <3>1, <3>2, KnownWorkloads DEF GatherInv, Then, NoCode
    <3>3. CASE ~ disturbed'
      <4>1. n \in Range(NS)
        BY <2>1, <3>1, GatherKinds
      <4>2. IsFiniteSet(T) /\ T \subseteq Workloads
        <5>1. IsFiniteSet(Of(n)) /\ T \in SUBSET Of(n)
          BY <4>1 DEF ScriptAssumption
        <5> QED
          BY <4>1, <5>1, FS_Subset DEF Workloads, Of
      <4>3. /\ {Cmd("describe", w) : w \in T} \subseteq GatherCmds
            /\ \A w : Cmd("describe", w).op = "describe"
        BY <4>2, CmdFields, ZenonT(30) DEF GatherCmds
      <4>4. \A w \in expected : w \in Of(n) => w \in T
        BY <2>1 DEF Existing
      <4> HIDE DEF T, n
      <4>5. /\ Each("describe", T) \in Seq(GatherCmds)
            /\ Range(Each("describe", T)) = {Cmd("describe", w) : w \in T}
        BY <4>2, <4>3, EachLists, SeqMonotonic
      <4>6. Then(Each("describe", T)) /\ disturbed' = disturbed
        BY <1>5, <3>1, <3>3
      <4>7. /\ \A c : c \in Left /\ c # Head(todo) => c \in Left'
            /\ \A w \in T : Cmd("describe", w) \in Left'
        BY <2>2, <4>5, <4>6
      <4>8. /\ \A op \in {"logs", "containers", "describe"} : \A x : Head(todo) # Cmd(op, x)
            /\ \A x : Head(todo) = Cmd("pods", x) => x = n
        BY <3>1, CmdFields DEF n
      <4>9. ASSUME NEW w \in expected, ToGather(w)
            PROVE  ToGather(w)'
        <5>1. CASE \E m \in Range(NS) : w \in Of(m) /\ Cmd("pods", m) \in Left
          <6>1. PICK m \in Range(NS) : w \in Of(m) /\ Cmd("pods", m) \in Left
            BY <5>1
          <6>2. CASE m = n
            BY <4>4, <4>7, <6>1, <6>2 DEF ToGather
          <6>3. CASE m # n
            <7>1. Cmd("pods", m) \in Left'
              BY <4>7, <4>8, <6>1, <6>3
            <7> QED
              BY <6>1, <7>1 DEF ToGather, Of
          <6> QED
            BY <6>2, <6>3
        <5>2. CASE w \in gathered
          BY <3>1, <5>2 DEF ToGather
        <5>3. CASE \E op \in {"logs", "containers", "describe"} : Cmd(op, w) \in Left
          BY <4>7, <4>8, <5>3 DEF ToGather
        <5> QED
          BY <4>9, <5>1, <5>2, <5>3 DEF ToGather
      <4>10. \A c \in Range(Each("describe", T)) : c.op # "exit"
        BY <4>3, <4>5
      <4> QED
        BY <1>5, <3>1, <3>3, <4>5, <4>6, <4>9, <4>10, GatheringOn
    <3> QED
      BY <3>2, <3>3
  <2>6. ASSUME NEW from \in {"describe", "containers"}, NEW to \in {"containers", "logs"},
               Head(todo).op = from, Then(<<Cmd(to, Head(todo).arg)>>),
               UNCHANGED <<failed, pod, expected, gathered, disturbed>>
        PROVE  GatherInv'
    <3> DEFINE c == Cmd(to, Head(todo).arg)
    <3>1. Head(todo).arg \in Workloads
      BY <2>1, <2>6, GatherKinds
    <3>2. c \in GatherCmds /\ c.op # "exit"
      BY <3>1, CmdFields DEF GatherCmds
    <3> HIDE DEF c
    <3>3. <<c>> \in Seq(GatherCmds) /\ Range(<<c>>) = {c}
      BY <2>3, <3>2
    <3>4. Then(<<c>>)
      BY <2>6 DEF c
    <3>5. c \in Left' /\ \A d : d \in Left /\ d # Head(todo) => d \in Left'
      BY <2>2, <3>3, <3>4
    <3>6. /\ \A x : Head(todo) # Cmd("pods", x) /\ Head(todo) # Cmd("logs", x)
          /\ \A op, x : Head(todo) = Cmd(op, x) => x = Head(todo).arg
      BY <2>6, CmdFields
    <3>7. \A w \in expected : ToGather(w) => ToGather(w)'
      <4>1. \A w : w = Head(todo).arg => ToGather(w)'
        BY <3>5 DEF ToGather, c
      <4>2. \A w \in expected : w # Head(todo).arg /\ ToGather(w) => ToGather(w)'
        BY <2>6, <3>5, <3>6 DEF ToGather, Of
      <4> QED
        BY <4>1, <4>2
    <3> QED
      BY <1>5, <2>6, <3>2, <3>3, <3>4, <3>7, GatheringOn
  <2>7. CASE Describe
    <3>1. /\ Head(todo).op = "describe" /\ Then(<<Cmd("containers", Head(todo).arg)>>)
          /\ UNCHANGED <<failed, pod, expected, gathered, disturbed>>
      BY <1>5, <2>7 DEF Describe, Runs, Arg, clusterState, gatherState
    <3> QED
      BY <2>6, <3>1
  <2>8. CASE Containers
    <3>1. /\ Head(todo).op = "containers" /\ UNCHANGED <<failed, pod, expected, gathered>>
          /\ \/ Then(<<Cmd("logs", Head(todo).arg)>>) /\ disturbed' = disturbed
             \/ disturbed'
      BY <2>8 DEF Containers, Runs, Arg, clusterState, Go
    <3>2. CASE disturbed'
      BY <1>5, <3>1, <3>2, KnownWorkloads DEF GatherInv
    <3>3. CASE ~ disturbed'
      BY <1>5, <2>6, <3>1, <3>3
    <3> QED
      BY <3>2, <3>3
  <2>9. CASE Logs
    <3>1. /\ Head(todo).op = "logs" /\ Then(<< >>) /\ gathered' = gathered \cup {Head(todo).arg}
          /\ UNCHANGED <<failed, pod, expected, disturbed>>
      BY <1>5, <2>9 DEF Logs, Runs, Arg, clusterState, Go
    <3>2. \A c : c \in Left /\ c # Head(todo) => c \in Left'
      BY <2>2, <3>1, NoneIsASequence
    <3>3. /\ \A op \in {"containers", "describe", "pods"} : \A x : Head(todo) # Cmd(op, x)
          /\ \A x : Head(todo) = Cmd("logs", x) => x \in gathered'
      BY <3>1, CmdFields
    <3>4. \A w \in expected : ToGather(w) => ToGather(w)'
      BY <3>1, <3>2, <3>3 DEF ToGather, Of
    <3> QED
      BY <1>5, <3>1, <3>4, NoneIsASequence, GatheringOn
  <2>10. CASE Exit
    <3>1. /\ Head(todo).op = "exit" /\ UNCHANGED <<failed, pod, expected, gathered, disturbed>>
          /\ todo' = << >>
      BY <2>10 DEF Exit, Runs, clusterState, gatherState
    <3>2. /\ Len(todo) \in Nat \ {0} /\ Head(todo) = todo[1]
          /\ \A c : c \in Left => \E i \in 1 .. Len(todo) : c = todo[i]
      BY <1>5, <2>1, HeadTailProperties, EmptySeq DEF Left, Range
    <3>3. Len(todo) = 1
      BY <1>5, <2>1, <3>1, <3>2 DEF GatherInv, EndsInExit
    <3>4. \A c : c \in Left => c.op = "exit"
      BY <3>1, <3>2, <3>3
    <3>5. \A w \in expected : w \in gathered
      BY <2>1, <3>4, CmdFields DEF ToGather
    <3>6. code' = 1
      BY <2>1, <2>10, <3>1, GatherKinds DEF Exit, Arg
    <3> QED
      BY <1>5, <3>1, <3>5, <3>6, KnownWorkloads DEF GatherInv, NoCode
  <2> QED
    BY <1>5, <2>4, <2>5, <2>7, <2>8, <2>9, <2>10, GatheringHead DEF ScriptStep
<1>6. ASSUME failed, todo = << >>
      PROVE  FALSE
  <2>1. code = NoCode
    BY <1>6, StepsHaveACommand DEF Finish, StartTests
  <2> QED
    BY <1>6, <2>1, EmptyList
<1>7. ASSUME ~ failed, todo = << >>
      PROVE  ~ Errexit /\ ~ OtherwiseGather
  <2>1. failed' = failed
    BY <1>7, StepsHaveACommand DEF Finish, StartTests
  <2> QED
    BY <1>7, <2>1 DEF Errexit, OtherwiseGather
<1> QED
  BY <1>1, <1>2, <1>3, <1>4, <1>5, <1>6, <1>7

\* What is to be gathered is gathered or left to do.
THEOREM GatherInvariant ==
  ASSUME ScriptAssumption
  PROVE  ScriptSteps => []GatherInv
<1>1. ScriptInit => GatherInv
  BY DEF ScriptInit, GatherInv, Applied, NoCode
<1>2. ScriptInv /\ ScriptInv' /\ GatherInv /\ [ScriptNext]_scriptVars => GatherInv'
  <2>1. ASSUME ScriptInv, GatherInv, PodMoves
        PROVE  GatherInv'
    <3>1. /\ Applied' = Applied /\ UNCHANGED <<todo, code, failed, expected, gathered>>
          /\ disturbed' = (disturbed \/ Gathering) /\ code = NoCode
      BY <2>1 DEF PodMoves, Applied
    <3>2. CASE failed /\ ~ disturbed
      <4>1. todo # << >>
        BY <2>1, <3>1, <3>2, EmptyList
      <4>2. todo \in Seq(GatherCmds)
        BY <2>1, <3>2, <4>1, GatheringHead
      <4>3. Len(todo) \in 1 .. Len(todo)
        BY <4>1, <4>2, EmptySeq
      <4>4. Gathering
        BY <2>1, <3>1, <3>2, <4>1, <4>3 DEF GatherInv, EndsInExit, Gathering, Last
      <4> QED
        BY <2>1, <3>1, <4>4, <3>2 DEF GatherInv, NoCode
    <3>3. CASE ~ failed \/ disturbed
      BY <2>1, <3>1, <3>3 DEF GatherInv, NoCode
    <3> QED
      BY <3>2, <3>3
  <2>2. ASSUME GatherInv, UNCHANGED scriptVars
        PROVE  GatherInv'
    BY <2>2 DEF scriptVars, clusterState, verdictState, gatherState, GatherInv, ToGather,
                EndsInExit, Existing, Left, Applied, Of
  <2> QED
    BY <2>1, <2>2, GatherInvStep DEF ScriptNext
<1> QED
  BY <1>1, <1>2, ScriptInvariant, PTL DEF ScriptSteps

\* What an undisturbed gathering leaves behind is complete, for any number of
\* namespaces and workloads (ci_test.sh:108-134).
THEOREM GatheringIsComplete ==
  ASSUME ScriptAssumption
  PROVE  ScriptSpec => []UndisturbedGatheringIsComplete
<1>1. GatherInv => UndisturbedGatheringIsComplete
  BY DEF GatherInv, UndisturbedGatheringIsComplete
<1> QED
  BY <1>1, GatherInvariant, FairOrNot, PTL

-----------------------------------------------------------------------------
(* The types of the script.  What must_gather reads about is a workload that *)
(* was applied: the pods it lists are.                                       *)

OfApplied(c) == c.op \in {"describe", "containers", "logs"} => c.arg \in Applied
NamedInv == \A c \in Left : OfApplied(c)

AllCmds == DeployCmds \cup TestCmds \cup GatherCmds

\* The next command is of one of the three parts of the script.
LEMMA HeadIsKnown ==
  ASSUME ScriptInv, todo # << >>
  PROVE  todo \in Seq(AllCmds) /\ Head(todo) \in AllCmds /\ Head(todo) \in Left
<1>1. PICK S \in {DeployCmds, TestCmds, GatherCmds} : todo \in Seq(S)
  BY GatheringHead DEF ScriptInv, TodoInv
<1>2. Head(todo) \in S
  BY <1>1, HeadTailProperties
<1>3. S \subseteq AllCmds
  BY DEF AllCmds
<1>4. todo \in Seq(AllCmds)
  BY <1>1, <1>3, SeqMonotonic
<1>5. Head(todo) \in Left
  <2>1. Range(todo) = {Head(todo)} \cup Range(Tail(todo))
    BY <1>4, NoneIsASequence, ReplaceHead
  <2> QED
    BY <2>1 DEF Left
<1> QED
  BY <1>2, <1>3, <1>4, <1>5

\* The arguments of the commands that change something.
LEMMA ArgumentsAreKnown ==
  ASSUME ScriptAssumption, NEW c \in AllCmds
  PROVE  /\ c.op \in {"ns", "statefulsets", "apply"} => c.arg \in Range(NS)
         /\ c.op = "exit" => c.arg = 1
<1>1. CASE c \in DeployCmds
  BY <1>1, DeployKinds DEF ScriptAssumption
<1>2. CASE c \in TestCmds
  BY <1>2, TestKinds
<1>3. CASE c \in GatherCmds
  BY <1>3, GatherKinds
<1> QED
  BY <1>1, <1>2, <1>3 DEF AllCmds

\* A run that has not failed has nothing to gather.
LEMMA NothingNamed ==
  ASSUME ScriptInv, ~ failed
  PROVE  NamedInv
<1> SUFFICES ASSUME NEW c \in Left
             PROVE  OfApplied(c)
  BY DEF NamedInv
<1>1. c \in DeployCmds \/ c \in TestCmds
  BY RangeOfSeq DEF ScriptInv, TodoInv, Left
<1> QED
  BY <1>1, DeployKinds, TestKinds DEF OfApplied

\* Commands give way to others about workloads that were applied.
LEMMA NamedStays ==
  ASSUME ScriptInv, NamedInv, todo # << >>, Applied' = Applied,
         NEW cmds \in Seq(GatherCmds), Then(cmds), \A c \in Range(cmds) : OfApplied(c)
  PROVE  NamedInv'
<1>1. todo \in Seq(AllCmds) /\ cmds \in Seq(AllCmds)
  BY HeadIsKnown, SeqMonotonic DEF AllCmds
<1>2. \A c : c \in Left' => c \in Range(cmds) \/ c \in Left
  BY <1>1, Replaced
<1> QED
  BY <1>2 DEF NamedInv, OfApplied

\* Each step keeps the commands of the gathering to applied workloads.
LEMMA NamedStep ==
  ASSUME ScriptAssumption, ScriptInv, ScriptInv', NamedInv, ScriptStep
  PROVE  NamedInv'
<1>1. CASE ~ failed'
  BY <1>1, NothingNamed, PTL
<1>2. CASE Errexit \/ Exit
  <2>1. Left' = {}
    BY <1>2 DEF Errexit, Exit, Left, Range
  <2> QED
    BY <2>1 DEF NamedInv
<1>3. CASE OtherwiseGather
  <2> DEFINE c == <<Cmd("exit", 1)>>
  <2>1. c \in Seq(GatherCmds) /\ Range(c) = {Cmd("exit", 1)}
    BY DEF GatherCmds, Range
  <2>2. Left' = Range(must_gather \o c)
    BY <1>3 DEF OtherwiseGather, Left
  <2> HIDE DEF c
  <2>3. Left' = Range(must_gather) \cup Range(c)
    BY <2>1, <2>2, GatherWords, RangeConcatenation
  <2>4. \A d \in Left' : d.op \in {"pods", "nodes", "exit"}
    BY <2>1, <2>3, GatherWords, CmdFields
  <2> QED
    BY <2>4 DEF NamedInv, OfApplied
<1>4. ASSUME failed', ~ Errexit, ~ Exit, ~ OtherwiseGather
      PROVE  NamedInv'
  <2>1. failed
    BY <1>4 DEF ScriptStep, Plain, CreateNamespace, WaitActive, Apply, StartTests,
       ListStatefulSets, ListDeployments, CheckStatus, Restart, WaitJob, Finish,
       GatherPods, Describe, Containers, Logs
  <2>2. todo # << >>
    BY <2>1, StepsHaveACommand, EmptyList DEF Finish, StartTests
  <2>3. Head(todo) \in GatherCmds /\ Head(todo) \in Left
    BY <2>1, <2>2, GatheringHead, HeadIsKnown
  <2>4. ASSUME NEW x, NEW op
        PROVE  Range(<<Cmd(op, x)>>) = {Cmd(op, x)}
    BY DEF Range
  <2>5. CASE Then(<< >>) /\ Applied' = Applied
    BY <2>2, <2>5, NoneIsASequence, NamedStays
  <2>6. CASE Plain \/ Logs
    BY <1>4, <2>5, <2>6 DEF Plain, Logs, Go, Applied, clusterState
  <2>7. CASE GatherPods
    <3> DEFINE n == Head(todo).arg
               T == {w \in Of(n) \cap Applied : pod[w] # "absent"}
    <3>1. /\ Head(todo).op = "pods" /\ Applied' = Applied
          /\ Then(Each("describe", T)) \/ Then(<< >>)
      BY <2>7 DEF GatherPods, Runs, Arg, clusterState, Go, Applied
    <3>2. n \in Range(NS)
      BY <2>3, <3>1, GatherKinds
    <3>3. IsFiniteSet(T) /\ T \subseteq Workloads /\ T \subseteq Applied
      <4>1. IsFiniteSet(Of(n)) /\ T \in SUBSET Of(n)
        BY <3>2 DEF ScriptAssumption
      <4> QED
        BY <3>2, <4>1, FS_Subset DEF Workloads, Of
    <3>4. {Cmd("describe", w) : w \in T} \subseteq GatherCmds
      BY <3>3 DEF GatherCmds
    <3> HIDE DEF T, n
    <3>5. /\ Each("describe", T) \in Seq(GatherCmds)
          /\ Range(Each("describe", T)) = {Cmd("describe", w) : w \in T}
      BY <3>3, <3>4, EachLists, SeqMonotonic
    <3>6. \A c \in Range(Each("describe", T)) : OfApplied(c)
      BY <3>3, <3>5, CmdFields DEF OfApplied
    <3> QED
      BY <2>2, <2>5, <3>1, <3>5, <3>6, NamedStays
  <2>8. CASE Describe \/ Containers
    <3>1. /\ Head(todo).op \in {"describe", "containers"} /\ Applied' = Applied
          /\ \/ \E op \in {"containers", "logs"} : Then(<<Cmd(op, Head(todo).arg)>>)
             \/ Then(<< >>)
      BY <1>4, <2>8 DEF Describe, Containers, Runs, Arg, clusterState, Go, Applied
    <3>2. Head(todo).arg \in Workloads /\ Head(todo).arg \in Applied
      BY <2>3, <3>1, GatherKinds DEF NamedInv, OfApplied
    <3>3. ASSUME NEW op \in {"containers", "logs"}, Then(<<Cmd(op, Head(todo).arg)>>)
          PROVE  NamedInv'
      <4> DEFINE c == Cmd(op, Head(todo).arg)
      <4>1. c \in GatherCmds /\ OfApplied(c)
        BY <3>2, CmdFields DEF GatherCmds, OfApplied
      <4>2. <<c>> \in Seq(GatherCmds) /\ Range(<<c>>) = {c} /\ Then(<<c>>)
        BY <2>4, <3>3, <4>1
      <4> HIDE DEF c
      <4> QED
        BY <2>2, <3>1, <4>1, <4>2, NamedStays
    <3> QED
      BY <2>5, <3>1, <3>3
  <2> QED
    BY <1>4, <2>1, <2>2, <2>6, <2>7, <2>8, GatheringHead DEF ScriptStep
<1> QED
  BY <1>1, <1>2, <1>3, <1>4

\* Applied workloads stay applied, and the states of their pods are known.
LEMMA PodsStep ==
  ASSUME ScriptAssumption, ScriptInv, ScriptTypeOK, ScriptNext
  PROVE  /\ Applied \subseteq Applied' /\ Applied' \subseteq Workloads
         /\ \A w \in Applied' : pod'[w] \in {"absent", "waiting", "running", "up"}
<1>1. CASE Apply
  <2>1. CASE Errexit
    BY <2>1 DEF Errexit, clusterState, ScriptTypeOK, Applied
  <2>2. CASE pod' = [w \in Applied \cup Of(Arg) |-> IF w \in Applied THEN pod[w] ELSE "absent"]
    <3>1. todo # << >> /\ Head(todo).op = "apply"
      BY <1>1 DEF Apply, Runs
    <3>2. Arg \in Range(NS)
      BY <3>1, HeadIsKnown, ArgumentsAreKnown DEF Arg
    <3>3. Of(Arg) \subseteq Workloads
      BY <3>2 DEF Of, Workloads
    <3>4. Applied' = Applied \cup Of(Arg)
      BY <2>2 DEF Applied
    <3> QED
      BY <2>2, <3>3, <3>4 DEF ScriptTypeOK, Applied
  <2> QED
    BY <1>1, <2>1, <2>2 DEF Apply
<1>2. CASE Restart \/ PodMoves
  BY <1>2 DEF Restart, PodMoves, Errexit, clusterState, ScriptTypeOK, Applied
<1>3. ASSUME ScriptStep, ~ Apply, ~ Restart
      PROVE  pod' = pod
  BY <1>3 DEF ScriptStep, Plain, CreateNamespace, WaitActive, StartTests, ListStatefulSets,
     ListDeployments, CheckStatus, WaitJob, Finish, Exit, GatherPods, Describe, Containers,
     Logs, OtherwiseGather, Errexit, clusterState
<1> QED
  BY <1>1, <1>2, <1>3 DEF ScriptNext, ScriptTypeOK, Applied

\* A namespace that exists or was not listed is one of the script's.
LEMMA NamespacesStep ==
  ASSUME ScriptAssumption, ScriptInv, ScriptTypeOK, ScriptNext
  PROVE  exists' \subseteq Range(NS) /\ unlisted' \subseteq Range(NS)
<1>1. ASSUME CreateNamespace \/ ListStatefulSets
      PROVE  Arg \in Range(NS)
  <2>1. todo # << >> /\ Head(todo).op \in {"ns", "statefulsets"}
    BY <1>1 DEF CreateNamespace, ListStatefulSets, Runs
  <2> QED
    BY <2>1, HeadIsKnown, ArgumentsAreKnown DEF Arg
<1>2. CASE CreateNamespace
  BY <1>1, <1>2 DEF CreateNamespace, verdictState, ScriptTypeOK
<1>3. CASE ListStatefulSets
  BY <1>1, <1>3 DEF ListStatefulSets, clusterState, ScriptTypeOK
<1>4. ASSUME ~ CreateNamespace, ~ ListStatefulSets
      PROVE  UNCHANGED <<exists, unlisted>>
  BY <1>4 DEF ScriptNext, ScriptStep, Plain, WaitActive, Apply, StartTests,
     ListDeployments, CheckStatus, Restart, WaitJob, Finish, Exit, GatherPods, Describe,
     Containers, Logs, OtherwiseGather, Errexit, PodMoves, clusterState, verdictState
<1> QED
  BY <1>2, <1>3, <1>4 DEF ScriptTypeOK

\* The task and the exit code.
LEMMA CodesStep ==
  ASSUME ScriptAssumption, ScriptInv, ScriptTypeOK, ScriptNext
  PROVE  task' \in {"deploy", "tests"} /\ code' \in {NoCode, 0, 1}
<1>1. CASE Exit
  <2>1. todo # << >> /\ Head(todo).op = "exit"
    BY <1>1 DEF Exit, Runs
  <2>2. Arg = 1
    BY <2>1, HeadIsKnown, ArgumentsAreKnown DEF Arg
  <2> QED
    BY <1>1, <2>2 DEF Exit, ScriptTypeOK
<1>2. CASE Finish \/ StartTests
  BY <1>2 DEF Finish, StartTests, ScriptTypeOK
<1>3. ASSUME ~ Exit, ~ Finish, ~ StartTests
      PROVE  task' = task /\ code' \in {code, 1}
  BY <1>3 DEF ScriptNext, ScriptStep, Plain, CreateNamespace, WaitActive, Apply,
     ListStatefulSets, ListDeployments, CheckStatus, Restart, WaitJob, GatherPods, Describe,
     Containers, Logs, OtherwiseGather, Errexit, PodMoves, Then, Go
<1> QED
  BY <1>1, <1>2, <1>3 DEF ScriptTypeOK

\* What was seen, expected and gathered are workloads that were applied.
LEMMA VerdictStep ==
  ASSUME ScriptInv, ScriptTypeOK, NamedInv, ScriptNext
  PROVE  seen' \subseteq Applied /\ expected' \subseteq Applied /\ gathered' \subseteq Applied
<1>1. CASE OtherwiseGather /\ UNCHANGED seen
  BY <1>1 DEF OtherwiseGather, ScriptTypeOK
<1>2. CASE Logs
  <2>1. todo # << >> /\ Head(todo).op = "logs"
    BY <1>2 DEF Logs, Runs
  <2>2. Arg \in Applied
    BY <2>1, HeadIsKnown DEF NamedInv, OfApplied, Arg
  <2> QED
    BY <1>2, <2>2 DEF Logs, Errexit, verdictState, ScriptTypeOK
<1>3. CASE CheckStatus \/ Restart
  BY <1>1, <1>3 DEF CheckStatus, Restart, OtherwiseGather, Errexit, gatherState, verdictState,
     ScriptTypeOK
<1>4. ASSUME ~ Logs, ~ CheckStatus, ~ Restart, ~ OtherwiseGather
      PROVE  UNCHANGED <<seen, expected, gathered>>
  BY <1>4 DEF ScriptNext, ScriptStep, Plain, CreateNamespace, WaitActive, Apply, StartTests,
     ListStatefulSets, ListDeployments, WaitJob, Finish, Exit, GatherPods, Describe,
     Containers, Errexit, PodMoves, gatherState, verdictState
<1>5. OtherwiseGather => UNCHANGED seen
  BY DEF OtherwiseGather, verdictState
<1> QED
  BY <1>1, <1>2, <1>3, <1>4, <1>5 DEF ScriptTypeOK

\* The job stays well typed, for any namespaces and workloads.
THEOREM ScriptTypeInvariant ==
  ASSUME ScriptAssumption
  PROVE  ScriptSteps => []ScriptTypeOK
<1> DEFINE Typed == ScriptTypeOK /\ NamedInv
<1>1. ScriptInit => Typed
  <2> SUFFICES ASSUME ScriptInit
               PROVE  ScriptTypeOK /\ NamedInv
    OBVIOUS
  <2>1. ScriptTypeOK
    BY DEF ScriptInit, ScriptTypeOK, Applied
  <2> QED
    BY <2>1, ScriptInitially, NothingNamed DEF ScriptInit
<1>2. ScriptInv /\ ScriptInv' /\ Typed /\ [ScriptNext]_scriptVars => Typed'
  <2>1. ASSUME ScriptInv, ScriptInv', ScriptTypeOK, NamedInv, ScriptNext
        PROVE  ScriptTypeOK' /\ NamedInv'
    <3>1. ScriptTypeOK'
      BY <2>1, PodsStep, NamespacesStep, CodesStep, VerdictStep DEF ScriptTypeOK
    <3>2. PodMoves => NamedInv'
      BY <2>1 DEF PodMoves, NamedInv, OfApplied, Left, Applied
    <3> QED
      BY <2>1, <3>1, <3>2, NamedStep DEF ScriptNext
  <2>2. ASSUME ScriptTypeOK, NamedInv, UNCHANGED scriptVars
        PROVE  ScriptTypeOK' /\ NamedInv'
    BY <2>2 DEF scriptVars, clusterState, verdictState, gatherState, ScriptTypeOK, NamedInv,
                OfApplied, Left, Applied
  <2> QED
    BY <2>1, <2>2
<1>3. Typed => ScriptTypeOK
  OBVIOUS
<1> QED
  BY <1>1, <1>2, <1>3, ScriptInvariant, PTL DEF ScriptSteps

-----------------------------------------------------------------------------
(* The job comes to an end. *)

\* A command is replaced by commands of lower levels only.
Level(c) ==
    CASE c.op \in {"statefulsets", "pods"}    -> 4
      [] c.op \in {"deployments", "describe"} -> 3
      [] c.op \in {"active", "containers"}    -> 2
      [] OTHER                                -> 1

Places(n, s) == {i \in DOMAIN s : Level(s[i]) = n}
CountOf(n)   == Cardinality(Places(n, todo))

\* What is left of the job, in the order in which it counts: the calls of the
\* script, whether it may still have to gather, and commands by their level.
CallsLeft == IF code # NoCode THEN 0 ELSE IF task = "deploy" THEN 2 ELSE 1
MayGather == IF failed THEN 0 ELSE 1
JobLeft   == <<CallsLeft, MayGather, CountOf(4), CountOf(3), CountOf(2), CountOf(1)>>

Ranks == [1..6 -> Nat]
Lower == LexProductOrdering(OpToRel(<, Nat), Nat, 6)

\* Nothing is lowered for ever.
LEMMA LowerIsWellFounded == IsWellFoundedOn(Lower, Ranks)
  BY NatLessThanWellFounded, WFLexProductOrdering DEF Lower, Ranks

\* One rank is lower than another if it falls somewhere and rises nowhere before.
LEMMA IsLower ==
  ASSUME NEW a \in Ranks, NEW b \in Ranks, NEW j \in 1..6,
         \A i \in 1..(j - 1) : a[i] <= b[i], a[j] < b[j]
  PROVE  <<a, b>> \in Lower
<1>1. \A i \in 1..6 : a[i] \in Nat /\ b[i] \in Nat
  BY DEF Ranks
<1>2. ASSUME NEW k \in 1..6, a[k] < b[k], \A i \in 1..(k - 1) : a[i] = b[i]
      PROVE  <<a, b>> \in Lower
  <2>1. <<a[k], b[k]>> \in OpToRel(<, Nat)
    BY <1>1, <1>2 DEF OpToRel
  <2> QED
    BY <1>2, <2>1 DEF Lower, LexProductOrdering, Ranks
<1>3. \E k \in 1..6 : a[k] < b[k] /\ \A i \in 1..(k - 1) : a[i] = b[i]
  <2> DEFINE Falls(k) == a[k] < b[k] /\ \A i \in 1..(k - 1) : a[i] = b[i]
  <2>1. CASE a[1] < b[1]
    <3>1. Falls(1)
      BY <2>1
    <3> QED
      BY <3>1
  <2>2. CASE a[1] = b[1] /\ a[2] < b[2]
    <3>1. Falls(2)
      BY <2>2
    <3> QED
      BY <3>1
  <2>3. CASE a[1] = b[1] /\ a[2] = b[2] /\ a[3] < b[3]
    <3>1. Falls(3)
      BY <2>3
    <3> QED
      BY <3>1
  <2>4. CASE a[1] = b[1] /\ a[2] = b[2] /\ a[3] = b[3] /\ a[4] < b[4]
    <3>1. Falls(4)
      BY <2>4
    <3> QED
      BY <3>1
  <2>5. CASE a[1] = b[1] /\ a[2] = b[2] /\ a[3] = b[3] /\ a[4] = b[4] /\ a[5] < b[5]
    <3>1. Falls(5)
      BY <2>5
    <3> QED
      BY <3>1
  <2>6. CASE a[1] = b[1] /\ a[2] = b[2] /\ a[3] = b[3] /\ a[4] = b[4] /\ a[5] = b[5]
    <3>1. j = 6
      BY <1>1, <2>6
    <3>2. Falls(6)
      BY <2>6, <3>1
    <3> QED
      BY <3>2
  <2> QED
    BY <1>1, <2>1, <2>2, <2>3, <2>4, <2>5, <2>6
<1> QED
  BY <1>2, <1>3

\* The head of a list gives way to commands of lower levels: its level has one
\* command less, and no level above has more.
LEMMA HeadGivesWay ==
  ASSUME NEW S, NEW s \in Seq(S), s # << >>, NEW T, NEW cmds \in Seq(T),
         NEW n \in 1..4,
         \A c \in Range(cmds) : Level(c) < n, Level(Head(s)) <= n
  PROVE  /\ Cardinality(Places(n, cmds \o Tail(s))) \in Nat
         /\ Cardinality(Places(n, s)) \in Nat
         /\ Cardinality(Places(n, cmds \o Tail(s))) <= Cardinality(Places(n, s))
         /\ Level(Head(s)) = n =>
               Cardinality(Places(n, cmds \o Tail(s))) < Cardinality(Places(n, s))
<1> DEFINE m == Len(cmds)
           t == cmds \o Tail(s)
           U == S \cup T
<1>1. /\ m \in Nat /\ Len(s) \in Nat \ {0} /\ Head(s) = s[1] /\ Tail(s) \in Seq(S)
      /\ Len(Tail(s)) = Len(s) - 1
      /\ \A i \in 1 .. Len(s) - 1 : Tail(s)[i] = s[i + 1]
  BY HeadTailProperties, EmptySeq
<1>2. /\ DOMAIN t = 1 .. (m + Len(s) - 1) /\ DOMAIN s = 1 .. Len(s)
      /\ \A i \in 1 .. m : t[i] = cmds[i]
      /\ \A i \in (m + 1) .. (m + Len(s) - 1) : t[i] = s[i - m + 1]
  <2>1. cmds \in Seq(U) /\ Tail(s) \in Seq(U)
    BY <1>1, SeqMonotonic
  <2>2. /\ t \in Seq(U) /\ Len(t) = m + (Len(s) - 1)
        /\ \A i \in 1 .. (m + (Len(s) - 1)) : t[i] = IF i <= m THEN cmds[i] ELSE Tail(s)[i - m]
    BY <1>1, <2>1, ConcatProperties
  <2>3. DOMAIN t = 1 .. (m + Len(s) - 1)
    BY <1>1, <2>2
  <2>4. \A i \in (m + 1) .. (m + Len(s) - 1) : t[i] = s[i - m + 1]
    <3> SUFFICES ASSUME NEW i \in (m + 1) .. (m + Len(s) - 1) PROVE t[i] = s[i - m + 1]
      OBVIOUS
    <3>1. i \in 1 .. (m + (Len(s) - 1)) /\ ~ (i <= m) /\ i - m \in 1 .. Len(s) - 1
      BY <1>1
    <3>2. t[i] = Tail(s)[i - m]
      BY <2>2, <3>1
    <3>3. Tail(s)[i - m] = s[(i - m) + 1]
      BY <1>1, <3>1
    <3> QED
      BY <3>2, <3>3
  <2>5. \A i \in 1 .. m : t[i] = cmds[i]
    BY <1>1, <2>2
  <2> QED
    BY <2>3, <2>4, <2>5
<1>3. \A i \in 1 .. m : cmds[i] \in Range(cmds)
  BY DEF Range
<1> HIDE DEF m, t
<1> DEFINE P == Places(n, s)
           Q == Places(n, t)
           f == [i \in Q |-> i - m + 1]
<1>4. \A i \in Q : i \in (m + 1) .. (m + Len(s) - 1)
  <2> SUFFICES ASSUME NEW i \in Q PROVE i \in (m + 1) .. (m + Len(s) - 1)
    OBVIOUS
  <2>1. i \in 1 .. (m + Len(s) - 1) /\ Level(t[i]) = n
    BY <1>2 DEF Places
  <2>2. i \notin 1 .. m
    BY <1>2, <1>3, <2>1
  <2> QED
    BY <1>1, <2>1, <2>2
<1>5. f \in Injection(Q, P \ {1})
  <2>1. \A i \in Q : i - m + 1 \in P \ {1}
    BY <1>1, <1>2, <1>4 DEF Places
  <2>2. \A i, k \in Q : f[i] = f[k] => i = k
    BY <1>1, <1>4
  <2>3. f \in [Q -> P \ {1}]
    BY <2>1
  <2> QED
    BY <2>2, <2>3 DEF Injection, IsInjective
<1>6. IsFiniteSet(P)
  <2>1. IsFiniteSet(1 .. Len(s))
    BY <1>1, FS_Interval
  <2>2. P \in SUBSET (1 .. Len(s))
    BY <1>2 DEF Places
  <2> QED
    BY <2>1, <2>2, FS_Subset
<1> HIDE DEF P, Q, f
<1>7. IsFiniteSet(P \ {1}) /\ Cardinality(P \ {1}) = (IF 1 \in P THEN Cardinality(P) - 1 ELSE Cardinality(P))
  BY <1>6, FS_RemoveElement
<1>8. IsFiniteSet(Q) /\ Cardinality(Q) <= Cardinality(P \ {1})
  BY <1>5, <1>7, FS_Injection
<1>9. Cardinality(P) \in Nat /\ Cardinality(Q) \in Nat
  BY <1>6, <1>8, FS_CardinalityType
<1>10. Level(Head(s)) = n => 1 \in P
  BY <1>1, <1>2 DEF P, Places
<1> QED
  BY <1>7, <1>8, <1>9, <1>10 DEF P, Q, t

Cmds == GatherCmds \cup DeployCmds \cup TestCmds

LEMMA LevelRange == \A c : Level(c) \in 1..4
  BY DEF Level

\* What is left to do is known while the job goes on.
LEMMA CommandsKnown ==
  ASSUME ScriptInv
  PROVE  /\ todo \in Seq(Cmds)
         /\ todo # << >> => code = NoCode
<1>1. code # NoCode => todo = << >>
  BY DEF ScriptInv, CodeInv
<1>2. todo \in Seq(GatherCmds) \/ todo \in Seq(DeployCmds) \/ todo \in Seq(TestCmds)
  <2>1. CASE ~ failed
    BY <2>1 DEF ScriptInv, TodoInv
  <2>2. CASE failed /\ code = 1
    <3>1. todo = << >>
      BY <1>1, <2>2 DEF NoCode
    <3> QED
      BY <3>1, NoneIsASequence
  <2>3. CASE failed /\ code # 1
    BY <2>3 DEF ScriptInv, FailInv
  <2> QED
    BY <2>1, <2>2, <2>3
<1>3. /\ Seq(GatherCmds) \subseteq Seq(Cmds) /\ Seq(DeployCmds) \subseteq Seq(Cmds)
      /\ Seq(TestCmds) \subseteq Seq(Cmds)
  BY SeqMonotonic DEF Cmds
<1> QED
  BY <1>1, <1>2, <1>3

LEMMA JobLeftIsRank ==
  ASSUME ScriptInv
  PROVE  JobLeft \in Ranks
<1>1. CallsLeft \in Nat /\ MayGather \in Nat
  BY DEF CallsLeft, MayGather
<1>2. DOMAIN todo = 1 .. Len(todo) /\ Len(todo) \in Nat
  BY CommandsKnown
<1>3. ASSUME NEW n PROVE CountOf(n) \in Nat
  <2>1. IsFiniteSet(1 .. Len(todo)) /\ Places(n, todo) \in SUBSET (1 .. Len(todo))
    BY <1>2, FS_Interval DEF Places
  <2> QED
    BY <2>1, FS_Subset, FS_CardinalityType DEF CountOf
<1> QED
  BY <1>1, <1>3 DEF JobLeft, Ranks

\* The three ways in which a step brings the job nearer to its end.
LEMMA CallOver ==
  ASSUME ScriptInv, ScriptInv', CallsLeft' < CallsLeft
  PROVE  <<JobLeft', JobLeft>> \in Lower
<1>1. JobLeft \in Ranks
  BY JobLeftIsRank
<1>2. JobLeft' \in Ranks
  <2>1. (ScriptInv => JobLeft \in Ranks)'
    BY JobLeftIsRank, PTL
  <2> QED
    BY <2>1
<1>3. JobLeft'[1] < JobLeft[1]
  BY DEF JobLeft
<1> QED
  BY <1>1, <1>2, <1>3, IsLower

LEMMA GatheringAhead ==
  ASSUME ScriptInv, ScriptInv', CallsLeft' = CallsLeft, ~ failed, failed'
  PROVE  <<JobLeft', JobLeft>> \in Lower
<1>1. JobLeft \in Ranks
  BY JobLeftIsRank
<1>2. JobLeft' \in Ranks
  <2>1. (ScriptInv => JobLeft \in Ranks)'
    BY JobLeftIsRank, PTL
  <2> QED
    BY <2>1
<1>3. JobLeft'[1] = JobLeft[1] /\ JobLeft'[2] < JobLeft[2]
  BY DEF JobLeft, MayGather
<1>4. JobLeft'[1] \in Nat /\ JobLeft[1] \in Nat
  BY <1>1, <1>2 DEF Ranks
<1>5. \A i \in 1 .. (2 - 1) : JobLeft'[i] <= JobLeft[i]
  BY <1>3, <1>4
<1> QED
  BY <1>1, <1>2, <1>3, <1>5, IsLower

LEMMA CommandOver ==
  ASSUME ScriptInv, ScriptInv', todo # << >>, NEW T, NEW cmds \in Seq(T), Then(cmds),
         failed' = failed, \A c \in Range(cmds) : Level(c) < Level(Head(todo))
  PROVE  <<JobLeft', JobLeft>> \in Lower
<1> DEFINE k == Level(Head(todo))
<1>1. JobLeft \in Ranks
  BY JobLeftIsRank
<1>2. JobLeft' \in Ranks
  <2>1. (ScriptInv => JobLeft \in Ranks)'
    BY JobLeftIsRank, PTL
  <2> QED
    BY <2>1
<1>3. JobLeft'[1] = JobLeft[1] /\ JobLeft'[2] = JobLeft[2]
  BY DEF JobLeft, CallsLeft, MayGather, Then
<1>4. k \in 1..4
  BY LevelRange
<1>5. todo \in Seq(Cmds) /\ todo' = cmds \o Tail(todo)
  BY CommandsKnown DEF Then
<1>6. ASSUME NEW n \in 1..4, k <= n
      PROVE  /\ CountOf(n)' \in Nat /\ CountOf(n) \in Nat
             /\ CountOf(n)' <= CountOf(n) /\ (k = n => CountOf(n)' < CountOf(n))
  <2>1. \A c \in Range(cmds) : Level(c) < n
    BY <1>4, <1>6, LevelRange
  <2> QED
    BY <1>5, <1>6, <2>1, HeadGivesWay DEF CountOf
<1>7. /\ JobLeft[3] = CountOf(4) /\ JobLeft[4] = CountOf(3)
      /\ JobLeft[5] = CountOf(2) /\ JobLeft[6] = CountOf(1)
  BY DEF JobLeft
<1>8. /\ JobLeft'[3] = CountOf(4)' /\ JobLeft'[4] = CountOf(3)'
      /\ JobLeft'[5] = CountOf(2)' /\ JobLeft'[6] = CountOf(1)'
  BY DEF JobLeft
<1>9. \A i \in 1..6 : JobLeft[i] \in Nat /\ JobLeft'[i] \in Nat
  BY <1>1, <1>2 DEF Ranks
<1> HIDE DEF k
<1>10. \A i \in 1 .. 6 - k : JobLeft'[i] <= JobLeft[i]
  <2> SUFFICES ASSUME NEW i \in 1 .. 6 - k PROVE JobLeft'[i] <= JobLeft[i]
    OBVIOUS
  <2>1. CASE i \in {1, 2}
    BY <1>3, <1>9, <2>1
  <2>2. CASE i = 3
    BY <1>4, <1>6, <1>7, <1>8, <2>2
  <2>3. CASE i = 4
    BY <1>4, <1>6, <1>7, <1>8, <2>3
  <2>4. CASE i = 5
    BY <1>4, <1>6, <1>7, <1>8, <2>4
  <2> QED
    BY <1>4, <2>1, <2>2, <2>3, <2>4
<1>11. JobLeft'[7 - k] < JobLeft[7 - k]
  BY <1>4, <1>6, <1>7, <1>8
<1>12. 7 - k \in 1..6 /\ (7 - k) - 1 = 6 - k
  BY <1>4
<1> QED
  BY <1>1, <1>2, <1>10, <1>11, <1>12, IsLower

\* One command, and a list of commands of one kind.
LEMMA OneCommand ==
  ASSUME NEW c
  PROVE  <<c>> \in Seq({c}) /\ Range(<<c>>) = {c}
  BY DEF Range

LEMMA EachOp ==
  ASSUME NEW op, NEW S, IsFiniteSet(S)
  PROVE  /\ Each(op, S) \in Seq({Cmd(op, x) : x \in S})
         /\ \A c \in Range(Each(op, S)) : c.op = op
<1>1. /\ Each(op, S) \in Seq({Cmd(op, x) : x \in S})
      /\ Range(Each(op, S)) = {Cmd(op, x) : x \in S}
  BY EachLists
<1>2. ASSUME NEW c \in Range(Each(op, S)) PROVE c.op = op
  <2>1. PICK x \in S : c = Cmd(op, x)
    BY <1>1
  <2> QED
    BY <2>1, CmdFields
<1> QED
  BY <1>1, <1>2

\* A step that leaves the list with something to run in it either ends the job, or
\* begins the gathering, or puts commands of lower levels in the place of one.
LEMMA EachCommand ==
  ASSUME ScriptAssumption, ScriptInv, todo # << >>, ScriptStep,
         ~ Errexit, failed \/ ~ OtherwiseGather, ~ Exit
  PROVE  /\ failed' = failed
         /\ \E T : \E cmds \in Seq(T) :
               Then(cmds) /\ \A c \in Range(cmds) : Level(c) < Level(Head(todo))
<1> DEFINE Goal == /\ failed' = failed
                   /\ \E T : \E cmds \in Seq(T) :
                         Then(cmds) /\ \A c \in Range(cmds) : Level(c) < Level(Head(todo))
<1>1. ASSUME Go, failed' = failed
      PROVE  Goal
  <2>1. << >> \in Seq({}) /\ Range(<< >>) = {}
    BY NoneIsASequence
  <2> QED
    BY <1>1, <2>1 DEF Go
<1>2. ASSUME NEW c, Then(<<c>>), failed' = failed, Level(c) < Level(Head(todo))
      PROVE  Goal
  <2>1. <<c>> \in Seq({c}) /\ \A d \in Range(<<c>>) : d = c
    BY OneCommand
  <2>2. \A d \in Range(<<c>>) : Level(d) < Level(Head(todo))
    BY <1>2, <2>1
  <2> HIDE DEF Goal
  <2>3. \E cmds \in Seq({c}) : Then(cmds) /\ \A d \in Range(cmds) : Level(d) < Level(Head(todo))
    BY <1>2, <2>1, <2>2
  <2> QED
    BY <1>2, <2>3 DEF Goal
<1>3. code = NoCode
  BY CommandsKnown
<1>4. CASE Plain
  BY <1>1, <1>4 DEF Plain
<1>5. CASE CreateNamespace \/ Apply \/ CheckStatus \/ Restart \/ WaitJob \/ Logs
  <2>1. failed => ~ CheckStatus /\ ~ WaitJob
    BY GatheringHead
  <2>2. Go /\ failed' = failed
    BY <1>5, <2>1 DEF CreateNamespace, Apply, CheckStatus, Restart, WaitJob, Logs
  <2> QED
    BY <1>1, <2>2
<1>6. CASE WaitActive
  <2>1. Then(<<Cmd("apply", Arg)>>) /\ failed' = failed /\ Head(todo).op = "active"
    BY <1>6 DEF WaitActive, Runs
  <2>2. Level(Cmd("apply", Arg)) < Level(Head(todo))
    BY <2>1, CmdFields DEF Level
  <2> QED
    BY <1>2, <2>1, <2>2
<1>7. CASE ListStatefulSets
  <2>1. PICK x : Then(<<Cmd("deployments", x)>>)
    BY <1>7 DEF ListStatefulSets
  <2>2. failed' = failed /\ Head(todo).op = "statefulsets"
    BY <1>7 DEF ListStatefulSets, Runs
  <2>3. Level(Cmd("deployments", x)) < Level(Head(todo))
    BY <2>2, CmdFields DEF Level
  <2> QED
    BY <1>2, <2>1, <2>2, <2>3
<1>8. CASE ListDeployments
  <2> DEFINE n == Head(todo).arg.ns
             F == Head(todo).arg.found
             G == Dep[n] \cap Applied
             a == Each("check_status", F)
             b == Each("check_status", G)
             T == {Cmd("check_status", w) : w \in F} \cup {Cmd("check_status", w) : w \in G}
  <2>1. Then(a \o b) /\ failed' = failed /\ Head(todo).op = "deployments"
    BY <1>8 DEF ListDeployments, Arg, Runs
  <2>2. Head(todo) \in TestCmds \/ Head(todo) \in DeployCmds
    <3>1. ~ failed
      BY <1>8, GatheringHead
    <3> QED
      BY <3>1, HeadTailProperties DEF ScriptInv, TodoInv
  <2>3. n \in Range(NS) /\ F \in SUBSET Sts[n]
    BY <2>1, <2>2, TestKinds, DeployKinds
  <2> HIDE DEF n, F
  <2>4. IsFiniteSet(F) /\ IsFiniteSet(G)
    <3>1. IsFiniteSet(Of(n)) /\ F \in SUBSET Of(n) /\ G \in SUBSET Of(n)
      BY <2>3 DEF ScriptAssumption, Of
    <3> QED
      BY <3>1, FS_Subset
  <2> HIDE DEF G
  <2>5. /\ a \in Seq(T) /\ b \in Seq(T)
        /\ \A c \in Range(a) \cup Range(b) : c.op = "check_status"
    <3>1. /\ a \in Seq({Cmd("check_status", w) : w \in F})
          /\ b \in Seq({Cmd("check_status", w) : w \in G})
          /\ \A c \in Range(a) \cup Range(b) : c.op = "check_status"
      BY <2>4, EachOp
    <3>2. /\ Seq({Cmd("check_status", w) : w \in F}) \subseteq Seq(T)
          /\ Seq({Cmd("check_status", w) : w \in G}) \subseteq Seq(T)
      BY SeqMonotonic
    <3> QED
      BY <3>1, <3>2
  <2> HIDE DEF a, b, T
  <2>6. a \o b \in Seq(T) /\ Range(a \o b) = Range(a) \cup Range(b)
    <3>1. ASSUME NEW d \in Seq(T), NEW e \in Seq(T)
          PROVE  d \o e \in Seq(T) /\ Range(d \o e) = Range(d) \cup Range(e)
      BY ConcatProperties, RangeConcatenation
    <3> QED
      BY <2>5, <3>1
  <2>7. \A c \in Range(a \o b) : Level(c) < Level(Head(todo))
    BY <2>1, <2>5, <2>6 DEF Level
  <2> QED
    BY <2>1, <2>6, <2>7
<1>9. CASE GatherPods
  <2> DEFINE W == {w \in Of(Head(todo).arg) \cap Applied : pod[w] # "absent"}
  <2>1. /\ Head(todo).op = "pods" /\ failed' = failed
        /\ Then(Each("describe", W)) \/ Go
    BY <1>9 DEF GatherPods, Runs, Arg
  <2>2. Head(todo).arg \in Range(NS)
    <3>1. Head(todo) \in Cmds
      BY CommandsKnown, HeadTailProperties
    <3> QED
      BY <2>1, <3>1, GatherKinds, DeployKinds, TestKinds DEF Cmds
  <2>3. IsFiniteSet(W)
    <3>1. IsFiniteSet(Of(Head(todo).arg)) /\ W \in SUBSET Of(Head(todo).arg)
      BY <2>2 DEF ScriptAssumption
    <3> QED
      BY <3>1, FS_Subset
  <2> HIDE DEF W
  <2>4. /\ Each("describe", W) \in Seq({Cmd("describe", w) : w \in W})
        /\ \A c \in Range(Each("describe", W)) : Level(c) < Level(Head(todo))
    <3>1. \A c \in Range(Each("describe", W)) : c.op = "describe"
      BY <2>3, EachOp
    <3> QED
      BY <2>1, <2>3, <3>1, EachOp DEF Level
  <2>5. CASE Then(Each("describe", W))
    BY <2>1, <2>4, <2>5
  <2> QED
    BY <1>1, <2>1, <2>5
<1>10. CASE Describe
  <2>1. Then(<<Cmd("containers", Arg)>>) /\ failed' = failed /\ Head(todo).op = "describe"
    BY <1>10 DEF Describe, Runs
  <2>2. Level(Cmd("containers", Arg)) < Level(Head(todo))
    BY <2>1, CmdFields DEF Level
  <2> QED
    BY <1>2, <2>1, <2>2
<1>11. CASE Containers
  <2>1. /\ Then(<<Cmd("logs", Arg)>>) \/ Go
        /\ failed' = failed /\ Head(todo).op = "containers"
    BY <1>11 DEF Containers, Runs
  <2>2. Level(Cmd("logs", Arg)) < Level(Head(todo))
    BY <2>1, CmdFields DEF Level
  <2> QED
    BY <1>1, <1>2, <2>1, <2>2
<1>12. ~ StartTests /\ ~ Finish
  BY DEF StartTests, Finish
<1> QED
  BY <1>4, <1>5, <1>6, <1>7, <1>8, <1>9, <1>10, <1>11, <1>12 DEF ScriptStep

\* Every step of the script, of whichever kind.
LEMMA JobProgress ==
  ASSUME ScriptAssumption, ScriptInv, ScriptInv', ScriptStep
  PROVE  <<JobLeft', JobLeft>> \in Lower
<1>1. CASE todo = << >>
  <2>1. StartTests \/ Finish
    BY <1>1 DEF ScriptStep, Plain, CreateNamespace, WaitActive, Apply, ListStatefulSets,
       ListDeployments, CheckStatus, Restart, WaitJob, Exit, GatherPods, Describe,
       Containers, Logs, Runs
  <2>2. CallsLeft' < CallsLeft
    BY <2>1 DEF StartTests, Finish, CallsLeft, NoCode
  <2> QED
    BY <2>2, CallOver
<1>2. CASE todo # << >> /\ (Errexit \/ Exit)
  <2>1. code = NoCode
    BY <1>2, CommandsKnown
  <2>2. code' # NoCode
    <3>1. CASE Errexit
      BY <3>1 DEF Errexit, NoCode
    <3>2. CASE Exit
      <4>1. Head(todo) \in Cmds /\ Head(todo).op = "exit" /\ code' = Head(todo).arg
        BY <1>2, <3>2, CommandsKnown, HeadTailProperties DEF Exit, Runs, Arg
      <4>2. code' = 1
        BY <4>1, GatherKinds, DeployKinds, TestKinds DEF Cmds
      <4> QED
        BY <4>2 DEF NoCode
    <3> QED
      BY <1>2, <3>1, <3>2
  <2>3. CallsLeft \in {1, 2}
    BY <2>1 DEF CallsLeft
  <2>4. CallsLeft' = 0
    BY <2>2 DEF CallsLeft, NoCode
  <2>5. CallsLeft' < CallsLeft
    BY <2>3, <2>4
  <2> QED
    BY <2>5, CallOver
<1>3. CASE todo # << >> /\ ~ failed /\ OtherwiseGather
  <2>1. CallsLeft' = CallsLeft /\ failed'
    BY <1>3 DEF OtherwiseGather, CallsLeft
  <2> QED
    BY <1>3, <2>1, GatheringAhead
<1>4. CASE todo # << >> /\ (failed \/ ~ OtherwiseGather) /\ ~ Errexit /\ ~ Exit
  <2>1. /\ failed' = failed
        /\ \E T : \E cmds \in Seq(T) :
              Then(cmds) /\ \A c \in Range(cmds) : Level(c) < Level(Head(todo))
    BY <1>4, EachCommand
  <2>2. PICK T : \E cmds \in Seq(T) :
              Then(cmds) /\ \A c \in Range(cmds) : Level(c) < Level(Head(todo))
    BY <2>1
  <2>3. PICK cmds \in Seq(T) :
              Then(cmds) /\ \A c \in Range(cmds) : Level(c) < Level(Head(todo))
    BY <2>2
  <2> QED
    BY <1>4, <2>1, <2>3, CommandOver
<1> QED
  BY <1>1, <1>2, <1>3, <1>4

\* Whatever the pods do meanwhile, each step of the script brings the job nearer to
\* its end, in an order in which nothing falls for ever: a loop unrolls into
\* commands of lower levels, and gathering begins once (ci_test.sh:86-134).
THEOREM EveryCommandIsProgress ==
  ASSUME ScriptAssumption
  PROVE  /\ IsWellFoundedOn(Lower, Ranks)
         /\ ScriptSteps => /\ [](JobLeft \in Ranks)
                           /\ [][ScriptStep => <<JobLeft', JobLeft>> \in Lower]_scriptVars
                           /\ [][~ ScriptStep => JobLeft' = JobLeft]_scriptVars
<1>1. ScriptInv => JobLeft \in Ranks
  BY JobLeftIsRank
<1>2. ScriptInv /\ ScriptInv' /\ [ScriptNext]_scriptVars =>
        [ScriptStep => <<JobLeft', JobLeft>> \in Lower]_scriptVars
  BY JobProgress
<1>3. [ScriptNext]_scriptVars => [~ ScriptStep => JobLeft' = JobLeft]_scriptVars
  <2> SUFFICES ASSUME PodMoves PROVE JobLeft' = JobLeft
    BY DEF ScriptNext
  <2>1. UNCHANGED <<task, todo, code, failed>>
    BY DEF PodMoves
  <2> QED
    BY <2>1 DEF JobLeft, CallsLeft, MayGather, CountOf
<1>4. ScriptSteps => []ScriptInv
  BY ScriptInvariant
<1>5. ScriptSteps => /\ [](JobLeft \in Ranks)
                     /\ [][ScriptStep => <<JobLeft', JobLeft>> \in Lower]_scriptVars
                     /\ [][~ ScriptStep => JobLeft' = JobLeft]_scriptVars
  BY <1>1, <1>2, <1>3, <1>4, PTL DEF ScriptSteps
<1> QED
  BY <1>5, LowerIsWellFounded

-----------------------------------------------------------------------------
(* The whole of MCPipeline.                                                 *)

\* A behaviour of the pipeline is one of each of its parts.
THEOREM PartsOfThePipeline ==
  PipelineSpec => Spec /\ SLOSpec /\ GenSpec /\ ScriptSteps
<1>1. PipelineInit => Init /\ SLOInit /\ GenInit /\ ScriptInit
  BY DEF PipelineInit
<1>2. [PipelineNext]_PipelineVars => [Next]_vars
  BY DEF PipelineNext, PipelineVars, RbacRuns, SloRuns, BuildRuns, TestsRun
<1>3. [PipelineNext]_PipelineVars => [GenNext]_genVars
  BY DEF PipelineNext, PipelineVars, RbacRuns, SloRuns, BuildRuns, TestsRun
<1>4. [PipelineNext]_PipelineVars => [ScriptNext]_scriptVars
  BY DEF PipelineNext, PipelineVars, RbacRuns, SloRuns, BuildRuns, TestsRun
<1>5. [PipelineNext]_PipelineVars => [SLONext]_sloVars
  BY DEF PipelineNext, PipelineVars, RbacRuns, SloRuns, BuildRuns, TestsRun
<1> QED
  BY <1>1, <1>2, <1>3, <1>4, <1>5, PTL DEF PipelineSpec, Spec, SLOSpec, GenSpec, ScriptSteps

\* The parts are well typed together.
THEOREM PipelineTypes == PipelineSpec => []PipelineTypeOK
<1>1. RbacInv => TypeOK
  BY DEF RbacInv
<1>2. TypeOK /\ GenTypeOK /\ ScriptTypeOK => PipelineTypeOK
  BY DEF PipelineTypeOK
<1> QED
  BY <1>1, <1>2, PartsOfThePipeline, TestsAssumption, RbacInvariant, GenerationTypes,
     ScriptTypeInvariant, PTL

\* What is proved of each part holds of the whole, in any order of their steps.
THEOREM PipelineIsSound ==
  PipelineSpec =>
    [](/\ GrantsAsAsked /\ SourceTableIsAccepted
       /\ EveryObjectiveHasItsFile /\ EveryAlertIsRouted /\ AlertsTellInstancesApart
       /\ GreenIsCurrent /\ MadeIsCurrent
       /\ NoFailureIsLost /\ GreenMeansRolledOut /\ UndisturbedGatheringIsComplete)
<1>1. ScriptSteps => [](NoFailureIsLost /\ GreenMeansRolledOut /\ UndisturbedGatheringIsComplete)
  <2>1. ScriptInv => NoFailureIsLost /\ GreenMeansRolledOut
    BY ScriptInvSuffices
  <2>2. GatherInv => UndisturbedGatheringIsComplete
    BY DEF GatherInv, UndisturbedGatheringIsComplete
  <2> QED
    BY <2>1, <2>2, TestsAssumption, ScriptInvariant, GatherInvariant, PTL
<1> QED
  BY <1>1, PartsOfThePipeline, AccountsGetWhatTheirRowAsks, TheSourceIsAccepted,
     ObjectivesHaveFiles, AlertsAreRouted, AlertsAreToldApart, PassedIsCurrent,
     BothMadeIsCurrent, PTL
=============================================================================
