------------------------------- MODULE MCRbac -------------------------------
(***************************************************************************)
(* Rbac for TLC: the table of the source with one more row at either end,  *)
(* and every table of up to two rows over names that differ by an        *)
(* environment suffix.                                                     *)
(***************************************************************************)
EXTENDS Rbac, Functions

\* A row a maintainer may add to the source's table: names that are new, taken
\* by another row, by the admin binding, and taken but for a suffix.
NewNames == {<<"observatorium", "new">>, <<"observatorium", "rhobs">>,
             <<"observatorium", "rhobs", "staging">>, <<"rhobs", "admin">>,
             <<"observatorium", "psiocp", "production">>}
NewRows ==
    [name : NewNames, tenant : {"rhobs", "psiocp", "new"},
     perms : {{"write"}, Perm}, envs : {{}, {"production"}, Env},
     skip : BOOLEAN]

AnyNames == {<<"a">>, <<"a", "b">>, <<"a", "staging">>, <<"a", "production">>}
AnyRows ==
    [name : AnyNames, tenant : {"rhobs", "t"},
     perms : {{"read"}, Perm}, envs : {{"testing"}, Deployed},
     skip : {FALSE}]
    \cup [name : AnyNames, tenant : {"t"}, perms : {Perm},
          envs : {{"production"}}, skip : {TRUE}]

MCTenant  == {GenerateRBAC.rows[i].tenant : i \in 1..Len(GenerateRBAC.rows)}
             \cup {"new", "t"}
MCSegment == UNION ({Range(GenerateRBAC.rows[i].name) :
                        i \in 1..Len(GenerateRBAC.rows)}
                    \cup {Range(n) : n \in NewNames \cup AnyNames})
             \cup Env \cup {"admin", "team", "monitoring@redhat.com"}

MCTables ==
    {[GenerateRBAC EXCEPT !.rows = Append(@, r)] : r \in NewRows}
    \cup {[rows |-> <<r>> \o GenerateRBAC.rows,
           admin |-> GenerateRBAC.admin + 1] : r \in NewRows}
    \cup {[rows |-> rs, admin |-> n] :
             rs \in UNION {[1..k -> AnyRows] : k \in 0..2}, n \in 1..2}
=============================================================================
