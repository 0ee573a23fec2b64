---------------------------- MODULE MCAdminScopes ----------------------------
(* A super administrator, a scoped one, a user and an account to create.    *)
EXTENDS AdminScopes, TLC

CONSTANTS boss, adm, usr, nu, g1, g2, c1, c2, p1, i1, r1, r2

Handlers == Permutations({r1, r2})

Rows(user, coll, item) ==
  (boss :> [role |-> "super", group |-> g2]) @@ (adm :> [role |-> "admin", group |-> g2])
    @@ (usr :> user) @@ (nu :> Unused)
    @@ (g1 :> [owner |-> None]) @@ (g2 :> [owner |-> None])
    @@ (c1 :> [owner |-> usr]) @@ (c2 :> coll) @@ (p1 :> [owner |-> usr]) @@ (i1 :> item)

Entry(table, to) == [table |-> table, owner |-> usr, coll |-> c1, to |-> to]

\* By the user's group, and one resource at a time.
Start ==
  {[db |-> Rows([role |-> "user", group |-> g1], Unused, i), grants |-> {<<adm, g1>>, <<adm, c1>>}] :
     i \in {Unused, Entry("book", None)}}
  \cup
  {[db |-> Rows([role |-> "user", group |-> g2], [owner |-> boss], Entry("rule", g1)),
    grants |-> {<<adm, usr>>, <<adm, p1>>, <<adm, c2>>}]}

Given == {{}, {g1, c1}, {usr, p1}}
=============================================================================
