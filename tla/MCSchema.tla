------------------------------ MODULE MCSchema ------------------------------
(* Instances of SchemaMigration for TLC.                                    *)
EXTENDS SchemaMigration, TLC

Nothing ==
    [tables |-> {}, versions |-> {}, users |-> <<>>, sessions |-> <<>>, peers |-> <<>>,
     thirds |-> <<>>, notice |-> "", oldNotice |-> "", country |-> "", logo |-> "",
     themed |-> "", brand |-> "", issuer |-> ""]

User(name, role, isAdmin, auth) ==
    [name |-> name, role |-> role, isAdmin |-> isAdmin, auth |-> auth,
     enabled |-> TRUE, email |-> ""]

Session(user, auth, client, log, hashed, live, id, uuid) ==
    [user |-> user, auth |-> auth, client |-> client, log |-> log, hashed |-> hashed,
     live |-> live, id |-> id, uuid |-> uuid]

Peer(id, uuid, user) == [id |-> id, uuid |-> uuid, user |-> user, source |-> ""]

Third(user, third, op, type, subject) ==
    [user |-> user, third |-> third, op |-> op, type |-> type, subject |-> subject]

(* A release with neither roles nor generations, OAuth bindings by kind. *)
V244 ==
    [Nothing EXCEPT !.tables = {"versions", "application"}, !.versions = {200, 244},
        !.users = <<User("admin", "missing", TRUE, 0), User("ann", "missing", FALSE, 0)>>,
        !.sessions = <<Session(2, 0, "", "native", FALSE, TRUE, "a", "x"),
                       Session(1, 0, "", "native", FALSE, TRUE, "a", "x"),
                       Session(2, 0, "", "web", FALSE, TRUE, "b", "y")>>,
        !.peers = <<Peer("a", "", 0)>>,
        !.thirds = <<Third(2, "google", "", "", "ann@g"), Third(1, "linuxdo", "", "", "l")>>,
        !.oldNotice = "hello", !.logo = "old"]

(* The same with one subject bound to both accounts. *)
V244Twice ==
    [V244 EXCEPT !.thirds = <<Third(2, "google", "", "", "ann@g"),
                              Third(1, "google", "", "", "ann@g")>>]

(* The last release: roles, generations and hashes, devices of two clients. *)
V312 ==
    [Nothing EXCEPT !.tables = {"versions", "application"}, !.versions = {311, 312},
        !.users = <<User("admin", "super", TRUE, 3), User("ann", "admin", TRUE, 1)>>,
        !.sessions = <<Session(1, 2, "native", "", TRUE, TRUE, "a", "x"),
                       Session(2, 1, "native", "", TRUE, TRUE, "a", "x"),
                       Session(1, 3, "native", "", TRUE, TRUE, "b", "y"),
                       Session(2, 1, "native", "", TRUE, FALSE, "c", "z")>>,
        !.peers = <<Peer("b", "y", 2)>>,
        !.country = "set", !.logo = "old", !.themed = "new", !.issuer = "google"]

(* An older process added the role column and stopped. *)
Halfway ==
    [V244 EXCEPT !.versions = {301}, !.users = <<User("admin", "", TRUE, 1),
                                                 User("ann", "user", FALSE, 1)>>,
        !.thirds = <<Third(2, "google", "google", "google", "ann@g")>>]

Databases ==
    {Nothing, V244, V244Twice, V312, Halfway,
     [V312 EXCEPT !.peers = <<Peer("b", "y", 2), Peer("b", "w", 0)>>],
     [V312 EXCEPT !.versions = {312, 314}],
     [V312 EXCEPT !.tables = {"application"}, !.versions = {}]}

Symmetry == Permutations(Server)
=============================================================================
