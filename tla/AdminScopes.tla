----------------------------- MODULE AdminScopes -----------------------------
(* Administrator scopes (service/adminScope.go) and the administrators'      *)
(* pages that ask them (http/controller/admin): of users, groups,            *)
(* collections, devices, and the books, tags and rules of a collection.      *)
(*                                                                           *)
(* A handler keeps the role its middleware read, reads the row it is about,  *)
(* asks for each thing it touches whether it is in the administrator's       *)
(* scope, and writes by primary key; every one of these is a statement of    *)
(* its own.  The service's update and deletion of a user and the replacement *)
(* of a scope are transactions.                                              *)
(*                                                                           *)
(* A row is what scopes depend on: an account's role and group, the owner of *)
(* a collection or device, the owner, collection and addressee of an item.   *)
(* Sessions, which a change of role or scope revokes, are those of Accounts; *)
(* a handler that has passed its middleware is not stopped by it.            *)
EXTENDS Naturals, Sequences, FiniteSets

CONSTANTS
  User, Group, Coll, Peer,    \* what can be in a scope
  Item,                       \* books' entries, tags and rules
  Personal, None,             \* collection_id 0 and user_id 0
  Unused, Gone,               \* a row not yet created, or deleted
  AdminRequest,               \* each is handled once
  Serializable,               \* a transaction fails if what it read has changed
  Scopes, Named,              \* bounds: the scopes that are given, the rows forms name
  MaxEvents,                  \* bound: what happens besides the requests
  Stored                      \* the databases the server may start with

VARIABLES
  db,                         \* the row of every id
  grants,                     \* admin_resource_scopes: who may manage what
  op,                         \* what each handler is doing
  events,                     \* how much has happened besides
  reach                       \* history: what was at some moment since its request
                              \* came in within the scope of a handler's actor

scopeVars == <<db, grants, op, events, reach>>

Resource == User \cup Group \cup Coll \cup Peer
Role == {"user", "admin", "super"}
Book == Coll \cup {Personal}

Account == [role : Role, group : Group]
Owned == [owner : User \cup {None}]
ItemRow == [table : {"book", "tag", "rule"}, owner : User \cup {None}, coll : Book,
            to : User \cup Group \cup {None}]

\* Ids of different tables are different things.
ASSUME AdminScopesAssumption ==
  /\ User \cap (Group \cup Coll \cup Peer \cup Item) = {}
  /\ Group \cap (Coll \cup Peer \cup Item) = {}
  /\ Coll \cap (Peer \cup Item) = {} /\ Peer \cap Item = {}
  /\ {Personal, None} \cap (Resource \cup Item) = {}
  /\ Unused # Gone /\ {Unused, Gone, None} \cap (Account \cup Owned \cup ItemRow) = {}
  /\ Serializable \in BOOLEAN
  /\ Scopes \subseteq SUBSET Resource /\ Named \subseteq Resource /\ MaxEvents \in Nat

\* The rows there are of the table an id is of.
RowsOf(x) == CASE x \in User -> Account [] x \in Item -> ItemRow [] OTHER -> Owned

Tables(d) ==
  /\ d = [x \in Resource \cup Item |-> d[x]]
  /\ \A x \in Resource \cup Item : d[x] \in RowsOf(x) \cup {Unused, Gone}

\* A stored database is one that the server left: its grants are administrators'.
ASSUME GrantsAssumption ==
  \A s \in Stored :
    /\ Tables(s.db) /\ s.grants \subseteq User \X Resource
    /\ \A g \in s.grants :
         /\ s.db[g[1]] \in Account /\ s.db[g[1]].role = "admin"
         /\ s.db[g[2]] \notin {Unused, Gone}
         /\ g[2] \in User => s.db[g[2]].role = "user"

New == [pc |-> "new"]
Answered == [pc |-> "done"]

ScopesInit ==
  /\ \E s \in Stored : db = s.db /\ grants = s.grants
  /\ op = [r \in AdminRequest |-> New]
  /\ events = 0
  /\ reach = [r \in AdminRequest |-> {}]

-----------------------------------------------------------------------------
(* Scopes                                                                    *)

Exists(x) == db[x] \notin {Unused, Gone}

RoleOf(u) == IF Exists(u) THEN db[u].role ELSE "none"

\* CanManageUser: ordinary users only, by themselves or by their group.
ManagesUser(a, u) ==
  RoleOf(u) = "user" /\ \E x \in {u, db[u].group} : <<a, x>> \in grants

\* CanManagePeer: devices of such users too.
ManagesPeer(a, p) ==
  Exists(p) /\ (<<a, p>> \in grants \/ (db[p].owner \in User /\ ManagesUser(a, db[p].owner)))

\* CanManageGroup and CanManageCollection ask for the grant alone.
Manages(a, x) ==
  \/ x \in User /\ ManagesUser(a, x)
  \/ x \in Peer /\ ManagesPeer(a, x)
  \/ x \notin User \cup Peer /\ <<a, x>> \in grants

-----------------------------------------------------------------------------
(* Requests                                                                  *)

\* Routes with SuperAdminPrivilege.
SuperOnly(kind, x) ==
  \/ kind = "replace"
  \/ kind = "create" /\ x \in Group \cup Coll \cup Peer
  \/ kind = "delete" /\ x \in User \cup Group \cup Coll

\* put: the row the form asks for; named: the devices or the scope it names, if any.
Receive(r, a, kind, x, put, batch, named) ==
  /\ SuperOnly(kind, x) => RoleOf(a) = "super"
  /\ op' = [op EXCEPT ![r] =
       [pc |-> "find", kind |-> kind, actor |-> a, super |-> RoleOf(a) = "super", x |-> x,
        put |-> put, batch |-> batch, named |-> named, seen |-> None, checks |-> <<>>]]
  /\ UNCHANGED <<db, grants>>

AskUser(r, a) ==
  \E u \in User :
    \/ \E put \in {f \in Account : f.group \in Named} :
         \/ db[u] = Unused /\ Receive(r, a, "create", u, put, FALSE, {})
         \/ Receive(r, a, "edit", u, put, FALSE, {})
    \/ Receive(r, a, "touch", u, None, FALSE, {})
    \/ Receive(r, a, "delete", u, None, FALSE, {})
    \/ \E s \in Scopes : Receive(r, a, "replace", u, None, FALSE, s)

AskResource(r, a) ==
  \/ \E x \in Group \cup Peer :
       \/ db[x] = Unused /\ Receive(r, a, "create", x, [owner |-> None], FALSE, {})
       \/ Receive(r, a, "touch", x, None, FALSE, {})
       \/ Receive(r, a, "delete", x, None, FALSE, {})
  \/ \E c \in Coll :
       \/ \E u \in User \cap Named :
            \/ db[c] = Unused /\ Receive(r, a, "create", c, [owner |-> u], FALSE, {})
            \/ Receive(r, a, "edit", c, [owner |-> u], FALSE, {})
       \/ Receive(r, a, "delete", c, None, FALSE, {})
  \/ \E peers \in (SUBSET Peer) \ {{}} : Receive(r, a, "purge", None, None, TRUE, peers)

\* Only a super administrator's names an owner; another one would be replaced.
ItemForms ==
  [super \in BOOLEAN |-> [table \in {"book", "tag", "rule"} |->
    {f \in ItemRow : /\ f.table = table
                     /\ table = "rule" <=> f.to # None
                     /\ table = "rule" => f.coll \in Coll
                     /\ f.owner = None <=> ~super
                     /\ {f.owner, f.coll, f.to} \subseteq Named \cup {None, Personal}}]]

AskItem(r, a) ==
  \E i \in Item :
    \/ \E table \in {"book", "tag", "rule"} : \E f \in ItemForms[RoleOf(a) = "super"][table] :
         \/ /\ db[i] = Unused
            /\ \/ Receive(r, a, "create", i, f, FALSE, {})
               \/ /\ table = "book"
                  /\ \/ Receive(r, a, "create", i, f, TRUE, {})
                     \/ \E p \in Peer : Receive(r, a, "create", i, f, TRUE, {p})
         \/ /\ Exists(i) /\ db[i].table = table
            /\ Receive(r, a, "edit", i, f, FALSE, {})
    \/ Receive(r, a, "delete", i, None, FALSE, {})

\* BackendUserAuth and AdminPrivilege let it in.
Ask(r) ==
  /\ op[r] = New
  /\ \E a \in User :
       /\ RoleOf(a) \in {"admin", "super"}
       /\ AskUser(r, a) \/ AskResource(r, a) \/ AskItem(r, a)

-----------------------------------------------------------------------------
(* What a handler checks                                                     *)

\* A plausible bug: an item is moved to the collection of the form.
PutFromForm(o, seen) ==
  IF o.super \/ o.put = None THEN o.put
  ELSE IF o.x \in User THEN [o.put EXCEPT !.role = "user"]
  ELSE IF o.kind = "edit" /\ o.x \in Coll THEN seen
  ELSE IF o.kind = "edit" /\ o.x \in Item THEN [o.put EXCEPT !.owner = seen.owner]
  ELSE o.put

\* A scoped administrator makes ordinary users, and leaves rows where they were read.
Put(o, seen) ==
  IF o.super \/ o.put = None THEN o.put
  ELSE IF o.x \in User THEN [o.put EXCEPT !.role = "user"]
  ELSE IF o.kind = "edit" /\ o.x \in Coll THEN seen
  ELSE IF o.kind = "edit" /\ o.x \in Item
    THEN [o.put EXCEPT !.owner = seen.owner, !.coll = seen.coll]
  ELSE o.put

If(b, s) == IF b THEN s ELSE <<>>
Manage(x) == << <<"manage", x>> >>

UserChecks(o, seen) ==
  If(o.kind # "create", Manage(o.x))
    \o If(o.kind = "create" \/ (o.kind = "edit" /\ o.put.group # seen.group), Manage(o.put.group))

ItemChecks(o, seen) ==
  LET coll == IF o.kind = "create" THEN o.put.coll ELSE seen.coll
  IN  Manage(coll)
        \o If(o.kind = "create", << <<"owner", coll>> >>)
        \o If(o.put # None /\ o.put.table = "rule", Manage(o.put.to))

ScopeChecks(o, seen) ==
  IF o.super THEN <<>>
  ELSE IF o.x \in User THEN UserChecks(o, seen)
  ELSE IF o.x \in Item THEN ItemChecks(o, seen)
  ELSE If(o.kind # "purge", Manage(o.x))

\* What everybody's form is checked for.
FormChecks(o, put) ==
  If(o.named # {},
     If(o.x \in Item /\ put.coll # Personal, << <<"exists", put.coll>> >>)
       \o << <<"peers", o.named>> >>)
    \o If(o.x \in Item /\ o.put # None /\ o.put.table # "tag" /\ ~o.batch, << <<"confirm", o.x>> >>)

\* The row the request is about.  Entries of personal books are nobody's to change.
Find(r) ==
  LET o == op[r]
      seen == IF o.kind \in {"create", "purge"} THEN None ELSE db[o.x]
      put == Put(o, seen)
  IN  /\ o.pc = "find" /\ o.kind # "replace"
      /\ seen \notin {Unused, Gone}
      /\ o.x \in User /\ ~o.super /\ o.kind # "create" => seen.role = "user"
      /\ ~(o.x \in Item /\ o.kind # "create" /\ seen.table = "book" /\ seen.coll = Personal)
      /\ op' = [op EXCEPT ![r].pc = "check", ![r].seen = seen, ![r].put = put,
                          ![r].checks = ScopeChecks(o, seen) \o FormChecks(o, put)]
      /\ UNCHANGED <<db, grants>>

\* CheckCollectionOwner, and CheckForm for rules.
Confirmed(o) ==
  /\ o.put.coll # Personal => Exists(o.put.coll) /\ db[o.put.coll].owner = o.put.owner
  /\ o.put.table = "rule" =>
       /\ Exists(o.put.to) /\ o.put.to # o.put.owner
       /\ \A i \in Item \ {o.x} : Exists(i) =>
            ~(db[i].table = "rule" /\ db[i].to = o.put.to /\ db[i].coll = o.put.coll)

Passes(o, what, x) ==
  \/ what = "manage" /\ Manages(o.actor, x)
  \/ what \in {"owner", "exists"} /\ Exists(x)
  \/ what = "peers" /\ \A p \in x : IF o.super THEN Exists(p) ELSE Manages(o.actor, p)
  \/ what = "confirm" /\ Confirmed(o)

\* The next check; that of a collection's owner makes it the item's.
Check(r) ==
  LET o == op[r]
      next == Head(o.checks)
  IN  /\ o.pc = "check" /\ o.checks # <<>>
      /\ Passes(o, next[1], next[2])
      /\ op' = [op EXCEPT ![r].checks = Tail(o.checks),
                          ![r].put = IF next[1] = "owner" THEN [@ EXCEPT !.owner = db[next[2]].owner]
                                     ELSE @]
      /\ UNCHANGED <<db, grants>>

-----------------------------------------------------------------------------
(* What it does                                                              *)

Ready(r) == op[r].pc = "check" /\ op[r].checks = <<>>
Doing(r, kind) == Ready(r) /\ op[r].kind = kind
End(r) == op' = [op EXCEPT ![r] = Answered]

\* The transaction of a replacement holds the row of its administrator.
Locked(u) == \E r \in AdminRequest : op[r].pc \in {"validate", "commit"} /\ op[r].x = u

Removed(xs) == [x \in DOMAIN db |-> IF x \in xs THEN Gone ELSE db[x]]

\* A plausible bug: what is removed stays in scopes.
StillGranted(xs) == grants

\* RemoveResourceScopes
Ungranted(xs) == {g \in grants : g[2] \notin xs}

\* RemoveAdministratorScopes and RemoveResourceScopes
Stripped(u, xs) == {g \in Ungranted(xs \cup {u}) : g[1] # u}

Create(r) ==
  /\ Doing(r, "create")
  /\ db' = [db EXCEPT ![op[r].x] = op[r].put]
  /\ db[op[r].x] = Unused
  /\ End(r)
  /\ UNCHANGED grants

LastSuper(u) == RoleOf(u) = "super" /\ Cardinality({v \in User : RoleOf(v) = "super"}) <= 1

\* UpdateContext
EditUser(r) ==
  LET o == op[r] IN
  /\ Doing(r, "edit") /\ o.x \in User
  /\ Exists(o.x) /\ ~Locked(o.x)
  /\ ~(LastSuper(o.x) /\ o.put.role # "super")
  /\ db' = [db EXCEPT ![o.x] = o.put]
  /\ grants' = IF RoleOf(o.x) = o.put.role THEN grants ELSE Stripped(o.x, {})
  /\ End(r)

\* A row that has been deleted is not written.
Edit(r) ==
  /\ Doing(r, "edit") /\ op[r].x \notin User
  /\ db' = IF Exists(op[r].x) THEN [db EXCEPT ![op[r].x] = op[r].put] ELSE db
  /\ End(r)
  /\ UNCHANGED grants

\* A password, sessions, a group's or device's columns: no scope depends on them.
Touch(r) ==
  /\ Doing(r, "touch")
  /\ End(r)
  /\ UNCHANGED <<db, grants>>

ItemsOf(c) == {i \in Item : Exists(i) /\ db[i].coll = c}

\* DeleteContext, whose devices are let go after it.
DeleteUser(r) ==
  LET u == op[r].x
      own == {c \in Coll : Exists(c) /\ db[c].owner = u}
      items == {i \in Item : Exists(i) /\ u \in {db[i].owner, db[i].to}}
  IN  /\ Doing(r, "delete") /\ u \in User
      /\ Exists(u) /\ ~Locked(u) /\ ~LastSuper(u)
      /\ db' = Removed({u} \cup own \cup items)
      /\ grants' = Stripped(u, own)
      /\ op' = [op EXCEPT ![r].pc = "erase"]

EraseUserId(r) ==
  /\ op[r].pc = "erase"
  /\ db' = [x \in DOMAIN db |-> IF x \in Peer /\ Exists(x) /\ db[x].owner = op[r].x
                                THEN [owner |-> None] ELSE db[x]]
  /\ End(r)
  /\ UNCHANGED grants

RemoveCollection(c) ==
  /\ db' = Removed({c} \cup ItemsOf(c))
  /\ grants' = Ungranted({c})

\* Groups and devices go with the grants on them; an item takes none with it.
Delete(r) ==
  LET o == op[r] IN
  /\ Ready(r) /\ o.kind \in {"delete", "purge"} /\ o.x \notin User
  /\ IF o.x \in Coll THEN RemoveCollection(o.x)
     ELSE LET xs == IF o.kind = "purge" THEN o.named ELSE {o.x}
          IN  db' = Removed(xs) /\ grants' = Ungranted(xs)
  /\ End(r)

\* A check that fails, or the database.
Fail(r) ==
  /\ op[r].pc \notin {"new", "done"}
  /\ End(r)
  /\ UNCHANGED <<db, grants>>

-----------------------------------------------------------------------------
(* ReplaceScopesContext                                                      *)

Step(r, from, to) ==
  /\ op[r].pc = from /\ op[r].kind = "replace"
  /\ op' = [op EXCEPT ![r].pc = to]
  /\ UNCHANGED <<db, grants>>

FindTarget(r) ==
  /\ Step(r, "find", "lock")
  /\ RoleOf(op[r].actor) = "super"
  /\ RoleOf(op[r].x) = "admin"

\* A plausible bug: the role is not looked at again.
StillThere(u) == Exists(u)

StillScoped(u) == RoleOf(u) = "admin"

LockTarget(r) ==
  /\ Step(r, "lock", "validate")
  /\ ~Locked(op[r].x)
  /\ StillScoped(op[r].x)

Valid(scope) == \A x \in scope : IF x \in User THEN RoleOf(x) = "user" ELSE Exists(x)

ValidateScopeSet(r) ==
  /\ Step(r, "validate", "commit")
  /\ Valid(op[r].named)

Replace(r) ==
  /\ op[r].pc = "commit"
  /\ Serializable => Valid(op[r].named)
  /\ grants' = {g \in grants : g[1] # op[r].x} \cup {<<op[r].x, x>> : x \in op[r].named}
  /\ End(r)
  /\ UNCHANGED db

-----------------------------------------------------------------------------
(* What happens besides                                                      *)

\* The local recovery of an administrator.
Recover(u) ==
  /\ Exists(u) /\ ~Locked(u)
  /\ db' = [db EXCEPT ![u].role = "super"]
  /\ grants' = Stripped(u, {})
  /\ UNCHANGED op

\* A sign-in on a device, or a sign-out.
BindPeer(p, u) ==
  /\ Exists(p) /\ (u # None => Exists(u))
  /\ db' = [db EXCEPT ![p].owner = u]
  /\ UNCHANGED <<grants, op>>

DeleteOwnCollection(c) ==
  /\ Exists(c) /\ RoleOf(db[c].owner) # "none"
  /\ RemoveCollection(c)
  /\ UNCHANGED op

-----------------------------------------------------------------------------
Handle(r) ==
  \/ Ask(r) \/ Find(r) \/ Check(r)
  \/ Create(r) \/ EditUser(r) \/ Edit(r) \/ Touch(r)
  \/ DeleteUser(r) \/ EraseUserId(r) \/ Delete(r) \/ Fail(r)
  \/ FindTarget(r) \/ LockTarget(r) \/ ValidateScopeSet(r) \/ Replace(r)

Happen ==
  /\ events < MaxEvents
  /\ events' = events + 1
  /\ \/ \E u \in User : Recover(u)
     \/ \E p \in Peer, u \in User \cup {None} : BindPeer(p, u)
     \/ \E c \in Coll : DeleteOwnCollection(c)

Busy(r) == op[r].pc \notin {"new", "done"}

Within(r) == IF op[r].super THEN {} ELSE {x \in Resource : Manages(op[r].actor, x)}

Remember ==
  reach' = [r \in AdminRequest |-> IF Busy(r)' THEN reach[r] \cup Within(r)' ELSE {}]

ScopesNext ==
  /\ \/ \E r \in AdminRequest : Handle(r) /\ UNCHANGED events
     \/ Happen
  /\ Remember

ScopesSpec == ScopesInit /\ [][ScopesNext]_scopeVars

-----------------------------------------------------------------------------
ScopesTyped ==
  /\ Tables(db)
  /\ grants \subseteq User \X Resource
  /\ reach \in [AdminRequest -> SUBSET Resource]

(* Only scoped administrators hold grants: one who is demoted, promoted or   *)
(* deleted keeps none, and a replacement that found its target a scoped      *)
(* administrator before that gives none back (adminScope.go:132-138,         *)
(* user.go:608-613).                                                         *)
GrantHolders == \A g \in grants : RoleOf(g[1]) = "admin"

(* "AdminResourceScope assigns one concrete resource to one scoped           *)
(* administrator.  Resource-specific existence and role constraints are      *)
(* validated transactionally" (model/adminResourceScope.go:16): what is in a *)
(* scope exists, and of accounts only ordinary users are.                    *)
GrantsConcrete == Valid({g[2] : g \in grants})

Rule(o) == o.x \in Item /\ o.put # None /\ o.put.table = "rule"

Placed(o) ==
  CASE o.x \in User /\ o.put # None -> {o.put.group} \ (IF o.kind = "edit" THEN {o.seen.group} ELSE {})
    [] o.x \in Item /\ o.put # None -> {o.put.coll} \cup (IF Rule(o) THEN {o.put.to} ELSE {})
    [] OTHER -> {}

Touched(o) ==
  IF o.kind \in {"create", "purge"} THEN {} ELSE IF o.x \in Item THEN {o.seen.coll} ELSE {o.x}

(* What the handler of a scoped administrator is about to write or delete,   *)
(* the place it puts it in, whom it shares it with and the devices it names  *)
(* have been within the administrator's scope since the request came in: a   *)
(* stale row, a scope that is withdrawn and a user who moves or is promoted  *)
(* between two checks never add up to a write that was at no time allowed.   *)
(* And the accounts it writes are ordinary users.                            *)
ActsWithinScope ==
  \A r \in AdminRequest : Ready(r) /\ ~op[r].super =>
    LET o == op[r] IN
    /\ Touched(o) \cup Placed(o) \cup o.named \subseteq reach[r]
    /\ o.x \in User /\ o.put # None => o.put.role = "user"

-----------------------------------------------------------------------------
(* What is true of every request that has been received and not answered.   *)

Question ==
  ({"manage", "owner", "exists", "confirm"} \X (Resource \cup Item \cup {Personal, None}))
    \cup ({"peers"} \X SUBSET Resource)

Pending ==
  [pc : {"find", "check", "erase", "lock", "validate", "commit"},
   kind : {"create", "edit", "touch", "delete", "purge", "replace"},
   actor : User, super : BOOLEAN, x : Resource \cup Item \cup {None},
   put : Account \cup Owned \cup ItemRow \cup {None},
   batch : BOOLEAN, named : SUBSET Resource, seen : Account \cup Owned \cup ItemRow \cup {None},
   checks : Seq(Question)]

\* What its kind says of a request.
AskFits(o) ==
  /\ o.kind \in {"create", "edit"} => o.x \in Resource \cup Item /\ o.put \in RowsOf(o.x)
  /\ o.kind = "edit" => o.x \in User \cup Coll \cup Item
  /\ o.kind \in {"touch", "delete"} => o.x \in Resource \cup Item /\ o.put = None
  /\ o.kind = "purge" => o.x = None /\ o.put = None /\ o.named \subseteq Peer
  /\ o.kind = "replace" => o.x \in User /\ o.put = None
  /\ o.kind \in {"edit", "touch", "delete"} => o.named = {}
  /\ o.pc \in {"lock", "validate", "commit"} => o.kind = "replace"
  /\ o.pc = "check" => o.kind # "replace"
  /\ o.pc = "erase" => o.x \in User

RequestsFit ==
  /\ op \in [AdminRequest -> Pending \cup {New, Answered}]
  /\ \A r \in AdminRequest : Busy(r) => AskFits(op[r])

\* The target of a replacement keeps its role while its row is held.
TargetsHeld ==
  \A r \in AdminRequest : op[r].pc \in {"validate", "commit"} => RoleOf(op[r].x) = "admin"

\* The owner of the personal books is asked for only after what nobody manages.
OwnersAfter(checks) ==
  \A i \in 1..Len(checks) : checks[i][1] = "owner" =>
    checks[i][2] \in Coll \/ (i > 1 /\ checks[i - 1] = <<"manage", Personal>>)

Outstanding(checks, x) ==
  \E i \in 1..Len(checks) :
    \/ checks[i] = <<"manage", x>>
    \/ checks[i][1] = "peers" /\ x \in checks[i][2]

\* What a scoped administrator's request is about has been asked for, or will be.
Asking(r) ==
  op[r].pc = "check" =>
    LET o == op[r] IN
    /\ OwnersAfter(o.checks)
    /\ (\E i \in 1..Len(o.checks) : o.checks[i][1] = "owner") => o.kind = "create" /\ o.x \in Item
    /\ ~o.super =>
         /\ \A x \in Touched(o) \cup Placed(o) \cup o.named : x \in reach[r] \/ Outstanding(o.checks, x)
         /\ o.x \in User /\ o.put # None => o.put.role = "user"

(* Together they are inductive.                                              *)
ScopesInv ==
  /\ ScopesTyped /\ RequestsFit /\ TargetsHeld /\ GrantHolders
  /\ \A r \in AdminRequest : Asking(r)
  /\ Serializable => GrantsConcrete
=============================================================================
