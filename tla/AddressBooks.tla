----------------------------- MODULE AddressBooks -----------------------------
(* Address books (service/addressBook.go, service/tag.go, the handlers of    *)
(* http/controller/api/ab.go and of http/controller/admin/my): the personal  *)
(* book a client replaces as a whole, the collections its owner shares by    *)
(* rules, and the inventory that devices report into every book.             *)
(*                                                                           *)
(* An entry and a tag are both rows of a book, with a device id or a name as *)
(* key.  A handler reads what it checks and writes by primary key, each      *)
(* statement by itself; replacing the personal book and storing a report are *)
(* transactions, which take no locks.  Users are in one group, so that of a  *)
(* guid always matches; what the rows say besides their key and inventory is *)
(* left out.                                                                 *)
EXTENDS Naturals, FiniteSets

CONSTANTS
  User, Everyone,             \* accounts, and the group they are in
  Coll, Personal,             \* collections, and collection_id 0
  Device, Tag,                \* the keys of rows
  Request,                    \* each is handled once
  Unused, Gone,               \* a collection that is not created yet, or deleted
  Serializable,               \* a transaction fails if what it read has changed
  Blank,                      \* the reports that say nothing of the device's user,
                              \* name and platform
  Stored,                     \* the databases the server may start with
  MaxRow, MaxRule, MaxReport  \* bounds: rows and rules created, reports of a device

VARIABLES
  users,                      \* the accounts that exist
  coll,                       \* address_book_collections: the owner of each
  rules,                      \* address_book_collection_rules
  rows,                       \* address_books and tags
  made,                       \* rows and rules created so far, as ids are not reused
  inventory,                  \* how many verified reports each peer row has had
  task,                         \* what each handler is doing
  lived, reach                \* history, since each request came in: whether its book
                              \* was the guid's user's, and the most its own user was
                              \* entitled to there

books == <<users, coll, rules, rows, made, inventory, task, lived, reach>>

Key == Device \cup Tag
Book == Coll \cup {Personal}

ASSUME BooksAssumption ==
  /\ Everyone \notin User /\ Personal \notin Coll /\ Device \cap Tag = {}
  /\ Unused \notin User /\ Gone \notin User /\ Unused # Gone
  /\ Serializable \in BOOLEAN
  /\ Blank \subseteq 1..MaxReport
  /\ MaxRow \in Nat /\ MaxRule \in Nat /\ MaxReport \in Nat

-----------------------------------------------------------------------------
Rule == [id : 1..MaxRule, owner : User, coll : Coll, to : User \cup {Everyone}, level : 1..3]

\* source: whether a sync or a report wrote the device's data last, or another
\* handler, from a form or from a peer row it had read; inv: the report's number.
BookRow == [id : 1..MaxRow, user : User, coll : Book, key : Key,
        inv : 0..MaxReport, source : {"server", "client"}]

Kind == {"list", "add", "change", "delete", "create", "edit", "share", "reshare", "sync"}

\* What each handler asks for: to read, to write, or full control.
Needed == [k \in Kind |-> CASE k = "list" -> 1
                            [] k \in {"add", "change"} -> 2
                            [] OTHER -> 3]

\* owner and coll are those of the guid; keys: the rows named; form: the rule or
\* the key to write; seen, inv: what was read.
Form(pc, k, u, owner, c, keys, f) ==
  [pc |-> pc, kind |-> k, user |-> u, owner |-> owner, coll |-> c, keys |-> keys,
   form |-> f, seen |-> {}, inv |-> [d \in Device |-> 0]]

New == [pc |-> "new"]
Done == [pc |-> "done"]

\* Rows of a stored database have ids of their own and are in collections of their
\* users'; no report has been counted.
ASSUME StoredAssumption ==
  \A s \in Stored :
    /\ s.coll \in [Coll -> User \cup {Unused, Gone}]
    /\ s.rules \subseteq Rule /\ Cardinality(s.rules) \in 0..MaxRule
    /\ s.rows \subseteq BookRow /\ Cardinality(s.rows) \in 0..MaxRow
    /\ \A x \in s.rows :
         /\ x.id <= Cardinality(s.rows)
         /\ \A y \in s.rows : x.id = y.id => x = y
         /\ x.coll \in Coll => s.coll[x.coll] \in {x.user, Gone}
         /\ x.inv = 0

BooksInit ==
  /\ users = User
  /\ \E s \in Stored :
       /\ coll = s.coll /\ rules = s.rules /\ rows = s.rows
       /\ made = [row |-> Cardinality(s.rows), rule |-> Cardinality(s.rules)]
  /\ inventory = [d \in Device |-> 0]
  /\ task = [r \in Request |-> New]
  /\ lived = [r \in Request |-> FALSE]
  /\ reach = [r \in Request |-> 0]

-----------------------------------------------------------------------------
\* The query's First: of several rows, the oldest.
Oldest(S) == CHOOSE x \in S : \A y \in S : x.id <= y.id

MaxOf(i, j) == IF i >= j THEN i ELSE j

LevelTo(t, c) ==
  LET given == {x \in rules : x.coll = c /\ x.to = t}
  IN  IF given = {} THEN 0 ELSE Oldest(given).level

\* The guid's user is taken for the owner of its collection.
UserMaxRule(u, owner, c) ==
  IF u = owner THEN 3 ELSE MaxOf(LevelTo(u, c), LevelTo(Everyone, c))

\* What the user is entitled to, whatever the guid says.
Entitled(u, owner, c) ==
  IF (IF c = Personal THEN owner ELSE coll[c]) = u THEN 3
  ELSE MaxOf(LevelTo(u, c), LevelTo(Everyone, c))

In(owner, c) == {x \in rows : x.user = owner /\ x.coll = c}
Named(owner, c, k) == {x \in In(owner, c) : x.key = k}

NewRow(i, owner, c, k, source, inv) ==
  [id |-> i, user |-> owner, coll |-> c, key |-> k, inv |-> inv, source |-> source]

\* A client's row, with the next id.
Insert(owner, c, k) ==
  /\ made.row < MaxRow
  /\ rows' = rows \cup {NewRow(made.row + 1, owner, c, k, "client", 0)}
  /\ made' = [made EXCEPT !.row = @ + 1]

SetPc(r, pc) == task' = [task EXCEPT ![r].pc = pc]
End(r) == task' = [task EXCEPT ![r] = Done]

-----------------------------------------------------------------------------
(* The requests a client or the console makes                               *)

Begin(r, form) ==
  /\ task[r] = New
  /\ form.user \in users
  /\ task' = [task EXCEPT ![r] = form]
  /\ UNCHANGED <<users, coll, rules, rows, made, inventory>>

\* Peers, PTags; PeerAdd, TagAdd; PeerUpdate, TagUpdate, TagRename; PeerDel, TagDel
Call(r) ==
  \E u \in users, owner \in User, c \in Book :
    \/ Begin(r, Form("guid", "list", u, owner, c, {}, Personal))
    \/ \E k \in Key : Begin(r, Form("guid", "add", u, owner, c, {k}, k))
    \/ \E k \in Key, to \in Key :
         /\ to = k \/ {k, to} \subseteq Tag
         /\ Begin(r, Form("guid", "change", u, owner, c, {k}, to))
    \/ \E keys \in ((SUBSET Device) \cup (SUBSET Tag)) \ {{}} :
         Begin(r, Form("guid", "delete", u, owner, c, keys, Personal))

\* The console's pages of one's own books, entries, tags and rules.
ConsoleCall(r) ==
  \E u \in users, c \in Book :
    \/ \E k \in Key : Begin(r, Form("owner", "create", u, u, c, {k}, k))
    \/ \E k \in Key : Begin(r, Form("owner", "edit", u, u, c, {k}, k))
    \/ \E to \in (User \ {u}) \cup {Everyone}, level \in 1..3, kind \in {"share", "reshare"} :
         /\ c \in Coll
         /\ Begin(r, Form("owner", kind, u, u, c, {}, [to |-> to, level |-> level]))

\* UpAb: the whole personal book, entries and tags.
SyncCall(r) ==
  \E u \in users, keys \in SUBSET Key :
    Begin(r, Form("read", "sync", u, u, Personal, keys, Personal))

-----------------------------------------------------------------------------
\* A plausible bug: a collection that exists is the guid's user's.
GuidFitsAny(o) ==
  IF o.coll = Personal THEN o.user = o.owner
  ELSE (o.owner = o.user \/ o.owner \in users) /\ coll[o.coll] \in User

\* CheckGuid, whose last read is that of the collection.
GuidFits(o) ==
  IF o.coll = Personal THEN o.user = o.owner
  ELSE (o.owner = o.user \/ o.owner \in users) /\ coll[o.coll] = o.owner

CheckGuid(r) ==
  /\ task[r].pc = "guid"
  /\ GuidFits(task[r])
  /\ SetPc(r, "rule")
  /\ UNCHANGED <<users, coll, rules, rows, made, inventory>>

\* A plausible bug: who may write may delete.
AsksForWriting(kind) == IF kind = "list" THEN 1 ELSE 2

AsksFor(kind) == Needed[kind]

\* CheckUser{Read,Write,FullControl}Privilege.  Listing and adding an entry look
\* no row up before.
CheckRule(r) ==
  /\ task[r].pc = "rule"
  /\ UserMaxRule(task[r].user, task[r].owner, task[r].coll) >= AsksFor(task[r].kind)
  /\ SetPc(r, IF task[r].kind = "list" \/ (task[r].kind = "add" /\ task[r].form \in Device)
              THEN "act" ELSE "find")
  /\ UNCHANGED <<users, coll, rules, rows, made, inventory>>

\* CheckCollectionOwner; a row to edit is one of the user's.
CheckOwner(r) ==
  /\ task[r].pc = "owner"
  /\ task[r].coll # Personal => coll[task[r].coll] = task[r].user
  /\ \/ /\ task[r].kind # "edit"
        /\ SetPc(r, "find")
     \/ /\ task[r].kind = "edit"
        /\ \E x \in rows :
             /\ x.user = task[r].user
             /\ task[r].form \in Tag <=> x.key \in Tag
             /\ task' = [task EXCEPT ![r].pc = "act", ![r].seen = {x}]
  /\ UNCHANGED <<users, coll, rules, rows, made, inventory>>

\* ItemExists: adding a tag, and creating either from the console.
FindNone(r) ==
  /\ task[r].pc = "find" /\ task[r].kind \in {"add", "create"}
  /\ \/ Named(task[r].owner, task[r].coll, task[r].form) = {}
     \/ task[r].kind = "create" /\ task[r].form \in Tag
  /\ SetPc(r, "act")
  /\ UNCHANGED <<users, coll, rules, rows, made, inventory>>

\* The row to update, rename or delete; a new name must be free.
FindRow(r) ==
  /\ task[r].pc = "find" /\ task[r].kind \in {"change", "delete"}
  /\ \E k \in task[r].keys :
       LET found == Named(task[r].owner, task[r].coll, k)
       IN  /\ found # {}
           /\ task[r].kind = "change" /\ task[r].form # k =>
                Named(task[r].owner, task[r].coll, task[r].form) = {}
           /\ task' = [task EXCEPT ![r].pc = "act", ![r].seen = {Oldest(found)},
                                   ![r].keys = @ \ {k}]
  /\ UNCHANGED <<users, coll, rules, rows, made, inventory>>

\* CheckForm: the one it is shared with exists, and has no other rule.
CheckForm(r) ==
  /\ task[r].pc = "find" /\ task[r].kind \in {"share", "reshare"}
  /\ task[r].form.to \in users \cup {Everyone}
  /\ LET given == {x \in rules : x.coll = task[r].coll /\ x.to = task[r].form.to}
     IN  \/ /\ task[r].kind = "share" /\ given = {}
            /\ SetPc(r, "act")
         \/ /\ task[r].kind = "reshare"
            /\ \E x \in rules :
                 /\ x.owner = task[r].user
                 /\ given # {} => Oldest(given) = x
                 /\ task' = [task EXCEPT ![r].pc = "act", ![r].seen = {x}]
  /\ UNCHANGED <<users, coll, rules, rows, made, inventory>>

-----------------------------------------------------------------------------
(* What they do                                                             *)

List(r) ==
  /\ task[r].pc = "act" /\ task[r].kind = "list"
  /\ End(r)
  /\ UNCHANGED <<users, coll, rules, rows, made, inventory>>

Add(r) ==
  /\ task[r].pc = "act" /\ task[r].kind \in {"add", "create"}
  /\ Insert(task[r].owner, task[r].coll, task[r].form)
  /\ End(r)
  /\ UNCHANGED <<users, coll, rules, inventory>>

\* PeerUpdate writes columns that are left out here; the others write all of them,
\* as read or from the form.  A row that has been deleted is not written.
Change(r) ==
  /\ task[r].pc = "act" /\ task[r].kind \in {"change", "edit"}
  /\ rows' = {IF x.id \notin {y.id : y \in task[r].seen} THEN x
              ELSE IF task[r].kind = "edit"
                THEN NewRow(x.id, x.user, task[r].coll, task[r].form, "client", 0)
              ELSE IF task[r].form \in Device THEN x
              ELSE [x EXCEPT !.coll = task[r].coll, !.key = task[r].form] : x \in rows}
  /\ End(r)
  /\ UNCHANGED <<users, coll, rules, made, inventory>>

\* One of the rows named; the others are looked for next.
Delete(r) ==
  /\ task[r].pc = "act" /\ task[r].kind = "delete"
  /\ rows' = {x \in rows : x.id \notin {y.id : y \in task[r].seen}}
  /\ task' = [task EXCEPT ![r] = IF @.keys = {} THEN Done
                                  ELSE [@ EXCEPT !.pc = "find", !.seen = {}]]
  /\ UNCHANGED <<users, coll, rules, made, inventory>>

CreateRule(r) ==
  /\ task[r].pc = "act" /\ task[r].kind = "share"
  /\ made.rule < MaxRule
  /\ rules' = rules \cup {[id |-> made.rule + 1, owner |-> task[r].user, coll |-> task[r].coll,
                           to |-> task[r].form.to, level |-> task[r].form.level]}
  /\ made' = [made EXCEPT !.rule = @ + 1]
  /\ End(r)
  /\ UNCHANGED <<users, coll, rows, inventory>>

UpdateRule(r) ==
  /\ task[r].pc = "act" /\ task[r].kind = "reshare"
  /\ rules' = {IF x.id \notin {y.id : y \in task[r].seen} THEN x
               ELSE [id |-> x.id, owner |-> x.owner, coll |-> task[r].coll,
                     to |-> task[r].form.to, level |-> task[r].form.level] : x \in rules}
  /\ End(r)
  /\ UNCHANGED <<users, coll, rows, made, inventory>>

\* A check that fails, or the database: what has been written stays.
GiveUp(r) ==
  /\ task[r].pc \notin {"new", "done"}
  /\ End(r)
  /\ UNCHANGED <<users, coll, rules, rows, made, inventory>>

-----------------------------------------------------------------------------
(* Replacing the personal book                                              *)

\* A plausible bug: the user's rows in collections are taken for the personal book too.
OwnRows(u) == {x \in rows : x.user = u}

PersonalRows(u) == In(u, Personal)

SyncRead(r) ==
  /\ task[r].pc = "read"
  /\ task' = [task EXCEPT ![r].pc = "write", ![r].seen = PersonalRows(task[r].user),
                          ![r].inv = inventory]
  /\ UNCHANGED <<users, coll, rules, rows, made, inventory>>

\* A plausible bug: a row that is there is given the client's copy.
UpdatedFromForm(x, known) == [x EXCEPT !.inv = 0, !.source = "server"]

Verified(k, known) == IF k \in Device THEN known[k] ELSE 0

\* enrichVerifiedPeerMetadata, and an update that skips the columns without a value.
Updated(x, known) ==
  IF Verified(x.key, known) \in Blank THEN x
  ELSE [x EXCEPT !.inv = Verified(x.key, known), !.source = "server"]

\* The diff is by key.  Of several entries with the same one it knows one, which it
\* updates, or deletes if the client has it no more, and leaves the others; of
\* several tags it keeps one at most.
SyncedRows(o, one, new) ==
  LET chosen == {one[k].id : k \in DOMAIN one}
      known == chosen \cup {x.id : x \in {y \in o.seen : y.key \in Tag}}
  IN  {x \in rows : x.id \notin known}
        \cup {Updated(x, o.inv) : x \in {y \in rows : y.id \in chosen /\ y.key \in o.keys}}
        \cup {NewRow(new[k], o.user, Personal, k, "server", Verified(k, o.inv)) :
                k \in DOMAIN new}

\* The entry known of each key, and the ids of the new rows, without gaps.
Choices(o) == {one \in [{x.key : x \in o.seen} -> o.seen] :
                 \A k \in DOMAIN one : one[k].key = k}

Numberings(missing, last) ==
  {new \in [missing -> made.row + 1..last] :
     /\ \A k, l \in missing : new[k] = new[l] => k = l
     /\ \A i \in made.row + 1..last : \E k \in missing : new[k] = i}

SyncCommit(r) ==
  LET o == task[r]
      missing == o.keys \ {x.key : x \in o.seen}
  IN  /\ o.pc = "write"
      /\ Serializable => /\ o.seen = PersonalRows(o.user)
                         /\ \A d \in Device \cap o.keys : o.inv[d] = inventory[d]
      /\ \E last \in made.row..MaxRow : \E one \in Choices(o), new \in Numberings(missing, last) :
           /\ rows' = SyncedRows(o, one, new)
           /\ made' = [made EXCEPT !.row = last]
      /\ End(r)
      /\ UNCHANGED <<users, coll, rules, inventory>>

-----------------------------------------------------------------------------
(* What happens besides                                                     *)

\* StoreSysinfo: every row of the device, in whichever book.
StoreSysinfo(d) ==
  /\ inventory[d] < MaxReport
  /\ inventory' = [inventory EXCEPT ![d] = @ + 1]
  /\ rows' = {IF x.key # d THEN x
              ELSE [x EXCEPT !.inv = inventory[d] + 1, !.source = "server"] : x \in rows}
  /\ UNCHANGED <<users, coll, rules, made, task>>

CreateCollection(u, c) ==
  /\ u \in users
  /\ coll[c] = Unused
  /\ coll' = [coll EXCEPT ![c] = u]
  /\ UNCHANGED <<users, rules, rows, made, inventory, task>>

\* By its owner, as DeleteRow and DeleteRule are.
DeleteCollection(c) ==
  /\ coll[c] \in users
  /\ coll' = [coll EXCEPT ![c] = Gone]
  /\ rules' = {x \in rules : x.coll # c}
  /\ rows' = {x \in rows : x.coll # c}
  /\ UNCHANGED <<users, made, inventory, task>>

\* The console deletes one row at a time.
DeleteRow(x) ==
  /\ x.user \in users
  /\ rows' = rows \ {x}
  /\ UNCHANGED <<users, coll, rules, made, inventory, task>>

DeleteRule(x) ==
  /\ x.owner \in users
  /\ rules' = rules \ {x}
  /\ UNCHANGED <<users, coll, rows, made, inventory, task>>

DeleteUser(u) ==
  /\ u \in users
  /\ users' = users \ {u}
  /\ rows' = {x \in rows : x.user # u}
  /\ rules' = {x \in rules : x.owner # u /\ x.to # u}
  /\ coll' = [c \in Coll |-> IF coll[c] = u THEN Gone ELSE coll[c]]
  /\ UNCHANGED <<made, inventory, task>>

-----------------------------------------------------------------------------
Check(r) ==
  \/ CheckGuid(r) \/ CheckRule(r) \/ CheckOwner(r)
  \/ FindNone(r) \/ FindRow(r) \/ CheckForm(r)

Act(r) ==
  \/ List(r) \/ Add(r) \/ Change(r) \/ Delete(r)
  \/ CreateRule(r) \/ UpdateRule(r)
  \/ SyncRead(r) \/ SyncCommit(r) \/ GiveUp(r)

Handle(r) == Call(r) \/ ConsoleCall(r) \/ SyncCall(r) \/ Check(r) \/ Act(r)

Happen ==
  \/ \E d \in Device : StoreSysinfo(d)
  \/ \E u \in User, c \in Coll : CreateCollection(u, c)
  \/ \E c \in Coll : DeleteCollection(c)
  \/ \E x \in rows : DeleteRow(x)
  \/ \E x \in rules : DeleteRule(x)
  \/ \E u \in User : DeleteUser(u)

Busy(r) == task[r].pc \notin {"new", "done"}

Lives(o) == o.coll = Personal \/ coll[o.coll] = o.owner

Remember ==
  /\ lived' = [r \in Request |-> Busy(r)' /\ (lived[r] \/ Lives(task[r])')]
  /\ reach' = [r \in Request |-> IF ~Busy(r)' THEN 0
                  ELSE MaxOf(reach[r], Entitled(task[r].user, task[r].owner, task[r].coll)')]

BooksNext == ((\E r \in Request : Handle(r)) \/ Happen) /\ Remember

BooksSpec == BooksInit /\ [][BooksNext]_books

-----------------------------------------------------------------------------
BooksTyped ==
  /\ users \subseteq User
  /\ coll \in [Coll -> User \cup {Unused, Gone}]
  /\ rules \subseteq Rule /\ rows \subseteq BookRow
  /\ made \in [row : 0..MaxRow, rule : 0..MaxRule]
  /\ inventory \in [Device -> 0..MaxReport]
  /\ lived \in [Request -> BOOLEAN] /\ reach \in [Request -> 0..3]

(* A handler lists, adds, changes or deletes in a book only if, since its    *)
(* request came in, the book was at some moment the one of the account the   *)
(* guid names, and at some moment the user was entitled to that there, as    *)
(* the owner of the collection itself or by a rule for the user or the       *)
(* group.  The collection may be deleted, the rule withdrawn or lowered, and *)
(* the owner deleted between the checks and what follows them; and the two   *)
(* moments may differ, as a rule that is made while its collection is        *)
(* deleted stays behind.                                                     *)
ActsWerePermitted ==
  \A r \in Request : task[r].pc = "act" =>
    lived[r] /\ reach[r] >= Needed[task[r].kind]

(* A row is in a collection of its own user's, if it still exists: a guid    *)
(* never joins one account's rows with another one's collection, whoever     *)
(* wrote them, and deleting either account leaves no row to the other.       *)
RowsBelong == \A x \in rows : x.coll \in Coll => coll[x.coll] \in {x.user, Gone}

(* What a sync or a report wrote last of a device's data is its latest       *)
(* verified inventory: neither an older copy the client kept nor one read    *)
(* before a report replaced it comes back.                                   *)
InventoryNeverDriftsBack ==
  \A x \in rows : x.key \in Device /\ x.source = "server" => x.inv = inventory[x.key]

Replaces(r) == task[r].pc = "write" /\ rows' # rows /\ task'[r] = Done

BookAfter(r) == {x.key : x \in {y \in rows' : y.user = task[r].user /\ y.coll = Personal}}

(* Replacing the personal book adds everything the client sent and touches   *)
(* no row of a collection or of another user.                                *)
SyncConfined ==
  [][\A r \in Request : Replaces(r) =>
       /\ task[r].keys \subseteq BookAfter(r)
       /\ \A x \in rows \ rows' : x.user = task[r].user /\ x.coll = Personal]_books

(* "如果数据库中的数据在peers中不存在，则删除" (addressBook.go:73): what the     *)
(* client does not have any more is deleted.                                 *)
SyncReplacesBook ==
  [][\A r \in Request : Replaces(r) => BookAfter(r) = task[r].keys]_books

-----------------------------------------------------------------------------
(* What is true of every request that has been received and not answered.   *)

Asked ==
  [pc : {"guid", "rule", "owner", "find", "act", "read", "write"},
   kind : Kind, user : User, owner : User, coll : Book, keys : SUBSET Key,
   form : Key \cup {Personal} \cup [to : User \cup {Everyone}, level : 1..3],
   seen : SUBSET (BookRow \cup Rule), inv : [Device -> 0..MaxReport]]

\* What its kind says of a request.
AskFits(o) ==
  /\ o.kind \in {"add", "change", "create", "edit"} => o.form \in Key
  /\ o.kind \in {"share", "reshare"} =>
       o.coll \in Coll /\ o.form \in [to : User \cup {Everyone}, level : 1..3]
  /\ o.kind \in {"create", "edit", "share", "reshare", "sync"} => o.user = o.owner
  /\ o.kind = "sync" => o.coll = Personal
  /\ o.pc \in {"read", "write"} => o.kind = "sync"
  /\ o.pc \in {"guid", "rule"} => o.kind \in {"list", "add", "change", "delete"}
  /\ o.pc = "owner" => o.kind \in {"create", "edit", "share", "reshare"}

\* A row that a request has read is the user's of its book, and keeps its id for good.
SeenFits(o) ==
  o.kind # "reshare" =>
    \A x \in o.seen :
      x \in BookRow /\ x.id <= made.row /\ \A y \in rows : y.id = x.id => y.user = o.owner

RequestsFit ==
  /\ task \in [Request -> Asked \cup {New, Done}]
  /\ \A r \in Request : Busy(r) => AskFits(task[r]) /\ SeenFits(task[r])

IdsApart ==
  \A x \in rows : x.id <= made.row /\ \A y \in rows : x.id = y.id => x = y

\* A collection that was once the guid's user's is nobody else's later.
LivedFits ==
  \A r \in Request : lived[r] =>
    /\ Busy(r)
    /\ task[r].coll \in Coll => coll[task[r].coll] \in {task[r].owner, Gone}

\* A check leaves behind what it found.
Passed(r) ==
  /\ task[r].pc = "rule" => lived[r] /\ (task[r].user = task[r].owner => reach[r] = 3)
  /\ task[r].pc \in {"find", "act"} => lived[r] /\ reach[r] >= Needed[task[r].kind]

(* Together they are inductive.                                              *)
BooksInv ==
  /\ BooksTyped /\ RequestsFit /\ IdsApart /\ LivedFits /\ RowsBelong
  /\ \A r \in Request : Passed(r)
  /\ Serializable => InventoryNeverDriftsBack
=============================================================================
