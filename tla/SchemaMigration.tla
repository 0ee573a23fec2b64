-------------------------- MODULE SchemaMigration --------------------------
(***************************************************************************)
(* The database schema: cmd/apimain.go, internal/database/schema.go and    *)
(* the migration lock of cmd/cli_database.go.  A server migrates the       *)
(* database it is pointed at before it serves; the command `database       *)
(* migrate` does the same and exits.  Several of them may start at once,   *)
(* each may fail or be killed between any two statements, and the next     *)
(* attempt starts over on what the last one left.  Only the last step      *)
(* records the version.                                                    *)
(*                                                                         *)
(* A row is identified by its position, which it keeps when another row is *)
(* deleted; the sessions' positions also stand for the order they were     *)
(* issued in.  0 is no user, "" an empty column.                           *)
(***************************************************************************)
EXTENDS Naturals, Sequences, SequencesExt, FiniteSets

CONSTANTS Server,       \* the processes that serve once the schema is current
          Tool,         \* the processes of `database migrate`
          None,         \* no process
          Stored,       \* the databases a process may be pointed at
          Target,       \* buildinfo.DatabaseSchema
          MaxFaults     \* bound: failures, kills, restarts and lost unlocks

ASSUME TargetAssumption == Target \in Nat /\ Target >= 312 /\ None \notin Server \cup Tool

VARIABLES db,           \* the stored database
          proc,         \* what each process is doing
          lock,         \* the process that holds the migration lock, or None
          timed,        \* MySQL and PostgreSQL wait 60 s for it, SQLite for ever
          faults,       \* faults so far
          first         \* history: the database before anyone touched it

schemaVars == <<db, proc, lock, timed, faults, first>>

Process == Server \cup Tool

(* A plausible bug: devices are bound before the generations of sessions are set. *)
OrderBindsFirst ==
    <<"identities", "validate", "versions", "tables", "emails", "issuer",
      "settings", "branding", "themes", "unified", "inventory", "sessions", "bind",
      "users", "tokens", "promote", "demote", "normalize", "mirror", "clear",
      "hash", "record">>

(* The steps of migrateUsingGlobals in its order.  Most are one statement   *)
(* or one transaction, "bind" and "hash" one for every row they have read.  *)
(* "identities" (an UPDATE per column), "emails" (one per binding) and      *)
(* "tables" (AutoMigrate) are several statements taken as one: repeated,    *)
(* each writes what it wrote before, so the next attempt completes one that *)
(* stopped among them, but such partial results are not states of this      *)
(* model.  Nor is there a step for the "enabled-admin" lock row, created if *)
(* missing before "promote": no step of a migration reads it.               *)
Order == <<"identities", "validate", "versions", "tables", "emails", "issuer",
           "settings", "branding", "themes", "unified", "users", "tokens",
           "inventory", "sessions", "bind", "promote", "demote", "normalize",
           "mirror", "clear", "hash", "record">>

Roles == {"user", "admin", "super"}
Administrators == {"admin", "super"}

Stopped(pc) == [pc |-> pc, step |-> 0, legacy |-> 0, initial |-> FALSE, todo |-> {}]

SchemaInit ==
    /\ db \in Stored
    /\ first = db
    /\ proc = [p \in Process |-> Stopped("off")]
    /\ lock = None
    /\ timed \in BOOLEAN
    /\ faults = 0

(***************************************************************************)
(* The lock and the inspection made under it.                              *)
(***************************************************************************)

Fault == faults < MaxFaults /\ faults' = faults + 1

Latest(d) == CHOOSE v \in d.versions : \A w \in d.versions : w <= v

(* A database without rows in versions is an initialization to be retried. *)
InspectSchema(d) ==
    IF "versions" \notin d.tables /\ d.tables # {} THEN "invalid"
    ELSE IF d.versions = {} THEN "empty"
    ELSE IF Latest(d) = Target THEN "current"
    ELSE IF Latest(d) < Target THEN "upgrade_required"
    ELSE "newer_than_binary"

Start(p) ==
    /\ proc[p].pc = "off"
    /\ proc' = [proc EXCEPT ![p] = Stopped("waiting")]
    /\ UNCHANGED <<db, lock, timed, faults, first>>

Restart(p) ==
    /\ proc[p].pc \in {"failed", "killed", "finished"}
    /\ Fault
    /\ proc' = [proc EXCEPT ![p] = Stopped("waiting")]
    /\ UNCHANGED <<db, lock, timed, first>>

(* A plausible bug: a lock that keeps nobody out. *)
AcquireAnyway(p) ==
    /\ proc[p].pc = "waiting"
    /\ lock' = p
    /\ proc' = [proc EXCEPT ![p].pc = "inspecting"]
    /\ UNCHANGED <<db, timed, faults, first>>

Acquire(p) ==
    /\ proc[p].pc = "waiting"
    /\ lock = None
    /\ lock' = p
    /\ proc' = [proc EXCEPT ![p].pc = "inspecting"]
    /\ UNCHANGED <<db, timed, faults, first>>

LockTimesOut(p) ==
    /\ timed
    /\ proc[p].pc = "waiting"
    /\ lock \notin {None, p}
    /\ proc' = [proc EXCEPT ![p] = Stopped("failed")]
    /\ UNCHANGED <<db, lock, timed, faults, first>>

(* A plausible bug: the deferred unlock forgotten. *)
KeepsLock(p) == lock

Unlocked(p) == IF lock = p THEN None ELSE lock

(* The end of the callback, which the deferred unlock follows. *)
End(p, pc) ==
    /\ proc' = [proc EXCEPT ![p] = Stopped(pc)]
    /\ lock' = Unlocked(p)

Ready(p) == IF p \in Server THEN "serving" ELSE "finished"

Refused(p) ==
    /\ proc[p].pc = "inspecting"
    /\ InspectSchema(db) \in {"invalid", "newer_than_binary"}
    /\ End(p, "failed")
    /\ UNCHANGED <<db, timed, faults, first>>

NotRequired(p) ==
    /\ proc[p].pc = "inspecting"
    /\ InspectSchema(db) = "current"
    /\ End(p, Ready(p))
    /\ UNCHANGED <<db, timed, faults, first>>

BeginMigration(p) ==
    /\ proc[p].pc = "inspecting"
    /\ InspectSchema(db) \in {"empty", "upgrade_required"}
    /\ LET initial == db.versions = {} IN
       proc' = [proc EXCEPT ![p] =
           [pc |-> "migrating", step |-> 1, initial |-> initial, todo |-> {},
            legacy |-> IF initial THEN 0 ELSE Latest(db)]]
    /\ UNCHANGED <<db, lock, timed, faults, first>>

Verify(p) ==
    /\ proc[p].pc = "verifying"
    /\ End(p, IF InspectSchema(db) = "current" THEN Ready(p) ELSE "failed")
    /\ UNCHANGED <<db, timed, faults, first>>

(* RELEASE_LOCK's error is ignored: the session stays in the pool with the *)
(* lock, until the process ends.                                           *)
UnlockFails(p) ==
    /\ timed
    /\ proc[p].pc \in {"verifying", "inspecting"}
    /\ InspectSchema(db) = "current"
    /\ p \in Server
    /\ Fault
    /\ proc' = [proc EXCEPT ![p] = Stopped("serving")]
    /\ UNCHANGED <<db, lock, timed, first>>

(* A statement fails, or the connection that holds the lock is lost. *)
Fails(p) ==
    /\ proc[p].pc \in {"inspecting", "migrating", "verifying"}
    /\ Fault
    /\ End(p, "failed")
    /\ UNCHANGED <<db, timed, first>>

Killed(p) ==
    /\ proc[p].pc \in {"waiting", "inspecting", "migrating", "verifying", "serving"}
    /\ Fault
    /\ proc' = [proc EXCEPT ![p] = Stopped("killed")]
    /\ lock' = IF lock = p THEN None ELSE lock
    /\ UNCHANGED <<db, timed, first>>

(***************************************************************************)
(* The migration.                                                          *)
(***************************************************************************)

At(p, step) == proc[p].pc = "migrating" /\ Order[proc[p].step] = step

Advance(p, todo) ==
    proc' = [proc EXCEPT ![p].pc = IF proc[p].step = Len(Order) THEN "verifying" ELSE @,
                         ![p].step = IF @ = Len(Order) THEN @ ELSE @ + 1,
                         ![p].todo = todo]

Migrate(p, step, d) ==
    /\ At(p, step)
    /\ db' = d
    /\ Advance(p, {})
    /\ UNCHANGED <<lock, timed, faults, first>>

(* An UPDATE of the columns of every row of a table. *)
Update(d, table, Row(_)) == [d EXCEPT ![table] = [i \in DOMAIN @ |-> Row(@[i])]]

Before(p, version) == proc[p].legacy \in 1..version - 1

Old(a, b) == IF a = "" THEN b ELSE a

(* The provider columns of v244 bindings, filled before unique indexes. *)
PrepareIdentities(p) ==
    Migrate(p, "identities",
        IF Before(p, 245)
        THEN LET Filled(t) == [t EXCEPT !.type = Old(@, t.third), !.op = Old(@, t.third)]
             IN  [Update(db, "thirds", Filled) EXCEPT !.issuer = Old(@, "google")]
        ELSE db)

Repeated(rows, Key(_)) ==
    \E i, j \in DOMAIN rows : i # j /\ Key(rows[i]) = Key(rows[j])

OneBinding(d) ==
    LET Subject(t) == <<t.op, t.subject>>
        Holder(t) == <<t.op, t.user>>
    IN  ~Repeated(d.thirds, Subject) /\ ~Repeated(d.thirds, Holder)

OnePeer(d) == LET Id(r) == r.id IN ~Repeated(d.peers, Id)

Validate(p) == OneBinding(db) /\ OnePeer(db) /\ Migrate(p, "validate", db)

RejectDuplicates(p) ==
    /\ At(p, "validate")
    /\ ~(OneBinding(db) /\ OnePeer(db))
    /\ End(p, "failed")
    /\ UNCHANGED <<db, timed, faults, first>>

CreateVersions(p) ==
    Migrate(p, "versions", [db EXCEPT !.tables = @ \cup {"versions"}])

(* New columns take their defaults. *)
CreateTables(p) ==
    LET Column(u) == [u EXCEPT !.role = IF @ = "missing" THEN "user" ELSE @]
    IN  Migrate(p, "tables",
            [Update(db, "users", Column) EXCEPT !.tables = @ \cup {"application"}])

MoveEmails(p) ==
    LET Google(i) == {t \in Range(db.thirds) : t.type = "google" /\ t.user = i}
        Email(i) == IF Google(i) = {} THEN db.users[i].email
                    ELSE (CHOOSE t \in Google(i) : TRUE).subject
    IN  Migrate(p, "emails",
            IF Before(p, 245)
            THEN [db EXCEPT !.users = [i \in DOMAIN @ |-> [@[i] EXCEPT !.email = Email(i)]]]
            ELSE db)

FillIssuer(p) ==
    Migrate(p, "issuer", IF Before(p, 246) THEN [db EXCEPT !.issuer = Old(@, "google")] ELSE db)

Linuxdo(t) == t.type = "linuxdo" \/ t.op = "linuxdo"

MoveSettings(p) ==
    LET kept == {i \in DOMAIN db.thirds : ~Linuxdo(db.thirds[i])}
    IN  Migrate(p, "settings",
            [db EXCEPT !.notice = Old(@, db.oldNotice), !.thirds = [i \in kept |-> @[i]]])

DefaultBranding(p) == Migrate(p, "branding", [db EXCEPT !.country = Old(@, "default")])

SplitThemes(p) == Migrate(p, "themes", [db EXCEPT !.themed = Old(@, db.logo)])

UnifyBranding(p) ==
    LET logo == Old(db.brand, Old(db.themed, db.logo))
    IN  Migrate(p, "unified", [db EXCEPT !.brand = logo, !.themed = logo])

Versioned(row) == [row EXCEPT !.auth = IF @ = 0 THEN 1 ELSE @]

BackfillUsers(p) == Migrate(p, "users", Update(db, "users", Versioned))
BackfillTokens(p) == Migrate(p, "tokens", Update(db, "sessions", Versioned))

(* The client of a session comes from its newest login log. *)
FillInventory(p) ==
    LET Client(t) == [t EXCEPT !.client = Old(@, t.log)]
        Source(r) == [r EXCEPT !.source =
                        Old(@, IF r.uuid # "" /\ r.user > 0 THEN "login" ELSE "manual")]
    IN  Migrate(p, "inventory", Update(Update(db, "sessions", Client), "peers", Source))

(***************************************************************************)
(* Devices of signed-in clients: the sessions are read once, newest first, *)
(* and each is bound in a transaction of its own.                          *)
(***************************************************************************)

(* `live` is neither revoked nor expired. *)
Eligible(d, i) ==
    LET t == d.sessions[i] IN
    /\ t.live /\ t.client = "native" /\ t.id # "" /\ t.uuid # ""
    /\ t.user \in DOMAIN d.users
    /\ d.users[t.user].enabled /\ d.users[t.user].auth = t.auth

ReadSessions(p) ==
    /\ At(p, "sessions")
    /\ Advance(p, {i \in DOMAIN db.sessions : Eligible(db, i)})
    /\ UNCHANGED <<db, lock, timed, faults, first>>

Rows(d, Is(_)) == {r \in DOMAIN d.peers : Is(d.peers[r])}

BindMigratedNativePeer(d, t) ==
    LET HasId(r) == r.id = t.id
        HasUuid(r) == r.uuid = t.uuid
        byId == Rows(d, HasId)
        byUuid == Rows(d, HasUuid)
        row == [id |-> t.id, uuid |-> t.uuid, user |-> t.user, source |-> "login"]
        Bound(r) == [d EXCEPT !.peers[r] = row]
        Free(r) == d.peers[r].user \in {0, t.user}
    IN  IF Cardinality(byId) > 1 \/ Cardinality(byUuid) > 1 THEN d
        ELSE IF byId # {} THEN
               LET r == CHOOSE x \in byId : TRUE IN
               IF d.peers[r].uuid \in {"", t.uuid} /\ Free(r) /\ byUuid \subseteq byId
               THEN Bound(r) ELSE d
        ELSE IF byUuid # {} THEN
               LET r == CHOOSE x \in byUuid : TRUE IN IF Free(r) THEN Bound(r) ELSE d
        ELSE [d EXCEPT !.peers = Append(@, row)]

BindSession(p) ==
    /\ At(p, "bind")
    /\ \E s \in proc[p].todo :
           /\ \A x \in proc[p].todo : x <= s
           /\ db' = BindMigratedNativePeer(db, db.sessions[s])
           /\ proc' = [proc EXCEPT ![p].todo = @ \ {s}]
    /\ UNCHANGED <<lock, timed, faults, first>>

SessionsBound(p) == proc[p].todo = {} /\ Migrate(p, "bind", db)

(***************************************************************************)
(* Roles, tokens and the version.                                          *)
(***************************************************************************)

Promote(p) ==
    LET Role(u) == [u EXCEPT !.role =
                      IF u.isAdmin /\ @ \notin Administrators THEN "super" ELSE @]
    IN  Migrate(p, "promote", Update(db, "users", Role))

Ordinary(u) == [u EXCEPT !.role = IF @ \in Roles THEN @ ELSE "user"]

Demote(p) ==
    LET Role(u) == IF u.isAdmin THEN u ELSE Ordinary(u)
    IN  Migrate(p, "demote", Update(db, "users", Role))

Normalize(p) == Migrate(p, "normalize", Update(db, "users", Ordinary))

Mirror(p) ==
    LET Flag(u) == [u EXCEPT !.isAdmin = u.role \in Administrators]
    IN  Migrate(p, "mirror", Update(db, "users", Flag))

ReadTokens(p) ==
    /\ At(p, "clear")
    /\ Advance(p, {i \in DOMAIN db.sessions : ~db.sessions[i].hashed})
    /\ UNCHANGED <<db, lock, timed, faults, first>>

HashToken(p) ==
    /\ At(p, "hash")
    /\ \E s \in proc[p].todo :
           /\ db' = [db EXCEPT !.sessions[s].hashed = TRUE]
           /\ proc' = [proc EXCEPT ![p].todo = @ \ {s}]
    /\ UNCHANGED <<lock, timed, faults, first>>

TokensHashed(p) == proc[p].todo = {} /\ Migrate(p, "hash", db)

Recorded(d) == [d EXCEPT !.versions = @ \cup {Target}]

RecordVersion(p) == ~proc[p].initial /\ Migrate(p, "record", Recorded(db))

Builtin == [name |-> "admin", role |-> "super", isAdmin |-> TRUE, auth |-> 1,
            enabled |-> TRUE, email |-> ""]

(* The built-in administrator and the version, in one transaction. *)
BootstrapInitialDatabase(p) ==
    /\ proc[p].initial
    /\ LET named == \E u \in Range(db.users) : u.name = "admin"
       IN  Migrate(p, "record", Recorded(
               [db EXCEPT !.users = IF named THEN @ ELSE Append(@, Builtin)]))

(* Somebody uses a server: the built-in administrator is renamed. *)
RenameAdmin(s) ==
    /\ proc[s].pc = "serving"
    /\ \E i \in DOMAIN db.users :
           /\ db.users[i].name = "admin"
           /\ db' = [db EXCEPT !.users[i].name = "renamed"]
    /\ UNCHANGED <<proc, lock, timed, faults, first>>

(***************************************************************************)

Step(p) ==
    \/ PrepareIdentities(p) \/ Validate(p) \/ RejectDuplicates(p)
    \/ CreateVersions(p) \/ CreateTables(p) \/ MoveEmails(p) \/ FillIssuer(p)
    \/ MoveSettings(p) \/ DefaultBranding(p) \/ SplitThemes(p) \/ UnifyBranding(p)
    \/ BackfillUsers(p) \/ BackfillTokens(p) \/ FillInventory(p)
    \/ ReadSessions(p) \/ BindSession(p) \/ SessionsBound(p)
    \/ Promote(p) \/ Demote(p) \/ Normalize(p) \/ Mirror(p)
    \/ ReadTokens(p) \/ HashToken(p) \/ TokensHashed(p)
    \/ RecordVersion(p) \/ BootstrapInitialDatabase(p)

Work(p) ==
    \/ Acquire(p) \/ LockTimesOut(p)
    \/ Refused(p) \/ NotRequired(p) \/ BeginMigration(p) \/ Verify(p)
    \/ Step(p)

SchemaNext ==
    \/ \E p \in Process :
           \/ Start(p) \/ Restart(p) \/ Work(p)
           \/ UnlockFails(p) \/ Fails(p) \/ Killed(p)
    \/ \E s \in Server : RenameAdmin(s)

(* A process that has something to do goes on; a lock has its timeout. *)
SchemaSpec == SchemaInit /\ [][SchemaNext]_schemaVars /\ \A p \in Process : WF_schemaVars(Work(p))

(***************************************************************************)
(* Properties                                                              *)
(***************************************************************************)

Serving == \E s \in Server : proc[s].pc = "serving"

(* The role a stored account must end with: a valid administrator's stays, *)
(* an account known only by the old flag becomes a super administrator.    *)
Due(u) == IF u.role \in Administrators THEN u.role ELSE IF u.isAdmin THEN "super" ELSE "user"

AccountsMigrated ==
    /\ \A i \in DOMAIN db.users :
           db.users[i].auth > 0 /\ (db.users[i].isAdmin <=> db.users[i].role \in Administrators)
    /\ \A i \in DOMAIN first.users : db.users[i].role = Due(first.users[i])
    /\ Len(db.users) = IF first.versions = {} /\ first.users = <<>> THEN 1 ELSE Len(first.users)

(* A release that kept its identities by kind, without the provider.       *)
Early(d) == d.versions # {} /\ Latest(d) < 245

IdentitiesMigrated ==
    /\ OneBinding(db) /\ OnePeer(db)
    /\ \A t \in Range(db.thirds) :
           /\ ~Linuxdo(t) /\ t.op # ""
           /\ t.type = "google" /\ Early(first) /\ t.user \in DOMAIN db.users
                 => db.users[t.user].email = t.subject

SessionsMigrated ==
    \A i \in DOMAIN db.sessions : db.sessions[i].hashed /\ db.sessions[i].auth > 0

(* No stored row, and no newer session, claims what session i says. *)
Unclaimed(i) ==
    LET t == db.sessions[i] IN
    /\ \A r \in Range(first.peers) :
           r.id = t.id \/ r.uuid = t.uuid
              => r.user = 0 /\ r.id = t.id /\ r.uuid \in {"", t.uuid}
    /\ \A j \in DOMAIN db.sessions :
           j > i /\ Eligible(db, j) => db.sessions[j].id # t.id /\ db.sessions[j].uuid # t.uuid

(* A server may have used a database that was found at the target version. *)
DevicesMigrated ==
    \A i \in DOMAIN db.sessions :
        Eligible(db, i) /\ Unclaimed(i) /\ InspectSchema(first) # "current"
           => \E r \in Range(db.peers) :
                  r.uuid = db.sessions[i].uuid /\ r.user = db.sessions[i].user

(* ServesMigrated: a server that serves has a database in which every      *)
(* account has a generation and the role it is due, nothing is bound       *)
(* twice, every stored token is hashed and every device of a signed-in     *)
(* client belongs to its newest session, whatever attempts failed before.  *)
ServesMigrated ==
    Serving => /\ InspectSchema(db) = "current"
               /\ AccountsMigrated /\ IdentitiesMigrated
               /\ SessionsMigrated /\ DevicesMigrated

(* MigratesAlone: nobody migrates a database somebody else migrates, or    *)
(* one a server is serving.                                                *)
MigratesAlone ==
    \A p, q \in Process :
        p # q /\ proc[p].pc \in {"migrating", "verifying"}
           => proc[q].pc \notin {"migrating", "verifying", "serving"}

(* StartsEnd: a process that waits for the lock or migrates ends up        *)
(* serving, finished or failed: nobody waits for ever.                     *)
StartsEnd ==
    \A p \in Process :
        proc[p].pc \in {"waiting", "inspecting", "migrating", "verifying"}
           ~> proc[p].pc \in {"serving", "finished", "failed", "killed"}

(***************************************************************************)
(* What a process finds, whatever the attempts before it have left.        *)
(***************************************************************************)

DatabaseColumns == {"tables", "versions", "users", "sessions", "peers", "thirds", "notice",
                    "oldNotice", "country", "logo", "themed", "brand", "issuer"}
AccountColumns == {"name", "role", "isAdmin", "auth", "enabled", "email"}
TokenColumns == {"user", "auth", "client", "log", "hashed", "live", "id", "uuid"}
DeviceColumns == {"id", "uuid", "user", "source"}
BindingColumns == {"user", "third", "op", "type", "subject"}

UsersFit(d) ==
    /\ DOMAIN d = DatabaseColumns
    /\ d.users \in Seq(Range(d.users))
    /\ \A i \in DOMAIN d.users :
           /\ DOMAIN d.users[i] = AccountColumns
           /\ d.users[i].isAdmin \in BOOLEAN /\ d.users[i].auth \in Nat

TokensFit(sessions) ==
    \A i \in DOMAIN sessions : DOMAIN sessions[i] = TokenColumns /\ sessions[i].auth \in Nat

PeersFit(peers) ==
    /\ peers \in Seq(Range(peers))
    /\ \A r \in DOMAIN peers : DOMAIN peers[r] = DeviceColumns

BindingsFit(thirds) == \A i \in DOMAIN thirds : DOMAIN thirds[i] = BindingColumns

Generated(u) == u.auth > 0
Promoted(u) == u.isAdmin => u.role \in Administrators
Normalized(u) == u.role \in Roles
Mirrored(u) == u.isAdmin <=> u.role \in Administrators

(* A binding of an early release names its provider by the kind alone, or  *)
(* an attempt has filled its other columns; later ones have the provider.  *)
EarlyBinding(t) == t.third # "" /\ t.type \in {"", t.third} /\ t.op \in {"", t.third}

(* Accounts are made together with the first version; a database of the    *)
(* target version was left by such a process.                              *)
ASSUME StoredSchemas ==
    \A d \in Stored :
        /\ UsersFit(d) /\ TokensFit(d.sessions) /\ PeersFit(d.peers) /\ BindingsFit(d.thirds)
        /\ d.sessions \in Seq(Range(d.sessions))
        /\ d.versions \subseteq Nat \ {0}
        /\ d.versions # {} => \E v \in d.versions : \A w \in d.versions : w <= v
        /\ \A i \in DOMAIN d.thirds :
              IF Early(d) THEN EarlyBinding(d.thirds[i]) ELSE d.thirds[i].op # ""
        /\ InspectSchema(d) = "empty" => d.users = <<>> /\ d.sessions = <<>> /\ d.thirds = <<>>
        /\ InspectSchema(d) = "current" =>
              /\ \A i \in DOMAIN d.users :
                     Generated(d.users[i]) /\ Normalized(d.users[i]) /\ Mirrored(d.users[i])
              /\ \A i \in DOMAIN d.sessions : d.sessions[i].auth > 0 /\ d.sessions[i].hashed
              /\ \A i \in DOMAIN d.thirds : ~Linuxdo(d.thirds[i])
              /\ OneBinding(d) /\ OnePeer(d)

(* w: what a process is doing.  A step that is done stays done until the   *)
(* lock is let go.                                                         *)
Passed(w, step) ==
    \/ w.pc = "verifying"
    \/ w.pc = "migrating" /\ \E i \in 1..Len(Order) : i < w.step /\ Order[i] = step

AccountsAfter(w, users) ==
    \A i \in DOMAIN users :
        /\ Passed(w, "users") => Generated(users[i])
        /\ Passed(w, "promote") => Promoted(users[i])
        /\ Passed(w, "normalize") => Normalized(users[i])
        /\ Passed(w, "mirror") => Mirrored(users[i])

MigrationFits(w) ==
    w.pc \in {"migrating", "verifying"} =>
        /\ w.step \in 1..Len(Order)
        /\ InspectSchema(first) # "invalid"
        /\ w.pc = "migrating" =>
              /\ db.versions = {} \/ Latest(db) < Target
              /\ w.initial = (db.versions = {})
        /\ AccountsAfter(w, db.users)

(* The role an account is due is the one it was due at first.              *)
AccountsKept ==
    /\ \A i \in DOMAIN first.users :
           i \in DOMAIN db.users /\ Due(db.users[i]) = Due(first.users[i])
    /\ Len(db.users) = IF db.versions # {} /\ first.versions = {} /\ first.users = <<>> THEN 1
                       ELSE Len(first.users)
    /\ db.versions = {} => first.versions = {}

LockHeld ==
    \A p \in Process : proc[p].pc \in {"inspecting", "migrating", "verifying"} => lock = p

Served == \E p \in Process : proc[p].pc = "serving"

ServedIsCurrent ==
    Served => /\ InspectSchema(db) = "current"
              /\ \A p \in Process : proc[p].pc \notin {"migrating", "verifying"}

(* Together they are inductive.                                            *)
SchemaInv ==
    /\ first \in Stored /\ UsersFit(db)
    /\ proc = [p \in Process |-> proc[p]]
    /\ \A p \in Process : /\ DOMAIN proc[p] = {"pc", "step", "legacy", "initial", "todo"}
                          /\ MigrationFits(proc[p])
    /\ LockHeld /\ ServedIsCurrent /\ AccountsKept
    /\ InspectSchema(first) = "invalid" => db = first
    /\ InspectSchema(db) = "current" => AccountsMigrated

(***************************************************************************)
(* The same for bindings, sessions and devices.  What the migration does   *)
(* to them is told from the stored database alone, since no attempt        *)
(* changes who a session is of, and on which device.                       *)
(***************************************************************************)

(* The sessions the migration will find eligible, told before generations  *)
(* and clients are filled in.                                              *)
SignedIn(d, i) ==
    LET t == d.sessions[i] IN
    /\ t.live /\ Old(t.client, t.log) = "native" /\ t.id # "" /\ t.uuid # ""
    /\ t.user \in DOMAIN d.users
    /\ d.users[t.user].enabled /\ Versioned(d.users[t.user]).auth = Versioned(t).auth

Claims(r, t) == r.uuid = t.uuid /\ r.user = t.user
Awaits(r, t) == r.id = t.id \/ r.uuid = t.uuid => r.user = 0 /\ r.id = t.id /\ r.uuid \in {"", t.uuid}

(* Unclaimed, told of the stored database. *)
Sole(i) ==
    LET t == first.sessions[i] IN
    /\ SignedIn(first, i)
    /\ \A r \in Range(first.peers) : Awaits(r, t)
    /\ \A j \in DOMAIN first.sessions :
           j > i /\ SignedIn(first, j) => first.sessions[j].id # t.id /\ first.sessions[j].uuid # t.uuid

(* The device of session i is claimed, or still waits for it. *)
Claimed(i, peers) == \E r \in Range(peers) : Claims(r, first.sessions[i])
Awaited(i, peers) == \A r \in Range(peers) : Awaits(r, first.sessions[i])

SameAccount(u, v) == v.enabled = u.enabled /\ Versioned(v).auth = Versioned(u).auth

SameToken(t, u) ==
    /\ u.user = t.user /\ u.id = t.id /\ u.uuid = t.uuid /\ u.live = t.live
    /\ Old(u.client, u.log) = Old(t.client, t.log) /\ Versioned(u).auth = Versioned(t).auth

UsersSame(users) == \A i \in DOMAIN first.users : SameAccount(first.users[i], users[i])

TokensSame(sessions) ==
    /\ TokensFit(sessions)
    /\ DOMAIN sessions = DOMAIN first.sessions
    /\ \A i \in DOMAIN sessions : SameToken(first.sessions[i], sessions[i])

PeersSame(peers) ==
    /\ PeersFit(peers)
    /\ \A i \in DOMAIN first.sessions : Sole(i) => Claimed(i, peers) \/ Awaited(i, peers)

BindingsSame(thirds) ==
    /\ BindingsFit(thirds)
    /\ \A i \in DOMAIN thirds :
           IF Early(first) THEN EarlyBinding(thirds[i]) ELSE thirds[i].op # ""

(* What is true once the steps in `past` are done. *)
Past(w) == {step \in Range(Order) : Passed(w, step)}

TokensAfter(sessions, past) ==
    \A i \in DOMAIN sessions :
        LET t == sessions[i] IN
        /\ "tokens" \in past => t.auth > 0
        /\ "inventory" \in past /\ InspectSchema(first) # "current" => t.client = Old(t.client, t.log)
        /\ "hash" \in past => t.hashed

PeersAfter(d, past) ==
    /\ "validate" \in past => OnePeer(d)
    /\ "bind" \in past /\ InspectSchema(first) # "current" =>
          \A i \in DOMAIN first.sessions : Sole(i) => Claimed(i, d.peers)

BindingsAfter(d, past) ==
    /\ "identities" \in past /\ Early(first) =>
          \A i \in DOMAIN d.thirds : d.thirds[i].type = d.thirds[i].third /\ d.thirds[i].op = d.thirds[i].third
    /\ "validate" \in past => OneBinding(d)
    /\ "settings" \in past => \A i \in DOMAIN d.thirds : ~Linuxdo(d.thirds[i])

EmailsAfter(d, past) ==
    "emails" \in past /\ Early(first) =>
        \A i \in DOMAIN d.thirds :
            LET t == d.thirds[i] IN
            t.type = "google" /\ t.user \in DOMAIN d.users => d.users[t.user].email = t.subject

DataAfter(d, past) ==
    TokensAfter(d.sessions, past) /\ PeersAfter(d, past) /\ BindingsAfter(d, past) /\ EmailsAfter(d, past)

(* What is left for the process to do one by one. *)
TodoFits(w, d) ==
    /\ Order[w.step] = "bind" =>
          /\ \A i \in w.todo : i \in DOMAIN first.sessions /\ SignedIn(first, i)
          /\ \A i \in DOMAIN first.sessions : Sole(i) => i \in w.todo \/ Claimed(i, d.peers)
    /\ Order[w.step] = "hash" =>
          \A i \in DOMAIN d.sessions : i \in w.todo \/ d.sessions[i].hashed

DataFits(w) ==
    /\ w.pc = "migrating" =>
          w.legacy = (IF w.initial THEN 0 ELSE Latest(db)) /\ TodoFits(w, db)
    /\ w.pc \in {"migrating", "verifying"} => DataAfter(db, Past(w))

(* Together with SchemaInv they are inductive. *)
DataInv ==
    /\ db.versions = first.versions \/ (db.versions # {} /\ Latest(db) = Target)
    /\ UsersSame(db.users) /\ TokensSame(db.sessions) /\ PeersSame(db.peers) /\ BindingsSame(db.thirds)
    /\ \A p \in Process : DataFits(proc[p])
    /\ InspectSchema(db) = "current" => DataAfter(db, Range(Order))
=============================================================================
