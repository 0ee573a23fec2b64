# Verification of the Kessoku API server

Kessoku is the account, device and administration server of a RustDesk
deployment (Go, gin, gorm over SQLite, MySQL or PostgreSQL), with a control
plane that pairs with and operates Starry servers. This directory holds TLA+
models of the parts whose correctness depends on interleavings, old reads,
partial failures or long sequences of calls, TLC configurations that check them
on small instances, and TLAPS proofs of the central invariants for every
instance.

Every definition names, in `PROJECT.json` under `map`, the source lines it was
translated from.

## The system

Several replicas of one Go process serve HTTP. Their shared state is the SQL
database; each also keeps state in memory. Two mechanisms order concurrent
requests: a keyed mutex inside one process (`lib/lock/local.go`) and database
transactions, with `SELECT ... FOR UPDATE` where the code asks for it. Under
MySQL and PostgreSQL transactions that take no row lock interleave freely.

| Component | State it keeps | Operations | Hard behaviour | Correct when |
| --- | --- | --- | --- | --- |
| Presence leases (`service/presence.go`, `http/controller/api/presence.go`) | peer row (activation epoch and id, retired flag, online-until, last v2 activity, last contact), `peer_presence_leases` | start, renew, end, deactivate, heartbeat, sysinfo, peer deletion, retention | handlers read the clock before they queue for the lock; profile switches overtake queued requests; deletion is two statements | leases belong to the current activation, the cached aggregate agrees with them, ended stays ended |
| Accounts and sessions (`service/user.go`, `service/maintenance.go`, `internal/auth/manager.go`) | users (role, status, password, `auth_version`), `user_tokens`, the enabled-administrator lock row | login, authenticate, logout, global logout, password change, update, delete, maintenance, LDAP synchronisation | a login works with a user row read earlier; whole-row updates from an old read | no session survives a revocation; one enabled super administrator remains |
| Two-factor (`service/two_factor.go`) | factor row, login challenges | begin, confirm, disable, challenge, complete | concurrent answers, replay within the accepted time steps, setup overtaken by another setup | a code and a challenge are used at most once, attempts are bounded |
| OAuth states (`service/oauth.go`, `http/controller/api/ouath.go`, `http/controller/admin/oauth.go`) | in-memory state store | begin, callback, confirm, bind, poll | copy-out/copy-in of cache entries by concurrent handlers | one callback and one session per state |
| Device identity (`service/peer.go`, `service/user.go`, `http/controller/admin/peer.go`) | peer rows keyed by id (unique) and uuid (not unique), native sessions | login bind, registry bind, report, activation, unbind, delete, administrator's edits | rows are looked up without locks and written by key; a report asks a Starry center between reading its session and binding | whoever owns a device signed in from it; an id keeps its uuid, a device its owner, a uuid its row |
| Pairing registry (`internal/servercontrolregistry`, `service/starryPairing.go`) | enrollments, managed instances and a generation in a locked SQLite file; certificates in files | create, bind, certify, complete, recover, revoke, read-only switch | a claim is three separate commits; claims race, crash and are repeated while codes expire, are revoked and replaced | one claimant per code; a name keeps its instance; a closed code stays closed |
| Managed provider table (`service/starryControl.go`, `service/starryPairing.go`) | instances, providers and their generation in memory; static exports in files | refresh, look up, enable writes, load after a claim | refreshes overlap, other processes change the registry | what is loaded was exported; a table with the registry's generation has its rows |
| Relay pairing (`service/starryPairing.go`, `internal/starrycontrol/starry/relay_enrollment.go`) | relay enrollments at the agent, their codes in the registry | prepare, create, claim, activate, revoke | two systems written one after the other by overlapping requests; compensation on failure; lost answers and repetitions | both sides agree on whose an enrollment is; what is revoked is closed at both |
| Starry control operations and security audit (`service/starryControl.go`, `service/securityAudit.go`, `internal/starrycontrol`) | audit rows, expectations of pending operations, sealed review tokens; plans and operations at the agent | plan, apply, rollback, reload, poll, conclude | a remote success whose record fails; answers lost or crossed; a restart between the intent and the result | a row is an intent before any effect and is concluded once; a recorded success is one |
| Address books and tags (`service/addressBook.go`, `service/tag.go`, `http/controller/api/ab.go`, `http/controller/admin/my`) | entries, tags, collections and sharing rules in SQL rows | list, add, change, delete, share, replace the personal book, store a report | guid, rule and row are read by separate statements, the write is by primary key; a client uploads the whole book it kept | who acts was entitled; a replacement keeps to the personal book; old inventory stays old |
| Administrator scopes and groups (`service/adminScope.go`, `http/controller/admin`) | `admin_resource_scopes`, groups | replace a scope; create, edit and delete users, groups, collections, devices, entries, tags, rules | the row that is checked is not the row that is written; what is put into a scope disappears | grants belong to scoped administrators and name what exists; nothing out of scope is written |
| Login limiter (`utils/login_limiter.go`, `http/controller/*/login.go`) | attempts, captchas and bans in memory | check, record, ban, draw and verify a captcha, forgive | check and record are separate calls; three endpoints with different rules | guessing is bounded; a captcha counts once |
| Database schema and migrations (`cmd/apimain.go`, `internal/database/schema.go`, `cmd/cli_database.go`) | the schema version, the migration lock, and what each step changes | inspect, lock, migrate in 22 steps, record, serve | several servers and the command line start at once; any step fails or is killed and the next start goes on from there | only a migrated database is served; one process migrates at a time; every start ends |
| Command line (`cmd`) | none of its own | maintenance, pairing codes, migration | | its effects are those of the modules above |
| Platform settings, branding, geo-IP, uploads | one row or file each | | | |
| Web consoles (`admin-web`, `web-client`) | browser state | | | |

How they interact: the login controllers call the limiter, then the user
service (or LDAP), then two-factor, then issue a token, whose persistence binds
the device identity; presence and reports resolve the device identity and ask a
native session or the Starry registry (through Starry control) to vouch for it;
every privileged operation is bracketed by a security audit; pairing writes the
registry that the provider table is loaded from. Two-factor, accounts and OAuth
share `users.auth_version` and `user_tokens`: each module models the part of
them it needs. Administrators' pages write the same accounts, devices and books,
with the scopes in between.

## The modules

| Module | Models | Checked by | Proved in |
| --- | --- | --- | --- |
| `Presence` | the presence transactions, their handlers, deletion, retention, the clock | `MCPresence` | `PresenceProofs` |
| `PresenceHistory` | `Presence` with the times clients were last heard from | `MCPresenceHistory` | `PresenceProofs` |
| `Accounts` | users, roles, tokens, logins, administrative updates, LDAP syncs, recovery | `MCAccounts` | `AccountsProofs` |
| `AccountsHistory` | `Accounts` with the set of sessions already invalidated | `MCAccounts` | `AccountsProofs` |
| `OauthStates` | the in-memory sign-in states, callbacks, confirmations, polls | `MCOauth` | `OauthProofs` |
| `OauthHistory` | `OauthStates` with claims and publication times | `MCOauth` | `OauthProofs` |
| `SignIn` | abstract: what a second factor promises | through the next | |
| `TwoFactor` | factors, challenges, codes, the sessions they lead to; implements `SignIn` | `MCTwoFactor` | `TwoFactorProofs` |
| `DeviceIdentity` | peer rows, the sessions that vouch for them, bindings, unbinding, deletion, administrators | `MCDeviceIdentity` | `DeviceIdentityProofs` |
| `ManagedRegistry` | abstract: what the registry promises its readers | through the next two | |
| `Pairing` | codes and claims; implements `ManagedRegistry` | `MCPairing` | `PairingProofs` |
| `ManagedTable` | one server's table of providers; extends `ManagedRegistry` | `MCManagedTable` | `TableProofs` |
| `RelayEnrollment` | relay codes at the agent and here | `MCPairing` | `PairingProofs` |
| `Enrollments` | `Pairing` and `RelayEnrollment` beside each other | `MCPairing` | `PairingProofs` |
| `AuditLedger` | abstract: what audit rows promise their readers | through the next | |
| `ControlOperations` | plans, changes and polls of an instance's configuration, with their audit rows; implements `AuditLedger` | `MCControl` | `ControlProofs` |
| `AddressBooks` | books, tags, collections, rules, reports | `MCAddressBooks` | `TableProofs` |
| `AdminScopes` | scopes and the administrators' pages that ask them | `MCAdminScopes` | `PresenceProofs` |
| `LoginLimiter` | the limiter and the password sign-ins that ask it | `MCOauth` | `OauthProofs` |
| `SchemaMigration` | the start of a server: lock, inspection, the steps of the migration | `MCSchema` | `AccountsProofs` |

`ManagedRegistry` is where two components meet. `Pairing` writes the registry in
all its detail and is shown to implement it (`RegistryKept`, with `claimed`
mapped to the enrollments in state "claimed"; checked by TLC and proved).
`ManagedTable` reads a registry of which it knows nothing else, so its changes
from other servers and command-line processes are simply `RegistryNext`.

`AuditLedger` says what a reader of the audit may rely on: an intent precedes
every effect, and a result is final. `ControlOperations` implements it
(`LedgerKept`, an `INSTANCE ... WITH` that maps the ledger's results to the rows
of `audit` and its effects to the plans and operations the agent has; checked by
TLC and proved). The refinement is what a reader needs and no more: whether the
recorded result is also true is `SuccessIsTrue`.

`SignIn` knows who is protected by which secret, which codes are spent, who may
sign in and who is signed in, and none of the versions, expiries and lookups by which
`TwoFactor` arranges that. `TwoFactor` implements it (`SignInKept`; checked by TLC
and proved). A permit of `SignIn` is an issue that is still of the user's current
version, a session one that would be accepted: so a global logout, an enabled or a
disabled factor must end, in the same step, sign-ins that have passed every check.

`Enrollments` and `MCOauth` each put a second component beside one it shares no
state with: relays beside control agents, the limiter beside the sign-ins with a
provider. In a behaviour one of the two moves and the other stays in its initial
state, so that a run explores the sum of the two state spaces, not their product.

Modules that are proved about together name their parts apart: `AddressBooks`,
`AdminScopes`, `SchemaMigration` and `LoginLimiter` have their own `BooksSpec`,
`ScopesSpec`, `SchemaSpec` and `LimiterSpec` (and `BooksNext`, `ScopesInit` and so
on). Some proof modules hold two components: `PresenceProofs` presence and
scopes, `TableProofs` providers and books, `OauthProofs` both kinds of sign-in,
`AccountsProofs` the accounts and the migration that brings old ones up to date.

### How a handler is modelled

A request handler is a record in `req` or `op`: where it is, and the copies it
has made of rows or cache entries. A step is what one lock holds together: a
committed transaction with the row locks it needs, one critical section of a
mutex, or one unlocked statement. Between two steps of a handler anything else
may happen. An error, a closed request or the death of the process is an action
of its own (`Reject`, `Abort`, `Fail`, `Restart`, `DeleteRollback`), and where a
transaction was open it is rolled back.

**Presence.** `peer` is the row's presence columns and `lease` the rows of
`peer_presence_leases`. `Arrive*` is the first half of a handler (resolve the
row, read the clock), `StartPresenceLease`, `RenewPresenceLease`,
`EndPresenceLease`, `DeactivatePresenceActivation` and `LegacyReport` the
transactions of `service/presence.go` and `peer.go`, with `Reject` for every
error answer. `ActivePresenceUntil` is the aggregate query, a relation rather
than a maximum, so that the provers need no induction over leases.
`DeleteLeases`, `DeleteCommit` and `DeleteRollback` are the two statements of
the deletion, whose uncommitted work (`doomed`) makes other writers of the same
rows wait. A deleted device may come back under a new row id.

**Accounts.** `user` and `token` are the tables, `invariantLock` the holder of
the "enabled-admin" row. A login copies the user (`PasswordLogin`,
`OauthLogin`, `LdapLogin`) and stores a token later (`PersistIssuedToken`); a
request reads the token row, then the user row (`ReadToken`, `ReadUser`); an
update or deletion takes the invariant row, reads, counts and commits
(`AcquireAndRead`, `CountAdmins`, `CommitUpdate`, `CommitDelete`). A directory
sync carries the `auth_version` it read into `UpdateContext`, which is why the
copy's version is a field of `op`. Passwords, e-mail addresses and all other
profile fields are left out.

**OAuth.** `items` is `OauthCache.items`; the reservation, publication, claim,
result, confirmation and poll are separate critical sections, and `op[p].item`
is the clone a handler carries between them. `third` has the two unique indexes
of `user_thirds` as the guard `MayBind`. An expired item is removed by whoever
reads next (`Kept`).

**TwoFactor.** A code is a secret and a time step, and `Accepts` is
`verifyTOTP`'s window of three steps and its `last_used_step`. `BeginSetup` and
`StoreSetup` are the check and the write of `BeginSetup`, two statements. Each
other operation is one transaction under the row lock of the factor or of the
challenge; wrong codes are all alike (`RefuseCode`). `tokens` and `op[p]` carry, beside the code's state, the secret a session
goes back to; no guard reads it.

**DeviceIdentity.** A row has an id, a UUID and an owner. `Login`, `Report` and
`Activate` start a handler that binds; `Look` is the lookup of a binding
transaction and `BindRow` or `CreateRow` its write. `BindLoginIdentity` and
`BindRegistryIdentity` differ only in that the second may have no user, so they
are one. A report that may bind by its session carries `claim`: when that fails,
or another account's row turns up, it goes on to the center. The constant
`Serializable` is the database: TRUE for SQLite, where a transaction cannot write
once its reads are out of date, FALSE for MySQL and PostgreSQL at their default
isolation. Of tokens only the order counts, as `FindActiveNativeUserID` takes the
newest. The center's answer is a step that happens or, with `Fail`, does not.

**Pairing and ManagedTable.** Every change of the registry is one transaction
under a file lock (`mutate`), and one step here. A claim is `BindClaim` (or
`RepeatClaim`), `IssueAgentCertificate`, `CompleteControlClaim` (or
`RecoverControlClaim`) and the answer. In `ManagedTable` a claim begins where
`Pairing` ends, with the export of the completed identity, followed by the
refresh: generation, rows, an export per row, installation. Only the
installation holds the table's mutex.

**RelayEnrollment.** A creation prepares the enrollment at the agent and then
inserts the code here, and revokes the enrollment if that fails; a claim binds
the code, completes at the agent, records, and answers; a revocation goes to the
agent and then here. Each of these is a step, and every request may stop between
two (`CreatorStops`, `ClaimStops`, `RevokeStops`). The agent is external. An
enrollment stands for the idempotency key it is prepared with, and the key is
the caller's: the admin page draws a new one for each request, but HTTP takes it
from a header (`http/controller/admin/starry_control.go:227`) and the command
line offers it as an option, so a creation may be repeated with a used key, also
while the first is under way. `repeated` are the enrollments that were.

**ControlOperations.** A request writes its audit row (an intent), calls the
agent, seals or persists what came back, and answers; these are the program
counters of `req`. Applying and rolling back leave the row pending with an
expectation, and a poll of anybody's browser (`poll`) concludes the rows of every
expectation of the operation it saw. The agent (external) keeps plans and
operations, repeats the operation for a repeated key, may change its schema and
may answer with another operation's state; `faults` counts lost answers, writes
the database refuses, restarts, new schemas and expectations past their seven
days (`lapsed`), which a poll finds no more. A restart draws a new review key
(`epoch`), so that older review tokens are refused. A rollback takes the digest
of its revision from the agent's history and tells the agent the revision only
(`AgentDigest`); `History` is the history an instance has at first. Of a
running operation the server compares the kind, as the agent acknowledges a
digest only when it succeeds: a crossed answer about a running operation of the
same kind is therefore accepted, whatever its document. Operations that failed
are taken to acknowledge nothing either.

**AddressBooks.** A handler of the client's or the user's own pages is a chain of
statements: the guid's user and collection (`CheckGuid`), the rule
(`CheckRule`), the row (`FindRow`, `FindNone`), and then the write by primary key
(`Add`, `Change`, `Delete`, ...). Replacing the personal book is `SyncRead` and
`SyncCommit`, the first statement and the rest of its transaction, with the
device data of the latest verified report put into what the client uploads
(`Verified`). The rows a sync changes are by key (`Choices`) and those it adds get
the next ids (`Numberings`). `StoreSysinfo` is a report, which refreshes every
book. `Stored` are the databases a server may start with.
`Serializable` is TRUE here, as for `DeviceIdentity`.

**AdminScopes.** `Receive` keeps the role the middleware read, `Find` reads the
row the request is about and lists the checks the page makes, `Check` makes one
at a time, and `Create`, `EditUser`, `Edit`, `Delete` write. The page's own rules
about what a scoped administrator may put (`Put`: ordinary users only, an item
stays where it was read) are part of `Find`. A replacement of a scope holds the
row of its administrator from `LockTarget` to `Replace`. `Happen` is what others
do meanwhile: a sign-in on a device, an owner's deletion of a collection, the
local recovery.

**LoginLimiter.** Each method of the limiter is one step under its mutex; a
sign-in of the console, a client or the web client calls several, with the
password, the captcha or the code in between. Only the console takes captchas,
the other two refuse where one is required. The attempts of an address are a set:
of each, the moment and its number within that moment, which is what the list of
times in the code can tell apart (`Nth`).

**SchemaMigration.** `Order` is the sequence of `migrateUsingGlobals`; most
steps are one statement or transaction on the stored database, `Fault` stops an
attempt between any two, and the next start inspects what is there. The
preparation of old identities (`cmd/apimain.go:652-687`), the e-mail addresses
(`cmd/apimain.go:266-278`) and `AutoMigrate` are several statements each and one
step here: each can be repeated, and stops inside them are not explored. The
creation of the "enabled-admin" row (`cmd/apimain.go:439`) has no step. Two passes go row by row:
the sessions still to be bound to devices, newest first, and the tokens still to be
hashed, in no particular order, are the positions in `todo`. Rows are known by
their positions, and keep them when others are deleted. The migration lock ends its
wait after 60 s on MySQL and PostgreSQL and never on SQLite (`timed`).

### History variables

`accepted`, `guessed`, `completed` (TwoFactor), `vouched` (DeviceIdentity: which
account signed in from which UUID), `answered` (Pairing), `exported`
(ManagedTable), `given`, `asked` and `repeated` (the bundles handed out, the
revocations asked for and the keys used again, RelayEnrollment), `crossed`
(ControlOperations: the rows that were answered with another's operation), `lived` and `reach` (AddressBooks) and `reach`
(AdminScopes), which hold what a handler was entitled to since its request came
in, `failures`, `shown` and `solved` (LoginLimiter), `first` (SchemaMigration: the
database before anyone touched it) and the variables of the three History modules record what the
code forgets. No action of the code reads them. (`exported` also stands for
the files themselves, which are only ever added to.)

## Runs

Every run is exhaustive over its instance. `CHECK_DEADLOCK FALSE` is given only
where the model really stops: each request is made once, or the clock, the
arrivals, the faults or the generations of the bounds run out.

| Run | Instance | Shows |
| --- | --- | --- |
| `presence` | 1 row, 3 leases, 2 handlers, 2 activation ids, epochs 1..2, clock 5..9, delay 2 | open leases are of the current activation, the cached aggregate agrees with the leases, a deleted row is inert |
| `presence_live` | 1 row, 2 leases, 2 handlers, 1 activation, clock 5..10, v2 requests until 6, legacy reports until 8, delay 1 | requests are answered, a crashed client goes offline; the fallback window loses at most a handler's delay; online means recently heard from |
| `accounts` | 2 users (one of the directory), 1 token, 2 handlers, versions 1..3 | an administrator is left; no request with an invalidated session of a local account is served |
| `oauth` | 2 keys, 2 users, 2 identities, 2 handlers, capacity 1, lifetime 2, clock 0..4; 1 address, 2 captchas, captchas after 1 failure, a ban after 3, window and ban 2, clock 1..5 | one session per state and within its lifetime; guesses stay bounded and captchas count once |
| `two_factor` | 1 user, 2 secrets, 2 challenges, 2 handlers, 2 attempts, clock 1..3, versions 1..3 | codes are used once, a factor once enabled is enforced, and sign-ins keep the promise of `SignIn` |
| `identity` | 2 rows, 2 ids, 2 UUIDs, 2 accounts, 2 handlers, 1 session at a time, serializable transactions | owners signed in from their devices; a UUID gets one row |
| `pairing` | 2 names, 2 instances, 2 keys, 2 codes, 2 handlers, lifetimes 1, clock 0..2, 8 generations; 2 relay enrollments, 2 creations, claims and claim requests, 2 revocations, keys new or used before | one claimant per code, closed codes stay closed, the registry keeps its promise; agent and registry agree on relays, what was revoked is closed at both, only repeated creations undo a code that was handed out |
| `managed_table` | 2 names, 2 instances, 2 enrollments, 2 handlers, 5 generations | tables are honest, and what is loaded was exported |
| `control` | 1 plan request, 2 changes, 2 pollers, 2 administrators, 2 documents (one of high risk), 2 keys, 2 earlier revisions, 1 fault | recorded successes are true, what was applied was planned and reviewed, pending rows can be concluded by a poll, kind and digest included, the ledger is kept |
| `address_books` | 2 users, 1 collection, 1 device, 1 tag, 2 requests, 2 rows, rules and reports, serializable transactions | who acts was entitled meanwhile, rows stay with their owners' books, no old inventory comes back, a replacement keeps to the personal book |
| `scopes` | 1 super and 1 scoped administrator, 1 user, 1 account to create, 2 groups, 2 collections, 1 device, 1 item; 2 requests and 1 event; 3 databases; serializable transactions | grants stay with scoped administrators and on what exists; nothing is done out of scope |
| `schema` | 2 servers, 1 migration command, 8 databases of older releases, 3 faults | only a migrated database is served, one process migrates at a time, every start ends |

Why these sizes. The hazards are races of two handlers over one row, state or
code, so two handlers are needed and each of the mutants listed in
`PROJECT.json` is caught with two. Three leases let two outlive the one that is
ended; two activation ids under two epochs give both kinds of profile clash. An
OAuth capacity of one with two keys makes every stale write-back meet a full
store. Two secrets let one setup overtake another. Two devices and two accounts
are what a conflict needs; two rows let one be deleted, or turn out to be the
UUID's, while the other is the id's. Two codes let a second code of a name
replace one whose claim is under way; the second name is there for the instance
that must not be managed twice. Generations end at 8 because two codes can cost
no more than that many changes of interest (create, bind, complete each, and
switches between), at 5 where only changes of rows are counted. The clocks run
long enough for every lifetime to end with time left to act on it.
One fault is enough in `control` to lose any one answer, write or process at any
point, to cross one answer, to let one expectation lapse or to change the agent's schema; two changes let one
repeat, overtake or be polled for the other. The instance's history is one document
and then the other, so that a rollback to an older revision, and not just to the
active one, is among the changes. Three
faults in `schema` interrupt a start twice and lose an unlock. Two requests and
one event let a page's checks be split by another page and by something no page
did. The limiter's thresholds of 1 and 3 leave a password guess without a
captcha, one with, and one more before the ban, and two handlers pass each
threshold together; its window is shorter than the clock, so bans end.

Times keep the order the code's constants have (lease 45 s, fallback 90 s,
throttle 30 s, legacy window 60 s), in `presence` rounded to units of 22.5 s
(2, 4, 1, 3). In `presence_live` the unit is 30 s (2, 3, 1, 2), and legacy reports
come in longer than v2 requests (`LastReport`, `LastArrival`): so after the last
v2 activity a device reports by the legacy way when the fallback is about to open,
and is seen while it does. The bounds reach the case `AuthorityWithinDelay` is
about: TLC refutes the property without its allowance for the handler's delay, by
two v2 requests that commit in the opposite order of their times, and with the
allowance refutes, by the same race, a fallback that opens one moment too early
(the mutant `IsOnlineAtEarly`). Two-factor times
are in steps of a code, 30 s; the lifetimes of a challenge and of a pending
secret (5 and 10 minutes) are shortened to one step, so that TLC sees them
expire. The retention of lease records is shortened in the same way. The proofs
assume no proportions.

Symmetry is used for interchangeable ids only, and not in `presence_live` and
`schema`, which check liveness.

## Fairness

`Presence` and `SchemaMigration` state liveness. `Presence` has three
assumptions. Time passes
(`WF_vars(Tick)`). A delete transaction ends, by commit or by rollback. And a
handler that has read the clock finishes: strong fairness of `HandlerStep(h)`,
because the lock it needs is given to others in between; Go's `sync.Mutex`
hands itself to a waiter that starved for a millisecond, and the databases' row
locks queue. A client is never assumed to do anything.

`SchemaMigration` assumes weak fairness of each process's own next step
(`Work(p)`), the operating system's scheduling: a step that stays possible is
taken. Faults, kills and restarts are never assumed to stop or to happen; the
bound on them is TLC's. A process that waits for the lock proceeds because its
holder ends, and a holder that is killed loses the lock with its connection.

No liveness is stated for control operations: the console polls at most 60 times
and then stops, so a pending row may stay pending for as long as nobody looks;
`PendingIsExpected` says that a look will find its expectation, no other in
conflict with it, and take what the agent says of the operation, whichever state
that is in. It has two exceptions. One is the expectation's end after seven days;
the row is then pending for ever. The other is an agent that answered a request with another
request's operation (`Confused`): a rollback may have been accepted with an
operation on another document, after which either polls see a digest that is not
the row's or the expectations of one operation are in conflict
(`service/starryControl.go:1119-1122`), and the rows of that operation may stay pending for good.
TLC refutes the property when either exception is dropped.

## Proofs

Every theorem holds for any number of rows, users, states, handlers and so on,
any lifetimes, and any of the bounds; the bounds are needed by TLC only. The
assumptions are the ASSUMEs of the modules, which TLC evaluates on every run:
types of the constants, "none" values outside the sets they extend, finite sets
where something is counted (users in `Accounts`, keys in `OauthStates`, handlers
in `LoginLimiter`), ids of different tables being different (`AdminScopes`), and
what the databases a server may start with have in common (`StoredAssumption`,
`GrantsAssumption`, `StoredSchemas`): they are ones a server of this or an older
release left, with ids of their own, grants of administrators, recorded versions of which one is
the latest, bindings that early releases named by their kind and later ones by a
provider, and, at the target version, migrated accounts, hashed sessions, and
neither a binding nor a device id twice. Some theorems have a hypothesis of their own, in their
statement: `Serializable` where MySQL and PostgreSQL give less (disagreements 2
and 5).

The type invariants and the inductive invariants are proved, and are not run
again by TLC; neither are `CapacityHolds`, `ClaimedOnce`, `ManagedWasClaimed`,
`ActivationMonotonic`, `EstablishedKept`, `OwnerKept` and `ChallengeBounded`. Each of the inductive
invariants was checked with TLC first, as an invariant on the instance of its module.

Each proof module shows `Init => Inv`, `Inv /\ [Next]_vars => Inv'`, one lemma
per action or group of actions, and reads the properties off `Inv`.

- **PresenceInv.** The aggregate is computed with an old clock, so it may be
  wrong about leases that expired meanwhile; they count no more. It is therefore
  split by direction: it covers every unended lease that has not expired
  (`UntilCovers`), and while it lies in the future it is the expiry of one
  (`UntilIsGranted`). Both need that every unended lease is of the current
  activation (`LiveLeaseIsCurrent`), that no request comes from the future, and
  that a row without an activation has no lease.
- **HistoryInv.** A queued request is at most `MaxDelay` old, so what a commit
  records as the last v2 contact, and what it grants, is that close to when the
  client was heard from, whichever of two requests commits last (`SeenFollows`,
  `GrantedByContact`).
- **ScopesInv.** A replacement under way holds the row of a scoped administrator,
  and everything that takes the role away needs the row (`TargetsHeld`). At every
  moment of a page, whatever it is about to touch has been in its administrator's
  scope since the request came in or is in a question still to be asked
  (`Asking`); the lists of questions differ per page, so there is a lemma for each.
- **AdminInv.** Only the holder of the invariant row takes an administrator
  away. What it read may be changed under it by the recovery command alone, which
  only adds one: so either the row it read is still that of an administrator it
  was told of, or there is another (`ReadIsSafe`, `CountIsSafe`).
- **SessionInv.** A version a local account has left behind is never current
  again (`Behind`), and every token, copy and request that was invalidated
  carries one. Logins that were under way when it happened are among the
  copies. The directory's accounts are excepted, which is disagreement 1.
- **SchemaInv.** Who inspects or migrates holds the lock (`LockHeld`). A step that
  is done stays done for the accounts, as later steps only add what they need
  (`Passed`, `AccountsAfter`), and the role an account was due at first is due
  at every moment in between (`AccountsKept`): so an attempt may stop anywhere and
  the next one, which starts again from the first step, loses nothing.
- **DataInv.** The same for bindings, sessions and devices, of which `first`, the
  database as it was stored, decides what has to come of them. An account's row and a
  session's keep what tells whose they are, whatever is filled in beside
  (`UsersSame`, `TokensSame`). A device that the claim of a session is to settle
  either waits, unowned, or is claimed already for the account of its newest
  session (`Awaited`, `Claimed`). No binding of another session takes a claimed
  one, and while a device waits, its newest session is still in `todo`
  (`TodoFits`): the pass is newest first, so no older session reaches the device
  before it. What the data owe to each step holds once that step is done
  (`DataAfter` of `Past`). A failure between two rows of the pass needs nothing
  more, because the pass starts again with the sessions that are there.
- **OauthInv.** A key belongs to the handler that drew it until it is published;
  later the one callback that claims it is the only handler that can answer it,
  and while that is at work there is no answer and no session. No answer
  outlives its state.
- **LimiterInv.** Since any moment of the window, no more guesses were wrong than
  are recorded or are on their way to be (`Unrecorded`). The moment has to be any,
  not just the start of the window, because the window moves and takes recorded and
  unrecorded guesses with it unevenly. Guesses without a captcha need
  another count: those made and those let in (`LetIn`) together stay below the
  threshold and the number of handlers, as nobody is let in at the threshold
  (`CountsBound`). A stored captcha was drawn and has let nobody through
  (`CaptchasFresh`).
- **TwoFactorInv.** A secret is in one place: pending, enabled or in a setup
  under way. Its codes are spent in the order of their steps. A copy of the user
  from before the factor was enabled carries an old version, and a sign-in that asked
  for no code yet has no secret to its name.
- **IdentityInv.** What a handler is about to bind for a user is a UUID the user
  signed in from, as are the sessions reports go by, and ids are unique: that is
  inductive on any database. That the owners of rows signed in from their devices
  needs that the reads of a binding transaction still hold when it writes
  (`OwnersVouched`; `Serializable` is a hypothesis of that theorem and of the action
  properties, each of which TLC violates without it: disagreement 2). The
  action properties follow from a case split: a step loses rows
  and owners, fills one row in that fits, or creates one for an id and UUID
  nobody has.
- **PairingInv.** A name has one open code, which fits what is managed under the
  name: hence a completion pairs a free name or rotates the same instance. A
  bound code keeps its request, and handlers, certificates and answers are
  that request's.
- **RelayInv.** Of the two systems the agent is first to know an enrollment and
  last to know whose it is: it has a request only from a claim that bound the code
  (`AgentFollows`), and a claim or revocation under way knows how far the other
  place has come (`ClaimsFit`, `RevocationsFit`). Creations of an
  enrollment whose key was used once are apart (`CreationsApart`), so that what undoes
  one of them finds no row; where keys are repeated nothing is claimed.
- **TableInv.** What a handler read, and what the table holds, is older than the
  registry's generation or agrees with its rows; and it was exported up to what
  the handler still has to do.
- **BooksInv.** A check leaves behind what it found: whoever is past the rule has
  had the rule (`Passed`). A row keeps its id and its user for good, and a
  collection that was a user's is never another's afterwards, so a row that was
  read belongs where it did (`SeenFits`, `LivedFits`, `IdsApart`). `SyncConfined`
  is an action property over it; that all keys of an upload are there afterwards
  needs that no id is given twice.
- **ControlInv.** A row is an intent until its request has ended; a pending row
  has an expectation, and the agent the operation it names, of the same kind, and
  of the same digest once it has succeeded (`Agrees`); before that it is of the same
  digest unless the agent answered the row with another's operation
  (`Authorized`). What a handler or poller carries from the agent stays true, as an
  operation that has succeeded or failed remains so. `PendingIsExpected` follows:
  rows of one operation that nobody crossed were all authorized for its digest, so they
  agree with each other and with what a poll is told.

`ControlImplementsLedger` shows the same of `ControlOperations` and `AuditLedger`
as the next of pairing: an effect on the agent finds the row an intent, which is
`ControlInv`, and the rows a poll concludes were pending.

`TwoFactorImplementsSignIn` maps every step of a handler to one that gives, stores
or drops its permit; that a code is unspent is `CodesInOrder`, that a challenge
still takes one `ChallengeCounts`, and that a bump leaves no permit behind is
`CopiesAreOlder`.

`PairingImplementsRegistry` shows that initial states map to initial states and
every step of `Pairing` to one of `ManagedRegistry` or a stutter; the case that
needs `PairingInv` is `CompleteControlClaim`.

Every safety property that a run checks is stated by a theorem. Only
model-checked are:

- liveness: `RequestsAnswered`, `CrashedClientGoesOffline`, `StartsEnd`;
- that instances reach the cases of interest: the mutants show it.

`DatabaseServed` (`ServesMigrated`) concerns passes over all stored sessions, but
needs no induction over them: a pass is made one row at a time, so what it has
done so far is an invariant.

Some statements were found wrong while proving and corrected in the model: a
client's change of a tag writes the collection it read beside the name and leaves
an entry's row alone (`Change` of `AddressBooks`), and the choices of
`InspectSchema` and of the device backfill are made in the code's order, as
exclusive cases. Of the migration, the backfill considers only sessions of
accounts that exist, with a device id and a UUID (`Eligible`); deleting bindings
leaves the others where they are; tokens are hashed in whatever order they are
read. Two clauses of `ServesMigrated` claimed more than the code does: only the
e-mail addresses of accounts that exist move, and devices are nobody's
concern when the database already has the target version, because then nothing is
migrated. The assumptions of the limiter became weaker: a ban may be shorter than
the window.

## Disagreements met

Where the code does something else than its comments, documents or tests say, or
than its other parts count on. The first six can be seen with TLC: each
configuration checks the property named, and TLC prints the trace.

1. `MCAccountsLdap.cfg` (`KilledNeverAccepted`): a directory sync writes back the
   whole row it read, with its `auth_version` (`service/ldap.go:269`). A global
   logout in between is undone.
2. `MCDeviceIdentityRace.cfg` (`OwnerSignedIn`): on MySQL and PostgreSQL a
   sign-in and a registry binding may both find the placeholder of one id, and
   both commit. The later write replaces the UUID and leaves the owner
   (`service/peer.go:185`).
3. `MCOauthConfirm.cfg` (`WebauthSessionOnce`): a confirmation writes back a clone
   without looking whether the state is still there
   (`http/controller/admin/oauth.go:94`); a state that has been taken comes back,
   and a second session is made of it, although "a completed state is consumed
   exactly once so concurrent polling cannot mint two sessions".
4. `MCManagedTableStale.cfg` (`ReadOnlyRespected`): refreshes install whatever
   they read last, so an older table, with writes enabled, may replace a newer one
   until the next refresh (`service/starryControl.go:899`).
5. `MCAdminScopesRace.cfg` (`GrantsConcrete`): "resource-specific existence and
   role constraints are validated transactionally" (`model/adminResourceScope.go:16`),
   but by reads without locks (`service/adminScope.go:139`): on MySQL and
   PostgreSQL a resource deleted before the insertion leaves its grant behind.
6. `MCPairingRepeat.cfg` (`HandedOutIsLive`): the command line describes
   `--idempotency-key` of `relay join create` as a "safe retry key; generated if
   omitted" (`cmd/cli_server_control.go:274`). The agent answers the retry with the
   same enrollment, the registry refuses a second row with its id
   (`internal/servercontrolregistry/registry.go:310`), and the compensation revokes
   the enrollment (`service/starryPairing.go:342-347`): the code handed out first
   can be bound here but never completed at the agent. A retry after a lost answer
   does the same to a code that exists and that nobody was told.
   `UndoneOnlyWhenRepeated` is what remains true.

Smaller ones, stated in a module or seen while modelling:

- Presence: two overlapping v2 requests may commit in the opposite order of their
  times, so that `presence_v2_seen_at` goes back and the legacy fallback starts
  early by at most the handler's delay (`AuthorityWithinDelay` is the bound).
- Accounts: the recovery command does not take the invariant row, so an update
  that read the account as disabled may disable it again without a bump; the
  rehash of a legacy password writes outside any transaction and may overwrite a
  change made meanwhile (`service/user.go:71`); `EraseUserId` runs after the
  deletion has committed, so a failure leaves devices with the id of nobody
  (`service/user.go:516`).
- Two-factor: confirming and disabling lock the factor and then the user, the
  local reset the user first (`service/two_factor.go:196`); a challenge whose
  password was verified before a password change is still answered after it
  (`service/two_factor.go:308`).
- Device identity: deleting a device without a UUID revokes the sessions without
  one, whatever device they are of.
- Pairing: the check for open codes counts codes of every purpose, while only
  control-agent codes reserve a name (`ReservedWhileOpen`,
  `internal/servercontrolregistry/registry.go:285`).
- Control: a review made under one schema of the agent may be applied under the
  next one (`AppliedUnderPlannedSchema`, `service/starryControl.go:385-405`);
  `s.instances` is read there without its mutex (`service/starryControl.go:241`).
- Address books: a replacement computed from old reads does not replace the book
  (`SyncReplacesBook`, `service/addressBook.go:73`); inside its transaction one
  statement goes to the global connection, so that with the pool exhausted by
  such transactions each waits for another (`service/addressBook.go:113`); a
  collection that changes its owner keeps rows with the old owner's id; members
  of a deleted group keep its id.
- Scopes: a page that passed its check writes the row it read, so a scoped
  administrator's edit of a user may demote one who was promoted meanwhile
  (`http/controller/admin/user.go:152`), and undo a change of a group or owner
  (`http/controller/admin/addressBookCollection.go:147`).
- Limiter: attempts that were let in before the last failure was recorded exceed
  the threshold, by at most one each (`GuessesBounded` is the bound); a negative
  captcha threshold, documented as off, compares below every number of attempts,
  so that every sign-in needs a captcha unless bans are off too
  (`utils/login_limiter.go:220`).
- Connection audit (not modelled): an update or a close goes to the oldest row of
  its device and connection number, whichever connection that was when numbers
  come again (`service/audit.go:87`).
- Schema: an announcement that was cleared comes back with each migration
  (`cmd/apimain.go:298`).

## Not modelled

- Settings, branding, geo-IP, uploads: one row or one file each, no property
  relates two of their states.
- The command line: what its commands change are actions of `Accounts`,
  `TwoFactor`, `Pairing` and `SchemaMigration`; reading configuration and
  printing results keeps no state.
- The web consoles: their state is rebuilt from the server's answers.
- The generated API documents (`docs/`, 12,400 lines of Go), list and detail
  pages, which only read; login, connection and file logs, whose rows are written once or
  updated by one statement; share records, device groups.
- Inside the modelled parts: passwords, secrets and tokens are ids that nobody
  guesses; certificates' contents, the validation of the agent's documents,
  formats, logging and limits on text sizes are left out.

## Plan

Written, in this order: `Presence`, `Accounts`, `OauthStates`,
`TwoFactor` with `SignIn`, `ManagedRegistry` with `Pairing` and `ManagedTable`,
`DeviceIdentity`, `AuditLedger` with `ControlOperations`, `RelayEnrollment`,
`AddressBooks`, `SchemaMigration`, `AdminScopes`, `LoginLimiter`.

Proved: the invariants of all of them.

Next:

1. Books with more than one group and the batch pages; LDAP's group
   synchronisation; the retention of logs and audit rows.
