---------------------------- MODULE DeviceIdentity ----------------------------
(* Which device a peer row is, and whose (service/peer.go and the sessions   *)
(* of service/user.go).  A device is an id and a UUID.  A sign-in of a       *)
(* native client, a report vouched for by such a session, and one vouched    *)
(* for by a Starry center each bind a row to it, in a transaction that       *)
(* looks rows up without locking them and writes one by its key.             *)
EXTENDS Naturals, FiniteSets

CONSTANTS
  Row,                        \* row ids, never used again
  DeviceID, UUID, User,
  Proc,                       \* handlers
  NoRow, NoID, NoUUID, NoUser, Absent, Gone,
  Serializable,               \* a transaction fails if what it read has changed
  MaxToken                    \* bound: see Login

VARIABLES
  peer,                       \* the peers table
  session,                    \* user_tokens that are not revoked
  op,                         \* what each handler is doing
  vouched                     \* history: who has signed in from which device,
                              \* or was given it by an administrator

vars == <<peer, session, op, vouched>>

ASSUME IdentityAssumption ==
  /\ NoRow \notin Row /\ NoID \notin DeviceID
  /\ NoUUID \notin UUID /\ NoUser \notin User
  /\ Serializable \in BOOLEAN
  /\ MaxToken \in Nat

Peer == [id : DeviceID, uuid : UUID \cup {NoUUID}, owner : User \cup {NoUser}]

ASSUME AbsentAssumption == Absent \notin Peer /\ Gone \notin Peer

\* A native client's (browsers' bind nothing); tokens count upwards.
Session == [token : Nat, user : User, id : DeviceID, uuid : UUID]

\* claim: a report that binds by its session, and has the centers to ask yet;
\* column: the one the found row lacks.
Op == [pc : {"idle", "look", "write", "claimed",
              "find", "unbind", "erase", "flush"},
       claim : BOOLEAN,
       id : DeviceID \cup {NoID}, uuid : UUID \cup {NoUUID}, user : User \cup {NoUser},
       row : Row \cup {NoRow}, column : {"uuid", "id"}]

Idle == [pc |-> "idle", claim |-> FALSE, id |-> NoID,
         uuid |-> NoUUID, user |-> NoUser, row |-> NoRow, column |-> "uuid"]

Init ==
  /\ peer = [r \in Row |-> Absent]
  /\ session = {}
  /\ op = [p \in Proc |-> Idle]
  /\ vouched = {}

-----------------------------------------------------------------------------
Present(r) == peer[r] \in Peer

WithId(i) == {r \in Row : Present(r) /\ peer[r].id = i}
WithUuid(x) == {r \in Row : Present(r) /\ peer[r].uuid = x}
Exact(i, x) == WithId(i) \cap WithUuid(x)

\* uidx_peers_id_v313
IdFree(i, r) == WithId(i) \subseteq {r}

\* Mutant: the account that signs in takes the device over.
OwnedByNobodyElse(r, u) == FALSE

OwnedByOther(r, u) == u # NoUser /\ peer[r].owner \notin {NoUser, u}

\* Mutant: only the rows of the UUID are looked at.
OtherDeviceByUuid(i, x) == FALSE

\* The id's row has a UUID of its own.
OtherDevice(i, x) == \E r \in WithId(i) : peer[r].uuid \notin {NoUUID, x}

\* ErrPeerIdentityConflict
Conflict(i, x, u) ==
  \/ Cardinality(WithUuid(x)) > 1
  \/ OtherDevice(i, x)
  \/ WithId(i) # {} /\ ~(WithUuid(x) \subseteq WithId(i))
  \/ \E r \in WithId(i) : OwnedByOther(r, u)
  \/ WithId(i) = {} /\ \E r \in WithUuid(x) : OwnedByOther(r, u)

\* The row to write, and the column it lacks: that of the id, or of the UUID.
Target(i, x) ==
  IF WithId(i) # {} THEN {<<r, "uuid">> : r \in WithId(i)}
  ELSE IF WithUuid(x) # {} THEN {<<r, "id">> : r \in WithUuid(x)}
  ELSE {<<NoRow, "uuid">>}

-----------------------------------------------------------------------------
(* Binding: BindLoginIdentity and BindRegistryIdentity, which is the same     *)
(* with a user, and keeps the owner without one.                            *)

Bind(claim, i, x, u) ==
  [Idle EXCEPT !.pc = "look", !.claim = claim, !.id = i, !.uuid = x, !.user = u]

\* A report that bound by its session looks its row up again.
AfterWrite(o) ==
  IF o.claim THEN [o EXCEPT !.pc = "claimed", !.row = NoRow, !.column = "uuid"] ELSE Idle

\* A registry binding has asked a Starry center before.
Look(p) ==
  /\ op[p].pc = "look"
  /\ ~Conflict(op[p].id, op[p].uuid, op[p].user)
  /\ \E t \in Target(op[p].id, op[p].uuid) :
       op' = [op EXCEPT ![p] = [@ EXCEPT !.pc = "write", !.row = t[1], !.column = t[2]]]
  /\ UNCHANGED <<peer, session, vouched>>

\* Mutant: the transaction's reads are not looked at again.
ReadsNotHeld(o) == TRUE

\* The transaction's reads still hold, where the database asks for that.
ReadsHold(o) ==
  Serializable => /\ ~Conflict(o.id, o.uuid, o.user)
                  /\ <<o.row, o.column>> \in Target(o.id, o.uuid)

NewOwner(o, r) == IF o.user = NoUser THEN peer[r].owner ELSE o.user

BindRow(p) ==
  LET o == op[p] IN
  /\ o.pc = "write" /\ o.row # NoRow
  /\ ReadsHold(o)
  /\ IF ~Present(o.row) THEN UNCHANGED peer
     ELSE IF o.column = "uuid"
       THEN peer' = [peer EXCEPT ![o.row] =
                       [@ EXCEPT !.uuid = o.uuid, !.owner = NewOwner(o, o.row)]]
     ELSE /\ IdFree(o.id, o.row)
          /\ peer' = [peer EXCEPT ![o.row] =
                        [@ EXCEPT !.id = o.id, !.owner = NewOwner(o, o.row)]]
  /\ op' = [op EXCEPT ![p] = AfterWrite(o)]
  /\ UNCHANGED <<session, vouched>>

CreateRow(p, r) ==
  LET o == op[p] IN
  /\ o.pc = "write" /\ o.row = NoRow
  /\ ReadsHold(o)
  /\ IdFree(o.id, r)
  /\ peer[r] = Absent
  /\ peer' = [peer EXCEPT ![r] = [id |-> o.id, uuid |-> o.uuid, owner |-> o.user]]
  /\ op' = [op EXCEPT ![p] = AfterWrite(o)]
  /\ UNCHANGED <<session, vouched>>

\* A conflict, a unique index, a serialization failure: a report whose session
\* does not bind goes on to ask the centers.
ClaimFails(p) ==
  /\ op[p].pc \in {"look", "write"}
  /\ op[p].claim
  /\ op' = [op EXCEPT ![p] = Bind(FALSE, op[p].id, op[p].uuid, op[p].user)]
  /\ UNCHANGED <<peer, session, vouched>>

-----------------------------------------------------------------------------
(* What binds: sign-ins, reports and activations                            *)

\* persistIssuedToken, for a native client; the binding follows.  Of the tokens
\* only the order matters, so one that is gone may be issued again.
Login(p, u, i, x) ==
  /\ op[p].pc = "idle"
  /\ \E n \in 1..MaxToken :
       /\ \A s \in session : s.token < n
       /\ session' = session \cup {[token |-> n, user |-> u, id |-> i, uuid |-> x]}
  /\ vouched' = vouched \cup {<<u, x>>}
  /\ op' = [op EXCEPT ![p] = Bind(FALSE, i, x, u)]
  /\ UNCHANGED peer

\* Mutant: a session for the id is enough.
ActiveUserOfId(i, x) ==
  {s.user : s \in {t \in session : t.id = i}}

\* FindActiveNativeUserID: the owner of the device's newest session.
ActiveUser(i, x) ==
  LET mine == {s \in session : s.id = i /\ s.uuid = x}
  IN {s.user : s \in {t \in mine : \A o \in mine : o.token <= t.token}}

\* ResolveReportIdentity, of a device that is not known as it reports itself.
Report(p, i, x) ==
  /\ op[p].pc = "idle"
  /\ Exact(i, x) = {}
  /\ \E u \in IF ActiveUser(i, x) = {} THEN {NoUser} ELSE ActiveUser(i, x) :
       op' = [op EXCEPT ![p] =
                IF u # NoUser /\ \A r \in WithId(i) : peer[r].uuid = NoUUID
                  THEN Bind(TRUE, i, x, u) ELSE Bind(FALSE, i, x, u)]
  /\ UNCHANGED <<peer, session, vouched>>

\* The row is read again, and is the device's or goes on to the centers.
ResolveClaim(p) ==
  LET o == op[p] IN
  /\ o.pc = "claimed"
  /\ op' = [op EXCEPT ![p] =
              IF \E r \in Exact(o.id, o.uuid) : peer[r].owner = o.user
                THEN Idle ELSE Bind(FALSE, o.id, o.uuid, o.user)]
  /\ UNCHANGED <<peer, session, vouched>>

\* PresenceStart: no session is asked for, only the center.
Activate(p, i, x) ==
  /\ op[p].pc = "idle"
  /\ op' = [op EXCEPT ![p] = Bind(FALSE, i, x, NoUser)]
  /\ UNCHANGED <<peer, session, vouched>>

-----------------------------------------------------------------------------
(* What unbinds: logout, and the deletion of accounts and of devices        *)

\* Expired or revoked.
EndSession(s) ==
  /\ session' = session \ {s}
  /\ UNCHANGED <<peer, op, vouched>>

Logout(p, s) ==
  /\ op[p].pc = "idle"
  /\ session' = session \ {s}
  /\ op' = [op EXCEPT ![p] = [Idle EXCEPT !.pc = "find", !.uuid = s.uuid, !.user = s.user]]
  /\ UNCHANGED <<peer, vouched>>

\* UuidUnbindUserId: the row is read, and then written by its key.
FindByUserIdAndUuid(p) ==
  /\ op[p].pc = "find"
  /\ \E r \in WithUuid(op[p].uuid) :
       /\ peer[r].owner = op[p].user
       /\ op' = [op EXCEPT ![p] = [Idle EXCEPT !.pc = "unbind", !.row = r]]
  /\ UNCHANGED <<peer, session, vouched>>

Unbind(p) ==
  LET r == op[p].row IN
  /\ op[p].pc = "unbind"
  /\ peer' = IF Present(r) THEN [peer EXCEPT ![r] = [@ EXCEPT !.owner = NoUser]] ELSE peer
  /\ op' = [op EXCEPT ![p] = Idle]
  /\ UNCHANGED <<session, vouched>>

\* An account is deleted with its sessions; a sign-in of it may be under way.
DeleteUser(p, u) ==
  /\ op[p].pc = "idle"
  /\ session' = {s \in session : s.user # u}
  /\ op' = [op EXCEPT ![p] = [Idle EXCEPT !.pc = "erase", !.user = u]]
  /\ UNCHANGED <<peer, vouched>>

EraseUserId(p) ==
  /\ op[p].pc = "erase"
  /\ peer' = [r \in Row |-> IF Present(r) /\ peer[r].owner = op[p].user
                            THEN [peer[r] EXCEPT !.owner = NoUser] ELSE peer[r]]
  /\ op' = [op EXCEPT ![p] = Idle]
  /\ UNCHANGED <<session, vouched>>

\* Delete and BatchDelete.
DeletePeer(p, r) ==
  /\ op[p].pc = "idle"
  /\ Present(r)
  /\ peer' = [peer EXCEPT ![r] = Gone]
  /\ op' = [op EXCEPT ![p] = IF peer[r].uuid = NoUUID THEN Idle
                             ELSE [Idle EXCEPT !.pc = "flush", !.uuid = peer[r].uuid]]
  /\ UNCHANGED <<session, vouched>>

FlushTokenByUuid(p) ==
  /\ op[p].pc = "flush"
  /\ session' = {s \in session : s.uuid # op[p].uuid}
  /\ op' = [op EXCEPT ![p] = Idle]
  /\ UNCHANGED <<peer, vouched>>

-----------------------------------------------------------------------------
(* Administrators write what they like, but an id only once.                *)

AdminCreate(r, i, x) ==
  /\ peer[r] = Absent
  /\ IdFree(i, r)
  /\ peer' = [peer EXCEPT ![r] = [id |-> i, uuid |-> x, owner |-> NoUser]]
  /\ UNCHANGED <<session, op, vouched>>

\* Empty fields are left as they are.
AdminUpdate(r, i, x) ==
  /\ Present(r)
  /\ IdFree(i, r)
  /\ peer' = [peer EXCEPT ![r] = [@ EXCEPT !.id = i, !.uuid = IF x = NoUUID THEN peer[r].uuid ELSE x]]
  /\ vouched' = IF peer[r].owner = NoUser \/ x = NoUUID THEN vouched
                ELSE vouched \cup {<<peer[r].owner, x>>}
  /\ UNCHANGED <<session, op>>

\* A conflict, an error, nothing found, no answer of a center, a crash.
Fail(p) ==
  /\ op[p].pc # "idle"
  /\ op' = [op EXCEPT ![p] = Idle]
  /\ UNCHANGED <<peer, session, vouched>>

-----------------------------------------------------------------------------
BindStep(p) ==
  \/ Look(p) \/ BindRow(p) \/ ClaimFails(p)
  \/ \E r \in Row : CreateRow(p, r)
  \/ ResolveClaim(p)
  \/ \E i \in DeviceID, x \in UUID :
       \/ \E u \in User : Login(p, u, i, x)
       \/ Report(p, i, x) \/ Activate(p, i, x)

UnbindStep(p) ==
  \/ \E s \in session : Logout(p, s)
  \/ FindByUserIdAndUuid(p) \/ Unbind(p)
  \/ \E u \in User : DeleteUser(p, u)
  \/ \E r \in Row : DeletePeer(p, r)
  \/ EraseUserId(p) \/ FlushTokenByUuid(p)
  \/ Fail(p)

AdminStep ==
  \E r \in Row, i \in DeviceID, x \in UUID \cup {NoUUID} :
    AdminCreate(r, i, x) \/ AdminUpdate(r, i, x)

Next ==
  \/ \E p \in Proc : BindStep(p) \/ UnbindStep(p)
  \/ \E s \in session : EndSession(s)
  \/ AdminStep

Spec == Init /\ [][Next]_vars

-----------------------------------------------------------------------------
TypeOK ==
  /\ peer \in [Row -> Peer \cup {Absent, Gone}]
  /\ session \subseteq Session
  /\ op \in [Proc -> Op]
  /\ vouched \subseteq User \X UUID

\* "a different profile identity must never inherit that row's inventory,
\* account ownership, or presence" (service/peer.go:177): whoever owns a device
\* has signed in from it, or was given it by an administrator, whatever
\* sign-ins, reports, logouts and deletions overlap.
OwnerSignedIn ==
  \A r \in Row : Present(r) /\ peer[r].owner # NoUser
    => <<peer[r].owner, peer[r].uuid>> \in vouched

\* "An established device ID cannot be rebound to another non-empty network
\* UUID" (docs/operations/PRESENCE-LEASE-V2.md:58), but by an administrator.
EstablishedKept ==
  [][\/ \A r \in Row, s \in Row :
          /\ Present(r) /\ peer[r].uuid # NoUUID
          /\ Present(s)' /\ peer'[s].id = peer[r].id
          => peer'[s].uuid = peer[r].uuid
     \/ AdminStep]_vars

\* "an established account owner cannot be replaced by another account"
\* (docs/operations/PRESENCE-LEASE-V2.md:59): it has to be unbound first.
OwnerKept ==
  [][\A r \in Row : Present(r) /\ Present(r)' /\ peer[r].owner # NoUser
       => peer'[r].owner \in {peer[r].owner, NoUser}]_vars

\* Binding does not make a second row of one device, which would close it to
\* every later sign-in and report (ErrPeerIdentityConflict).
OneRowPerDevice ==
  [][\/ \A r \in Row, s \in Row :
          /\ r # s /\ Present(r)' /\ Present(s)'
          /\ peer'[r].uuid # NoUUID /\ peer'[r].uuid = peer'[s].uuid
          => Present(r) /\ Present(s) /\ peer[r].uuid = peer[s].uuid
     \/ AdminStep]_vars

-----------------------------------------------------------------------------
(* The invariant the proofs rest on.                                        *)

IdsUnique ==
  \A r \in Row, s \in Row :
    Present(r) /\ Present(s) /\ peer[r].id = peer[s].id => r = s

\* What a handler binds for a user is a device the user signed in from.
Sound(o) ==
  /\ o.pc \in {"look", "write", "claimed"} =>
       /\ o.id \in DeviceID /\ o.uuid \in UUID
       /\ o.user # NoUser => <<o.user, o.uuid>> \in vouched
  /\ o.pc = "unbind" => o.row \in Row

HandlersSound == \A p \in Proc : Sound(op[p])

SessionsVouched == \A s \in session : <<s.user, s.uuid>> \in vouched

\* Where reads may be outdated, a binding of a row that was free takes it over.
OwnersVouched == Serializable => OwnerSignedIn

IdentityInv ==
  /\ TypeOK
  /\ IdsUnique
  /\ HandlersSound
  /\ SessionsVouched
  /\ OwnersVouched
=============================================================================
