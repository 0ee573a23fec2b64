------------------------ MODULE DeviceIdentityProofs ------------------------
(* Proofs about DeviceIdentity, for any number of rows, devices, accounts   *)
(* and handlers, on a database that fails a transaction whose reads changed.*)
EXTENDS DeviceIdentity, TLAPS

LEMMA IdleSound == Idle \in Op /\ Sound(Idle)
BY DEF Idle, Op, Sound

\* A step writes one handler's record; history only grows.
LEMMA HandlerStep ==
  ASSUME IdentityInv, NEW p \in Proc, NEW o \in Op, op' = [op EXCEPT ![p] = o],
         vouched \subseteq vouched', Sound(o)'
  PROVE  op' \in [Proc -> Op] /\ HandlersSound'
<1>1. op \in [Proc -> Op] /\ \A q \in Proc : Sound(op[q])
  BY DEF IdentityInv, TypeOK, HandlersSound
<1>2. op' \in [Proc -> Op]
  BY <1>1
<1>3. ASSUME NEW q \in Proc PROVE Sound(op[q])'
  <2>1. CASE q = p
    BY <1>1, <2>1 DEF Sound
  <2>2. CASE q # p
    <3>1. op'[q] = op[q] /\ Sound(op[q])
      BY <1>1, <2>2
    <3> QED
      BY <3>1 DEF Sound
  <2> QED
    BY <2>1, <2>2
<1> QED
  BY <1>2, <1>3 DEF HandlersSound

\* A step that leaves the handlers alone.
LEMMA HandlersKept ==
  ASSUME IdentityInv, op' = op, vouched \subseteq vouched'
  PROVE  op' \in [Proc -> Op] /\ HandlersSound'
BY DEF IdentityInv, TypeOK, HandlersSound, Sound

\* A step writes one row: its id is free and its owner vouched for.
LEMMA RowWritten ==
  ASSUME IdentityInv, NEW r \in Row, NEW v \in Peer, peer' = [peer EXCEPT ![r] = v],
         IdFree(v.id, r), vouched \subseteq vouched',
         Serializable /\ v.owner # NoUser => <<v.owner, v.uuid>> \in vouched'
  PROVE  peer' \in [Row -> Peer \cup {Absent, Gone}] /\ IdsUnique' /\ OwnersVouched'
<1>1. /\ peer \in [Row -> Peer \cup {Absent, Gone}] /\ IdsUnique /\ OwnersVouched
      /\ \A s \in Row : s # r => peer'[s] = peer[s]
      /\ peer'[r] = v
  BY DEF IdentityInv, TypeOK
<1>2. peer' \in [Row -> Peer \cup {Absent, Gone}]
  BY <1>1
<1>3. \A s \in Row : s # r /\ Present(s) => peer[s].id # v.id
  BY DEF IdFree, WithId
<1>4. IdsUnique'
  BY <1>1, <1>3 DEF IdsUnique, Present
<1>5. OwnersVouched'
  BY <1>1 DEF OwnersVouched, OwnerSignedIn, Present
<1> QED
  BY <1>2, <1>4, <1>5

\* Rows are left alone, are deleted or lose their owners.
LEMMA RowsLose ==
  ASSUME IdentityInv, peer' \in [Row -> Peer \cup {Absent, Gone}],
         vouched \subseteq vouched',
         \A s \in Row : Present(s)' =>
           /\ Present(s) /\ peer'[s].id = peer[s].id /\ peer'[s].uuid = peer[s].uuid
           /\ peer'[s].owner \in {peer[s].owner, NoUser}
  PROVE  IdsUnique' /\ OwnersVouched'
<1>1. IdsUnique /\ OwnersVouched
  BY DEF IdentityInv
<1>2. IdsUnique'
  BY <1>1 DEF IdsUnique
<1>3. OwnersVouched'
  BY <1>1 DEF OwnersVouched, OwnerSignedIn
<1> QED
  BY <1>2, <1>3

LEMMA RowsKept ==
  ASSUME IdentityInv, peer' = peer, vouched \subseteq vouched'
  PROVE  peer' \in [Row -> Peer \cup {Absent, Gone}] /\ IdsUnique' /\ OwnersVouched'
BY DEF IdentityInv, TypeOK, IdsUnique, OwnersVouched, OwnerSignedIn, Present

\* Sessions end and nobody is vouched for.
LEMMA SessionsFewer ==
  ASSUME IdentityInv, session' \subseteq session, vouched' = vouched
  PROVE  /\ session' \subseteq Session /\ SessionsVouched'
         /\ vouched' \subseteq User \X UUID
BY DEF IdentityInv, TypeOK, SessionsVouched

\* A handler goes on, and rows stay.
LEMMA QuietStep ==
  ASSUME IdentityInv, NEW p \in Proc, NEW o \in Op, op' = [op EXCEPT ![p] = o], Sound(o)',
         peer' = peer, session' \subseteq session, vouched' = vouched
  PROVE  IdentityInv'
<1>1. op' \in [Proc -> Op] /\ HandlersSound'
  BY HandlerStep
<1>2. peer' \in [Row -> Peer \cup {Absent, Gone}] /\ IdsUnique' /\ OwnersVouched'
  BY RowsKept
<1>3. session' \subseteq Session /\ SessionsVouched' /\ vouched' \subseteq User \X UUID
  BY SessionsFewer
<1> QED
  BY <1>1, <1>2, <1>3 DEF IdentityInv, TypeOK

LEMMA InitInv == Init => IdentityInv
<1> SUFFICES ASSUME Init PROVE IdentityInv
  OBVIOUS
<1>1. \A r \in Row : ~Present(r)
  BY AbsentAssumption DEF Init, Present
<1>2. TypeOK
  BY IdleSound DEF Init, TypeOK
<1>3. HandlersSound
  BY IdleSound DEF Init, HandlersSound
<1>4. SessionsVouched
  BY DEF Init, SessionsVouched
<1> QED
  BY <1>1, <1>2, <1>3, <1>4 DEF IdentityInv, IdsUnique, OwnersVouched, OwnerSignedIn

-----------------------------------------------------------------------------
\* The record of a handler that binds.
LEMMA BindSound ==
  ASSUME NEW claim \in BOOLEAN, NEW i \in DeviceID, NEW x \in UUID, NEW u \in User \cup {NoUser}
  PROVE  Bind(claim, i, x, u) \in Op
BY DEF Bind, Idle, Op

\* What Target gives is a row of the table, or none, and a column.
LEMMA TargetType ==
  ASSUME NEW i, NEW x, NEW t \in Target(i, x)
  PROVE  /\ t = <<t[1], t[2]>> /\ t[1] \in Row \cup {NoRow} /\ t[2] \in {"uuid", "id"}
         /\ t[1] # NoRow => Present(t[1])
<1>1. CASE WithId(i) # {}
  BY <1>1 DEF Target, WithId
<1>2. CASE WithId(i) = {} /\ WithUuid(x) # {}
  BY <1>2 DEF Target, WithUuid
<1>3. CASE WithId(i) = {} /\ WithUuid(x) = {}
  BY <1>3 DEF Target
<1> QED
  BY <1>1, <1>2, <1>3

LEMMA LookInv ==
  ASSUME IdentityInv, NEW p \in Proc, Look(p)
  PROVE  IdentityInv'
<1>1. op[p] \in Op /\ Sound(op[p])
  BY DEF IdentityInv, TypeOK, HandlersSound
<1>2. PICK t \in Target(op[p].id, op[p].uuid) :
        op' = [op EXCEPT ![p] = [@ EXCEPT !.pc = "write", !.row = t[1], !.column = t[2]]]
  BY DEF Look
<1>3. t[1] \in Row \cup {NoRow} /\ t[2] \in {"uuid", "id"}
  BY TargetType
<1>4. PICK o \in Op : o = [op[p] EXCEPT !.pc = "write", !.row = t[1], !.column = t[2]]
  BY <1>1, <1>3 DEF Op
<1>5. /\ op' = [op EXCEPT ![p] = o]
      /\ o.pc = "write" /\ o.id = op[p].id /\ o.uuid = op[p].uuid /\ o.user = op[p].user
  <2>1. op' = [op EXCEPT ![p] = o]
    BY <1>2, <1>4
  <2>2. o.pc = "write" /\ o.id = op[p].id /\ o.uuid = op[p].uuid /\ o.user = op[p].user
    BY <1>1, <1>4 DEF Op
  <2> QED
    BY <2>1, <2>2
<1>6. vouched' = vouched /\ peer' = peer /\ session' = session /\ op[p].pc = "look"
  BY DEF Look
<1>7. Sound(o)'
  BY <1>1, <1>5, <1>6 DEF Sound
<1> QED
  BY <1>5, <1>6, <1>7, QuietStep

\* A handler that was bound for a user, or for nobody, may bind again.
LEMMA BindAgain ==
  ASSUME IdentityInv, NEW p \in Proc, op[p].pc \in {"look", "write", "claimed"},
         op' = [op EXCEPT ![p] = Bind(FALSE, op[p].id, op[p].uuid, op[p].user)],
         UNCHANGED <<peer, session, vouched>>
  PROVE  IdentityInv'
<1>1. op[p] \in Op /\ Sound(op[p])
  BY DEF IdentityInv, TypeOK, HandlersSound
<1>2. op[p].id \in DeviceID /\ op[p].uuid \in UUID /\ op[p].user \in User \cup {NoUser}
  BY <1>1 DEF Sound, Op
<1>3. PICK o \in Op : o = Bind(FALSE, op[p].id, op[p].uuid, op[p].user)
  BY <1>2, BindSound
<1>4. o.pc = "look" /\ o.id = op[p].id /\ o.uuid = op[p].uuid /\ o.user = op[p].user
  BY <1>3 DEF Bind, Idle
<1>5. Sound(o)'
  BY <1>1, <1>2, <1>4 DEF Sound
<1>6. op' = [op EXCEPT ![p] = o]
  BY <1>3
<1> QED
  BY <1>5, <1>6, QuietStep

\* A handler is done.
LEMMA HandlerDone ==
  ASSUME IdentityInv, NEW p \in Proc, op' = [op EXCEPT ![p] = Idle],
         peer' = peer, session' \subseteq session, vouched' = vouched
  PROVE  IdentityInv'
<1>1. Idle \in Op /\ Sound(Idle)'
  BY IdleSound DEF Sound, Idle
<1> QED
  BY <1>1, QuietStep

\* Records of handlers that unbind.
LEMMA UnbindSound ==
  ASSUME NEW pc \in {"find", "unbind", "erase", "flush"}, NEW x \in UUID \cup {NoUUID},
         NEW u \in User \cup {NoUser}, NEW r \in Row \cup {NoRow}, pc = "unbind" => r \in Row
  PROVE  LET o == [Idle EXCEPT !.pc = pc, !.uuid = x, !.user = u, !.row = r]
         IN o \in Op /\ Sound(o)'
BY DEF Idle, Op, Sound

LEMMA ReportInv ==
  ASSUME IdentityInv, NEW p \in Proc, NEW i \in DeviceID, NEW x \in UUID, Report(p, i, x)
  PROVE  IdentityInv'
<1>1. PICK u \in IF ActiveUser(i, x) = {} THEN {NoUser} ELSE ActiveUser(i, x) :
        op' = [op EXCEPT ![p] =
                 IF u # NoUser /\ \A r \in WithId(i) : peer[r].uuid = NoUUID
                   THEN Bind(TRUE, i, x, u) ELSE Bind(FALSE, i, x, u)]
  BY DEF Report
<1>2. u \in User \cup {NoUser} /\ (u # NoUser => <<u, x>> \in vouched)
  <2>1. \A s \in session : s.user \in User /\ <<s.user, s.uuid>> \in vouched
    BY DEF IdentityInv, TypeOK, SessionsVouched, Session
  <2> QED
    BY <1>1, <2>1 DEF ActiveUser
<1>3. PICK claim \in BOOLEAN : op' = [op EXCEPT ![p] = Bind(claim, i, x, u)]
  BY <1>1
<1>4. PICK o \in Op : o = Bind(claim, i, x, u)
  BY <1>2, BindSound
<1>5. o.pc = "look" /\ o.id = i /\ o.uuid = x /\ o.user = u
  BY <1>4 DEF Bind, Idle
<1>6. UNCHANGED <<peer, session, vouched>>
  BY DEF Report
<1>7. Sound(o)'
  BY <1>2, <1>5, <1>6 DEF Sound
<1>8. op' = [op EXCEPT ![p] = o]
  BY <1>3, <1>4
<1> QED
  BY <1>6, <1>7, <1>8, QuietStep

LEMMA ActivateInv ==
  ASSUME IdentityInv, NEW p \in Proc, NEW i \in DeviceID, NEW x \in UUID, Activate(p, i, x)
  PROVE  IdentityInv'
<1>1. PICK o \in Op : o = Bind(FALSE, i, x, NoUser)
  BY BindSound
<1>2. o.pc = "look" /\ o.id = i /\ o.uuid = x /\ o.user = NoUser
  BY <1>1 DEF Bind, Idle
<1>3. op' = [op EXCEPT ![p] = o] /\ UNCHANGED <<peer, session, vouched>>
  BY <1>1 DEF Activate
<1>4. Sound(o)'
  BY <1>2 DEF Sound
<1> QED
  BY <1>3, <1>4, QuietStep

LEMMA ResolveClaimInv ==
  ASSUME IdentityInv, NEW p \in Proc, ResolveClaim(p)
  PROVE  IdentityInv'
<1>1. CASE op' = [op EXCEPT ![p] = Idle]
  BY <1>1, HandlerDone DEF ResolveClaim
<1>2. CASE op' = [op EXCEPT ![p] = Bind(FALSE, op[p].id, op[p].uuid, op[p].user)]
  BY <1>2, BindAgain DEF ResolveClaim
<1> QED
  BY <1>1, <1>2 DEF ResolveClaim

LEMMA ClaimFailsInv ==
  ASSUME IdentityInv, NEW p \in Proc, ClaimFails(p)
  PROVE  IdentityInv'
BY BindAgain DEF ClaimFails

LEMMA LoginInv ==
  ASSUME IdentityInv, NEW p \in Proc, NEW u \in User, NEW i \in DeviceID, NEW x \in UUID,
         Login(p, u, i, x)
  PROVE  IdentityInv'
<1>1. PICK o \in Op : o = Bind(FALSE, i, x, u)
  BY BindSound
<1>2. o.pc = "look" /\ o.id = i /\ o.uuid = x /\ o.user = u
  BY <1>1 DEF Bind, Idle
<1>3. PICK n \in 1..MaxToken :
        session' = session \cup {[token |-> n, user |-> u, id |-> i, uuid |-> x]}
  BY DEF Login
<1>4. /\ op' = [op EXCEPT ![p] = o] /\ peer' = peer
      /\ vouched' = vouched \cup {<<u, x>>} /\ vouched \subseteq vouched'
  BY <1>1 DEF Login
<1>5. Sound(o)'
  BY <1>2, <1>4 DEF Sound
<1>6. op' \in [Proc -> Op] /\ HandlersSound'
  BY <1>4, <1>5, HandlerStep
<1>7. peer' \in [Row -> Peer \cup {Absent, Gone}] /\ IdsUnique' /\ OwnersVouched'
  BY <1>4, RowsKept
<1>8. n \in Nat
  BY IdentityAssumption
<1>9. session \subseteq Session /\ vouched \subseteq User \X UUID /\ SessionsVouched
  BY DEF IdentityInv, TypeOK
<1>10. [token |-> n, user |-> u, id |-> i, uuid |-> x] \in Session
  BY <1>8 DEF Session
<1>11. session' \subseteq Session /\ vouched' \subseteq User \X UUID
  BY <1>3, <1>4, <1>9, <1>10
<1>12. \A s \in session' : <<s.user, s.uuid>> \in vouched'
  <2>1. \A s \in session : <<s.user, s.uuid>> \in vouched'
    BY <1>4, <1>9 DEF SessionsVouched
  <2>2. PICK new \in Session : new = [token |-> n, user |-> u, id |-> i, uuid |-> x]
    BY <1>10
  <2>3. new.user = u /\ new.uuid = x
    BY <2>2
  <2>4. session' = session \cup {new}
    BY <1>3, <2>2
  <2> QED
    BY <1>4, <2>1, <2>3, <2>4
<1> QED
  BY <1>6, <1>7, <1>11, <1>12 DEF IdentityInv, TypeOK, SessionsVouched

-----------------------------------------------------------------------------
\* What holds of the row that is about to be written, if the reads hold.
LEMMA FoundRow ==
  ASSUME Serializable, IdentityInv, NEW o \in Op, o.row # NoRow, ReadsHold(o)
  PROVE  /\ o.row \in Row /\ Present(o.row)
         /\ o.user # NoUser => peer[o.row].owner \in {NoUser, o.user}
         /\ o.column = "uuid" =>
              /\ peer[o.row].id = o.id /\ peer[o.row].uuid \in {NoUUID, o.uuid}
              /\ \A r \in Row : Present(r) /\ peer[r].uuid = o.uuid => r = o.row
         /\ o.column # "uuid" => WithId(o.id) = {} /\ peer[o.row].uuid = o.uuid
<1>1. ~Conflict(o.id, o.uuid, o.user) /\ <<o.row, o.column>> \in Target(o.id, o.uuid)
  BY DEF ReadsHold
<1>2. IdsUnique
  BY DEF IdentityInv
<1>3. CASE WithId(o.id) # {}
  <2>1. o.column = "uuid" /\ o.row \in WithId(o.id)
    BY <1>1, <1>3 DEF Target
  <2>2. o.row \in Row /\ Present(o.row) /\ peer[o.row].id = o.id
    BY <2>1 DEF WithId
  <2>3. WithId(o.id) = {o.row}
    BY <1>2, <2>2 DEF WithId, IdsUnique
  <2>4. /\ peer[o.row].uuid \in {NoUUID, o.uuid}
        /\ o.user # NoUser => peer[o.row].owner \in {NoUser, o.user}
        /\ WithUuid(o.uuid) \subseteq {o.row}
    BY <1>1, <1>3, <2>3 DEF Conflict, OtherDevice, OwnedByOther
  <2> QED
    BY <2>1, <2>2, <2>4 DEF WithUuid
<1>4. CASE WithId(o.id) = {}
  <2>1. o.column = "id" /\ o.row \in WithUuid(o.uuid)
    BY <1>1, <1>4 DEF Target
  <2>2. o.user # NoUser => peer[o.row].owner \in {NoUser, o.user}
    BY <1>1, <1>4, <2>1 DEF Conflict, OwnedByOther
  <2> QED
    BY <1>4, <2>1, <2>2 DEF WithUuid
<1> QED
  BY <1>3, <1>4

LEMMA AfterWriteSound ==
  ASSUME NEW o \in Op, o.pc = "write", Sound(o), vouched' = vouched
  PROVE  \E n \in Op : n = AfterWrite(o) /\ Sound(n)'
<1>1. CASE o.claim
  <2>1. PICK n \in Op : n = [o EXCEPT !.pc = "claimed", !.row = NoRow, !.column = "uuid"]
    BY DEF Op
  <2>2. n.pc = "claimed" /\ n.id = o.id /\ n.uuid = o.uuid /\ n.user = o.user
    BY <2>1 DEF Op
  <2>3. Sound(n)'
    BY <2>2 DEF Sound
  <2> QED
    BY <1>1, <2>1, <2>3 DEF AfterWrite
<1>2. CASE ~o.claim
  <2>1. Idle \in Op /\ Sound(Idle)'
    BY IdleSound DEF Sound, Idle
  <2> QED
    BY <1>2, <2>1 DEF AfterWrite
<1> QED
  BY <1>1, <1>2

LEMMA BindRowInv ==
  ASSUME IdentityInv, NEW p \in Proc, BindRow(p)
  PROVE  IdentityInv'
<1>1. PICK o \in Op : o = op[p]
  BY DEF IdentityInv, TypeOK
<1>2. /\ o.pc = "write" /\ o.row # NoRow /\ ReadsHold(o) /\ Sound(o)
      /\ op' = [op EXCEPT ![p] = AfterWrite(o)]
      /\ session' = session /\ vouched' = vouched
  BY <1>1 DEF BindRow, IdentityInv, HandlersSound
<1>3. o.row \in Row
  BY <1>2 DEF Op
<1>4. Serializable =>
        /\ o.user # NoUser => peer[o.row].owner \in {NoUser, o.user}
        /\ o.column = "uuid" => peer[o.row].uuid \in {NoUUID, o.uuid}
        /\ o.column # "uuid" => peer[o.row].uuid = o.uuid
  BY <1>2, FoundRow
<1>5. o.id \in DeviceID /\ o.uuid \in UUID /\ (o.user # NoUser => <<o.user, o.uuid>> \in vouched)
  BY <1>2 DEF Sound
<1>6. ASSUME ~Present(o.row)
      PROVE  peer' \in [Row -> Peer \cup {Absent, Gone}] /\ IdsUnique' /\ OwnersVouched'
  <2>1. peer' = peer /\ vouched \subseteq vouched'
    BY <1>1, <1>2, <1>6 DEF BindRow
  <2> QED
    BY <2>1, RowsKept
<1>7. ASSUME Present(o.row)
      PROVE  peer' \in [Row -> Peer \cup {Absent, Gone}] /\ IdsUnique' /\ OwnersVouched'
  <2>1. PICK was \in Peer : was = peer[o.row]
    BY <1>7 DEF Present
  <2>2. PICK owner \in User \cup {NoUser} : owner = NewOwner(o, o.row)
    BY <2>1 DEF NewOwner, Op, Peer
  <2>3. Serializable /\ was.owner # NoUser => <<was.owner, was.uuid>> \in vouched
    BY <1>3, <1>7, <2>1 DEF IdentityInv, OwnersVouched, OwnerSignedIn
  <2>4. Serializable /\ was.owner # NoUser => was.uuid # NoUUID
    BY <2>3, IdentityAssumption DEF IdentityInv, TypeOK
  <2>5. Serializable /\ owner # NoUser => <<owner, o.uuid>> \in vouched
    BY <1>4, <1>5, <2>1, <2>2, <2>3, <2>4 DEF NewOwner
  <2>6. PICK v \in Peer : /\ peer' = [peer EXCEPT ![o.row] = v]
                          /\ IdFree(v.id, o.row) /\ v.owner = owner
                          /\ Serializable => v.uuid = o.uuid
    <3>1. CASE o.column = "uuid"
      <4>1. PICK v \in Peer : v = [was EXCEPT !.uuid = o.uuid, !.owner = owner]
        BY <1>5 DEF Peer
      <4>2. v.id = was.id /\ v.owner = owner /\ v.uuid = o.uuid
        BY <4>1 DEF Peer
      <4>3. peer' = [peer EXCEPT ![o.row] = v]
        BY <1>1, <1>7, <2>1, <2>2, <3>1, <4>1 DEF BindRow
      <4>4. IdFree(was.id, o.row)
        BY <1>3, <1>7, <2>1 DEF IdFree, WithId, IdentityInv, IdsUnique
      <4> QED
        BY <4>2, <4>3, <4>4
    <3>2. CASE o.column # "uuid"
      <4>1. PICK v \in Peer : v = [was EXCEPT !.id = o.id, !.owner = owner]
        BY <1>5 DEF Peer
      <4>2. v.id = o.id /\ v.owner = owner /\ v.uuid = was.uuid
        BY <4>1 DEF Peer
      <4>3. peer' = [peer EXCEPT ![o.row] = v] /\ IdFree(o.id, o.row)
        BY <1>1, <1>7, <2>1, <2>2, <3>2, <4>1 DEF BindRow
      <4> QED
        BY <1>4, <2>1, <3>2, <4>2, <4>3
    <3> QED
      BY <3>1, <3>2
  <2>7. Serializable /\ v.owner # NoUser => <<v.owner, v.uuid>> \in vouched'
    BY <1>2, <2>5, <2>6
  <2> QED
    BY <1>2, <1>3, <2>6, <2>7, RowWritten
<1>8. peer' \in [Row -> Peer \cup {Absent, Gone}] /\ IdsUnique' /\ OwnersVouched'
  BY <1>6, <1>7
<1>9. op' \in [Proc -> Op] /\ HandlersSound'
  <2>1. PICK n \in Op : n = AfterWrite(o) /\ Sound(n)'
    BY <1>2, AfterWriteSound
  <2>2. op' = [op EXCEPT ![p] = n] /\ vouched \subseteq vouched'
    BY <1>2, <2>1
  <2> QED
    BY <2>1, <2>2, HandlerStep
<1> QED
  BY <1>2, <1>8, <1>9, SessionsFewer DEF IdentityInv, TypeOK

LEMMA CreateRowInv ==
  ASSUME IdentityInv, NEW p \in Proc, NEW r \in Row, CreateRow(p, r)
  PROVE  IdentityInv'
<1>1. PICK o \in Op : o = op[p]
  BY DEF IdentityInv, TypeOK
<1>2. /\ o.pc = "write" /\ Sound(o) /\ IdFree(o.id, r)
      /\ peer' = [peer EXCEPT ![r] = [id |-> o.id, uuid |-> o.uuid, owner |-> o.user]]
      /\ op' = [op EXCEPT ![p] = AfterWrite(o)]
      /\ session' = session /\ vouched' = vouched
  BY <1>1 DEF CreateRow, IdentityInv, HandlersSound
<1>3. o.id \in DeviceID /\ o.uuid \in UUID /\ (o.user # NoUser => <<o.user, o.uuid>> \in vouched)
  BY <1>2 DEF Sound
<1>4. PICK v \in Peer : v = [id |-> o.id, uuid |-> o.uuid, owner |-> o.user]
  BY <1>3 DEF Peer, Op
<1>5. v.id = o.id /\ v.uuid = o.uuid /\ v.owner = o.user
  BY <1>4
<1>6. peer' \in [Row -> Peer \cup {Absent, Gone}] /\ IdsUnique' /\ OwnersVouched'
  <2>1. v.owner # NoUser => <<v.owner, v.uuid>> \in vouched'
    BY <1>2, <1>3, <1>5
  <2>2. peer' = [peer EXCEPT ![r] = v] /\ IdFree(v.id, r) /\ vouched \subseteq vouched'
    BY <1>2, <1>4, <1>5
  <2> QED
    BY <2>1, <2>2, RowWritten
<1>7. op' \in [Proc -> Op] /\ HandlersSound'
  <2>1. PICK n \in Op : n = AfterWrite(o) /\ Sound(n)'
    BY <1>2, AfterWriteSound
  <2>2. op' = [op EXCEPT ![p] = n] /\ vouched \subseteq vouched'
    BY <1>2, <2>1
  <2> QED
    BY <2>1, <2>2, HandlerStep
<1> QED
  BY <1>2, <1>6, <1>7, SessionsFewer DEF IdentityInv, TypeOK

-----------------------------------------------------------------------------
\* A handler, or nobody, takes owners or rows away.
LEMMA LoseStep ==
  ASSUME IdentityInv, peer' \in [Row -> Peer \cup {Absent, Gone}],
         op' \in [Proc -> Op] /\ HandlersSound',
         \A s \in Row : Present(s)' =>
           /\ Present(s) /\ peer'[s].id = peer[s].id /\ peer'[s].uuid = peer[s].uuid
           /\ peer'[s].owner \in {peer[s].owner, NoUser},
         session' = session, vouched' = vouched
  PROVE  IdentityInv'
<1>1. IdsUnique' /\ OwnersVouched'
  BY RowsLose
<1>2. session' \subseteq Session /\ SessionsVouched' /\ vouched' \subseteq User \X UUID
  BY SessionsFewer
<1> QED
  BY <1>1, <1>2 DEF IdentityInv, TypeOK

\* A row without its owner.
LEMMA Unowned ==
  ASSUME IdentityInv, NEW s \in Row, Present(s)
  PROVE  \E v \in Peer : /\ v = [peer[s] EXCEPT !.owner = NoUser] /\ v.owner = NoUser
                         /\ v.id = peer[s].id /\ v.uuid = peer[s].uuid
<1>1. PICK was \in Peer : was = peer[s]
  BY DEF Present
<1>2. PICK v \in Peer : v = [was EXCEPT !.owner = NoUser]
  BY DEF Peer
<1>3. v.owner = NoUser /\ v.id = was.id /\ v.uuid = was.uuid
  BY <1>2 DEF Peer
<1> QED
  BY <1>1, <1>2, <1>3

LEMMA UnbindInv ==
  ASSUME IdentityInv, NEW p \in Proc, Unbind(p)
  PROVE  IdentityInv'
<1>1. PICK r \in Row : r = op[p].row
  BY DEF Unbind, IdentityInv, HandlersSound, Sound
<1>2. CASE ~Present(r)
  BY <1>1, <1>2, HandlerDone DEF Unbind
<1>3. CASE Present(r)
  <2>1. PICK v \in Peer : /\ v = [peer[r] EXCEPT !.owner = NoUser] /\ v.owner = NoUser
                          /\ v.id = peer[r].id /\ v.uuid = peer[r].uuid
    BY <1>3, Unowned
  <2>2. /\ peer' = [peer EXCEPT ![r] = v] /\ op' = [op EXCEPT ![p] = Idle]
        /\ session' = session /\ vouched' = vouched
    BY <1>1, <1>3, <2>1 DEF Unbind
  <2>3. op' \in [Proc -> Op] /\ HandlersSound'
    <3>1. Idle \in Op /\ Sound(Idle)'
      BY IdleSound DEF Sound, Idle
    <3> QED
      BY <2>2, <3>1, HandlerStep
  <2>4. peer \in [Row -> Peer \cup {Absent, Gone}]
    BY DEF IdentityInv, TypeOK
  <2>5. peer' \in [Row -> Peer \cup {Absent, Gone}]
    BY <2>2, <2>4
  <2>6. ASSUME NEW s \in Row, Present(s)'
        PROVE  /\ Present(s) /\ peer'[s].id = peer[s].id /\ peer'[s].uuid = peer[s].uuid
               /\ peer'[s].owner \in {peer[s].owner, NoUser}
    <3>1. CASE s = r
      BY <1>3, <2>1, <2>2, <2>4, <3>1
    <3>2. CASE s # r
      BY <2>2, <2>4, <2>6, <3>2 DEF Present
    <3> QED
      BY <3>1, <3>2
  <2> QED
    BY <2>2, <2>3, <2>5, <2>6, LoseStep
<1> QED
  BY <1>2, <1>3

LEMMA EraseUserIdInv ==
  ASSUME IdentityInv, NEW p \in Proc, EraseUserId(p)
  PROVE  IdentityInv'
<1>1. peer \in [Row -> Peer \cup {Absent, Gone}]
  BY DEF IdentityInv, TypeOK
<1>2. /\ peer' = [r \in Row |-> IF Present(r) /\ peer[r].owner = op[p].user
                               THEN [peer[r] EXCEPT !.owner = NoUser] ELSE peer[r]]
      /\ op' = [op EXCEPT ![p] = Idle] /\ session' = session /\ vouched' = vouched
  BY DEF EraseUserId
<1>3. ASSUME NEW s \in Row
      PROVE  /\ peer'[s] \in Peer \cup {Absent, Gone}
             /\ Present(s)' =>
                  /\ Present(s) /\ peer'[s].id = peer[s].id /\ peer'[s].uuid = peer[s].uuid
                  /\ peer'[s].owner \in {peer[s].owner, NoUser}
  <2>1. CASE Present(s) /\ peer[s].owner = op[p].user
    <3>1. PICK v \in Peer : /\ v = [peer[s] EXCEPT !.owner = NoUser] /\ v.owner = NoUser
                            /\ v.id = peer[s].id /\ v.uuid = peer[s].uuid
      BY <2>1, Unowned
    <3>2. peer'[s] = v
      BY <1>2, <2>1, <3>1
    <3> QED
      BY <2>1, <3>1, <3>2
  <2>2. CASE ~(Present(s) /\ peer[s].owner = op[p].user)
    <3>1. peer'[s] = peer[s]
      BY <1>2, <2>2
    <3> QED
      BY <1>1, <3>1 DEF Present
  <2> QED
    BY <2>1, <2>2
<1>4. peer' \in [Row -> Peer \cup {Absent, Gone}]
  BY <1>2, <1>3
<1>5. op' \in [Proc -> Op] /\ HandlersSound'
  <2>1. Idle \in Op /\ Sound(Idle)'
    BY IdleSound DEF Sound, Idle
  <2> QED
    BY <1>2, <2>1, HandlerStep
<1> QED
  BY <1>2, <1>3, <1>4, <1>5, LoseStep

LEMMA DeletePeerInv ==
  ASSUME IdentityInv, NEW p \in Proc, NEW r \in Row, DeletePeer(p, r)
  PROVE  IdentityInv'
<1>1. /\ peer \in [Row -> Peer \cup {Absent, Gone}]
      /\ peer' = [peer EXCEPT ![r] = Gone] /\ Present(r)
      /\ session' = session /\ vouched' = vouched
  BY DEF DeletePeer, IdentityInv, TypeOK
<1>2. peer' \in [Row -> Peer \cup {Absent, Gone}]
  BY <1>1
<1>3. \A s \in Row : Present(s)' => Present(s) /\ peer'[s] = peer[s]
  BY <1>1, AbsentAssumption DEF Present
<1>4. PICK o \in Op : op' = [op EXCEPT ![p] = o] /\ Sound(o)'
  <2>1. CASE peer[r].uuid = NoUUID
    <3>1. Idle \in Op /\ Sound(Idle)'
      BY IdleSound DEF Sound, Idle
    <3> QED
      BY <2>1, <3>1 DEF DeletePeer
  <2>2. CASE peer[r].uuid # NoUUID
    <3>1. PICK x \in UUID \cup {NoUUID} : x = peer[r].uuid
      BY <1>1 DEF Present, Peer
    <3>2. PICK o \in Op : o = [Idle EXCEPT !.pc = "flush", !.uuid = x]
      BY DEF Idle, Op
    <3>3. Sound(o)'
      BY <3>2 DEF Sound, Idle
    <3> QED
      BY <2>2, <3>1, <3>2, <3>3 DEF DeletePeer
  <2> QED
    BY <2>1, <2>2
<1>5. op' \in [Proc -> Op] /\ HandlersSound'
  BY <1>1, <1>4, HandlerStep
<1> QED
  BY <1>1, <1>2, <1>3, <1>5, LoseStep

LEMMA LogoutInv ==
  ASSUME IdentityInv, NEW p \in Proc, NEW s \in session, Logout(p, s)
  PROVE  IdentityInv'
<1>1. PICK t \in Session : t = s
  BY DEF IdentityInv, TypeOK
<1>2. PICK o \in Op : o = [Idle EXCEPT !.pc = "find", !.uuid = t.uuid, !.user = t.user]
  BY DEF Idle, Op, Session
<1>3. Sound(o)'
  BY <1>2 DEF Sound, Idle
<1>4. /\ op' = [op EXCEPT ![p] = o] /\ session' \subseteq session
      /\ peer' = peer /\ vouched' = vouched
  BY <1>1, <1>2 DEF Logout
<1> QED
  BY <1>3, <1>4, QuietStep

LEMMA FindInv ==
  ASSUME IdentityInv, NEW p \in Proc, FindByUserIdAndUuid(p)
  PROVE  IdentityInv'
<1>1. PICK r \in Row : op' = [op EXCEPT ![p] = [Idle EXCEPT !.pc = "unbind", !.row = r]]
  BY DEF FindByUserIdAndUuid, WithUuid
<1>2. PICK o \in Op : o = [Idle EXCEPT !.pc = "unbind", !.row = r]
  BY DEF Idle, Op
<1>3. Sound(o)'
  BY <1>2 DEF Sound, Idle
<1>4. op' = [op EXCEPT ![p] = o] /\ UNCHANGED <<peer, session, vouched>>
  BY <1>1, <1>2 DEF FindByUserIdAndUuid
<1> QED
  BY <1>3, <1>4, QuietStep

LEMMA DeleteUserInv ==
  ASSUME IdentityInv, NEW p \in Proc, NEW u \in User, DeleteUser(p, u)
  PROVE  IdentityInv'
<1>1. PICK o \in Op : o = [Idle EXCEPT !.pc = "erase", !.user = u]
  BY DEF Idle, Op
<1>2. Sound(o)'
  BY <1>1 DEF Sound, Idle
<1>3. /\ op' = [op EXCEPT ![p] = o] /\ session' \subseteq session
      /\ peer' = peer /\ vouched' = vouched
  BY <1>1 DEF DeleteUser
<1> QED
  BY <1>2, <1>3, QuietStep

LEMMA EndSessionInv ==
  ASSUME IdentityInv, NEW s \in session, EndSession(s)
  PROVE  IdentityInv'
<1>1. peer' = peer /\ op' = op /\ vouched' = vouched /\ session' \subseteq session
  BY DEF EndSession
<1> QED
  BY <1>1, HandlersKept, RowsKept, SessionsFewer DEF IdentityInv, TypeOK

LEMMA AdminCreateInv ==
  ASSUME IdentityInv, NEW r \in Row, NEW i \in DeviceID, NEW x \in UUID \cup {NoUUID},
         AdminCreate(r, i, x)
  PROVE  IdentityInv'
<1>1. PICK v \in Peer : v = [id |-> i, uuid |-> x, owner |-> NoUser]
  BY DEF Peer
<1>2. v.id = i /\ v.owner = NoUser
  BY <1>1
<1>3. /\ peer' = [peer EXCEPT ![r] = v] /\ IdFree(v.id, r)
      /\ session' = session /\ op' = op /\ vouched' = vouched
  BY <1>1, <1>2 DEF AdminCreate
<1>4. peer' \in [Row -> Peer \cup {Absent, Gone}] /\ IdsUnique' /\ OwnersVouched'
  BY <1>2, <1>3, RowWritten
<1> QED
  BY <1>3, <1>4, HandlersKept, SessionsFewer DEF IdentityInv, TypeOK

LEMMA AdminUpdateInv ==
  ASSUME IdentityInv, NEW r \in Row, NEW i \in DeviceID, NEW x \in UUID \cup {NoUUID},
         AdminUpdate(r, i, x)
  PROVE  IdentityInv'
<1>1. PICK was \in Peer : was = peer[r]
  BY DEF AdminUpdate, Present
<1>2. PICK v \in Peer : v = [was EXCEPT !.id = i, !.uuid = IF x = NoUUID THEN was.uuid ELSE x]
  BY DEF Peer
<1>3. /\ v.id = i /\ v.owner = was.owner
      /\ v.uuid = IF x = NoUUID THEN was.uuid ELSE x
  BY <1>2 DEF Peer
<1>4. /\ peer' = [peer EXCEPT ![r] = v] /\ IdFree(v.id, r)
      /\ session' = session /\ op' = op
  <2>1. peer' = [peer EXCEPT ![r] = v]
    <3>1. peer' = [peer EXCEPT ![r] =
                     [peer[r] EXCEPT !.id = i, !.uuid = IF x = NoUUID THEN peer[r].uuid ELSE x]]
      BY DEF AdminUpdate
    <3> QED
      BY <1>1, <1>2, <3>1
  <2> QED
    BY <1>3, <2>1 DEF AdminUpdate
<1>5. vouched' = IF was.owner = NoUser \/ x = NoUUID THEN vouched
                 ELSE vouched \cup {<<was.owner, x>>}
  BY <1>1 DEF AdminUpdate
<1>6. Serializable /\ was.owner # NoUser => <<was.owner, was.uuid>> \in vouched
  BY <1>1 DEF AdminUpdate, IdentityInv, OwnersVouched, OwnerSignedIn
<1>7. Serializable /\ v.owner # NoUser => <<v.owner, v.uuid>> \in vouched'
  BY <1>3, <1>5, <1>6
<1>8. vouched \subseteq vouched'
  BY <1>5
<1>9. peer' \in [Row -> Peer \cup {Absent, Gone}] /\ IdsUnique' /\ OwnersVouched'
  BY <1>4, <1>7, <1>8, RowWritten
<1>10. op' \in [Proc -> Op] /\ HandlersSound'
  BY <1>4, <1>8, HandlersKept
<1>11. was.owner \in User \cup {NoUser}
  BY DEF Peer
<1>12. vouched' \subseteq User \X UUID
  BY <1>5, <1>11 DEF IdentityInv, TypeOK
<1>13. SessionsVouched'
  BY <1>4, <1>8 DEF IdentityInv, SessionsVouched
<1> QED
  BY <1>4, <1>9, <1>10, <1>12, <1>13 DEF IdentityInv, TypeOK

-----------------------------------------------------------------------------
LEMMA NextInv ==
  ASSUME IdentityInv, [Next]_vars
  PROVE  IdentityInv'
<1>1. ASSUME NEW p \in Proc, BindStep(p) PROVE IdentityInv'
  BY <1>1, LookInv, BindRowInv, ClaimFailsInv, CreateRowInv, ResolveClaimInv, LoginInv,
     ReportInv, ActivateInv DEF BindStep
<1>2. ASSUME NEW p \in Proc, UnbindStep(p) PROVE IdentityInv'
  <2>1. CASE \E s \in session : Logout(p, s)
    BY <2>1, LogoutInv
  <2>2. CASE FindByUserIdAndUuid(p) \/ Unbind(p) \/ EraseUserId(p)
    BY <2>2, FindInv, UnbindInv, EraseUserIdInv
  <2>3. CASE \E u \in User : DeleteUser(p, u)
    BY <2>3, DeleteUserInv
  <2>4. CASE \E r \in Row : DeletePeer(p, r)
    BY <2>4, DeletePeerInv
  <2>5. CASE FlushTokenByUuid(p)
    BY <2>5, HandlerDone DEF FlushTokenByUuid
  <2>6. CASE Fail(p)
    BY <2>6, HandlerDone DEF Fail
  <2> QED
    BY <1>2, <2>1, <2>2, <2>3, <2>4, <2>5, <2>6 DEF UnbindStep
<1>3. CASE \E s \in session : EndSession(s)
  BY <1>3, EndSessionInv
<1>4. CASE AdminStep
  BY <1>4, AdminCreateInv, AdminUpdateInv DEF AdminStep
<1>5. CASE UNCHANGED vars
  BY <1>5, HandlersKept, RowsKept, SessionsFewer DEF IdentityInv, TypeOK, vars
<1> QED
  BY <1>1, <1>2, <1>3, <1>4, <1>5 DEF Next

\* Handlers bind for users only what these signed in from, and ids are unique,
\* in every reachable state and whatever the database isolates; owners have
\* signed in where it serializes (service/peer.go 72-242).
THEOREM IdentityInvariant == Spec => []IdentityInv
<1>1. Init => IdentityInv
  BY InitInv
<1>2. IdentityInv /\ [Next]_vars => IdentityInv'
  BY NextInv
<1> QED
  BY <1>1, <1>2, PTL DEF Spec

\* Whoever owns a device has signed in from it (service/peer.go:175-178).
THEOREM OwnersSignedIn ==
  ASSUME Serializable
  PROVE  Spec => []OwnerSignedIn
<1>1. IdentityInv => OwnerSignedIn
  BY DEF IdentityInv, OwnersVouched
<1> QED
  BY <1>1, IdentityInvariant, PTL

-----------------------------------------------------------------------------
(* The action properties: only BindRow and CreateRow give rows anything, but *)
(* for administrators.                                                      *)

\* What a step that is not an administrator's does to the rows: it leaves them
\* as they are or takes something away, fills a row in, or creates one.
Loses == \A s \in Row : Present(s)' =>
           /\ Present(s) /\ peer'[s].id = peer[s].id /\ peer'[s].uuid = peer[s].uuid
           /\ peer'[s].owner \in {peer[s].owner, NoUser}

LEMMA UnbindLoses ==
  ASSUME IdentityInv, NEW p \in Proc, UnbindStep(p)
  PROVE  Loses
<1>1. peer \in [Row -> Peer \cup {Absent, Gone}]
  BY DEF IdentityInv, TypeOK
<1>2. CASE peer' = peer
  BY <1>2 DEF Loses, Present
<1>3. CASE Unbind(p) /\ Present(op[p].row)
  <2>1. PICK r \in Row : r = op[p].row
    BY <1>3 DEF Unbind, IdentityInv, HandlersSound, Sound
  <2>2. PICK v \in Peer : /\ v = [peer[r] EXCEPT !.owner = NoUser] /\ v.owner = NoUser
                          /\ v.id = peer[r].id /\ v.uuid = peer[r].uuid
    BY <1>3, <2>1, Unowned
  <2>3. peer' = [peer EXCEPT ![r] = v]
    BY <1>3, <2>1, <2>2 DEF Unbind
  <2>4. ASSUME NEW s \in Row, Present(s)'
        PROVE  /\ Present(s) /\ peer'[s].id = peer[s].id /\ peer'[s].uuid = peer[s].uuid
               /\ peer'[s].owner \in {peer[s].owner, NoUser}
    <3>1. CASE s = r
      BY <1>1, <1>3, <2>1, <2>2, <2>3, <3>1
    <3>2. CASE s # r
      BY <1>1, <2>3, <2>4, <3>2 DEF Present
    <3> QED
      BY <3>1, <3>2
  <2> QED
    BY <2>4 DEF Loses
<1>4. CASE EraseUserId(p)
  <2>1. ASSUME NEW s \in Row, Present(s)'
        PROVE  /\ Present(s) /\ peer'[s].id = peer[s].id /\ peer'[s].uuid = peer[s].uuid
               /\ peer'[s].owner \in {peer[s].owner, NoUser}
    <3>1. peer'[s] = IF Present(s) /\ peer[s].owner = op[p].user
                     THEN [peer[s] EXCEPT !.owner = NoUser] ELSE peer[s]
      BY <1>4 DEF EraseUserId
    <3>2. CASE Present(s) /\ peer[s].owner = op[p].user
      <4>1. PICK v \in Peer : /\ v = [peer[s] EXCEPT !.owner = NoUser] /\ v.owner = NoUser
                              /\ v.id = peer[s].id /\ v.uuid = peer[s].uuid
        BY <3>2, Unowned
      <4> QED
        BY <3>1, <3>2, <4>1
    <3>3. CASE ~(Present(s) /\ peer[s].owner = op[p].user)
      BY <2>1, <3>1, <3>3 DEF Present
    <3> QED
      BY <3>2, <3>3
  <2> QED
    BY <2>1 DEF Loses
<1>5. ASSUME NEW r \in Row, DeletePeer(p, r) PROVE Loses
  BY <1>1, <1>5, AbsentAssumption DEF DeletePeer, Loses, Present
<1>6. CASE Unbind(p) /\ ~Present(op[p].row)
  BY <1>2, <1>6 DEF Unbind
<1>7. CASE \E s \in session : Logout(p, s)
  BY <1>2, <1>7 DEF Logout
<1>8. CASE FindByUserIdAndUuid(p) \/ FlushTokenByUuid(p) \/ Fail(p)
  BY <1>2, <1>8 DEF FindByUserIdAndUuid, FlushTokenByUuid, Fail
<1>9. CASE \E u \in User : DeleteUser(p, u)
  BY <1>2, <1>9 DEF DeleteUser
<1> QED
  BY <1>3, <1>4, <1>5, <1>6, <1>7, <1>8, <1>9 DEF UnbindStep

\* BindRow writes one row, whose old identity and owner fit the new ones.
Fills == \E r \in Row, v \in Peer :
  /\ Present(r) /\ peer' = [peer EXCEPT ![r] = v]
  /\ peer[r].owner # NoUser => v.owner = peer[r].owner
  /\ \/ /\ v.id = peer[r].id /\ peer[r].uuid \in {NoUUID, v.uuid}
        /\ \A s \in Row : Present(s) /\ peer[s].uuid = v.uuid => s = r
     \/ v.uuid = peer[r].uuid /\ WithId(v.id) = {}

LEMMA BindRowFills ==
  ASSUME Serializable, IdentityInv, NEW p \in Proc, BindRow(p)
  PROVE  Fills
<1>1. PICK o \in Op : o = op[p]
  BY DEF IdentityInv, TypeOK
<1>2. o.pc = "write" /\ o.row # NoRow /\ ReadsHold(o) /\ Sound(o)
  BY <1>1 DEF BindRow, IdentityInv, HandlersSound
<1>3. /\ o.row \in Row /\ Present(o.row)
      /\ o.user # NoUser => peer[o.row].owner \in {NoUser, o.user}
      /\ o.column = "uuid" =>
           /\ peer[o.row].id = o.id /\ peer[o.row].uuid \in {NoUUID, o.uuid}
           /\ \A r \in Row : Present(r) /\ peer[r].uuid = o.uuid => r = o.row
      /\ o.column # "uuid" => WithId(o.id) = {} /\ peer[o.row].uuid = o.uuid
  BY <1>2, FoundRow
<1>4. PICK was \in Peer : was = peer[o.row]
  BY <1>3 DEF Present
<1>5. PICK owner \in User \cup {NoUser} : owner = NewOwner(o, o.row)
  BY <1>4 DEF NewOwner, Op, Peer
<1>6. was.owner # NoUser => owner = was.owner
  BY <1>3, <1>4, <1>5 DEF NewOwner
<1>7. o.id \in DeviceID /\ o.uuid \in UUID
  BY <1>2 DEF Sound
<1>8. CASE o.column = "uuid"
  <2>1. PICK v \in Peer : v = [was EXCEPT !.uuid = o.uuid, !.owner = owner]
    BY <1>7 DEF Peer
  <2>2. v.id = was.id /\ v.owner = owner /\ v.uuid = o.uuid
    BY <2>1 DEF Peer
  <2>3. peer' = [peer EXCEPT ![o.row] = v]
    BY <1>1, <1>3, <1>4, <1>5, <1>8, <2>1 DEF BindRow
  <2>4. /\ v.id = peer[o.row].id /\ peer[o.row].uuid \in {NoUUID, v.uuid}
        /\ \A s \in Row : Present(s) /\ peer[s].uuid = v.uuid => s = o.row
        /\ peer[o.row].owner # NoUser => v.owner = peer[o.row].owner
    BY <1>3, <1>4, <1>6, <1>8, <2>2
  <2> QED
    BY <1>3, <2>3, <2>4 DEF Fills
<1>9. CASE o.column # "uuid"
  <2>1. PICK v \in Peer : v = [was EXCEPT !.id = o.id, !.owner = owner]
    BY <1>7 DEF Peer
  <2>2. v.id = o.id /\ v.owner = owner /\ v.uuid = was.uuid
    BY <2>1 DEF Peer
  <2>3. peer' = [peer EXCEPT ![o.row] = v]
    BY <1>1, <1>3, <1>4, <1>5, <1>9, <2>1 DEF BindRow
  <2> QED
    BY <1>3, <1>4, <1>6, <1>9, <2>2, <2>3 DEF Fills
<1> QED
  BY <1>8, <1>9

Creates == \E r \in Row, v \in Peer :
  /\ ~Present(r) /\ peer' = [peer EXCEPT ![r] = v]
  /\ WithId(v.id) = {} /\ WithUuid(v.uuid) = {}

LEMMA CreateRowCreates ==
  ASSUME Serializable, IdentityInv, NEW p \in Proc, NEW r \in Row, CreateRow(p, r)
  PROVE  Creates
<1>1. PICK o \in Op : o = op[p]
  BY DEF IdentityInv, TypeOK
<1>2. /\ o.pc = "write" /\ o.row = NoRow /\ ReadsHold(o) /\ Sound(o) /\ peer[r] = Absent
      /\ peer' = [peer EXCEPT ![r] = [id |-> o.id, uuid |-> o.uuid, owner |-> o.user]]
  BY <1>1 DEF CreateRow, IdentityInv, HandlersSound
<1>3. PICK v \in Peer : v = [id |-> o.id, uuid |-> o.uuid, owner |-> o.user]
  BY <1>2 DEF Sound, Peer, Op
<1>4. v.id = o.id /\ v.uuid = o.uuid
  BY <1>3
<1>5. <<NoRow, o.column>> \in Target(o.id, o.uuid)
  BY <1>2 DEF ReadsHold
<1>6. WithId(o.id) = {} /\ WithUuid(o.uuid) = {}
  BY <1>5, IdentityAssumption DEF Target, WithId, WithUuid
<1>7. ~Present(r)
  BY <1>2, AbsentAssumption DEF Present
<1> QED
  BY <1>2, <1>3, <1>4, <1>6, <1>7 DEF Creates

LEMMA StepKinds ==
  ASSUME Serializable, IdentityInv, [Next]_vars
  PROVE  AdminStep \/ Loses \/ Fills \/ Creates
<1>1. ASSUME peer' = peer PROVE Loses
  BY <1>1 DEF Loses, Present
<1>2. ASSUME NEW p \in Proc, BindStep(p) PROVE Loses \/ Fills \/ Creates
  <2>1. CASE BindRow(p)
    BY <2>1, BindRowFills
  <2>2. ASSUME NEW r \in Row, CreateRow(p, r) PROVE Creates
    BY <2>2, CreateRowCreates
  <2>3. CASE Look(p) \/ ClaimFails(p) \/ ResolveClaim(p)
    BY <1>1, <2>3 DEF Look, ClaimFails, ResolveClaim
  <2>4. ASSUME NEW i \in DeviceID, NEW x \in UUID,
               (\E u \in User : Login(p, u, i, x)) \/ Report(p, i, x) \/ Activate(p, i, x)
        PROVE Loses
    BY <1>1, <2>4 DEF Login, Report, Activate
  <2> QED
    BY <1>2, <2>1, <2>2, <2>3, <2>4 DEF BindStep
<1>3. ASSUME NEW p \in Proc, UnbindStep(p) PROVE Loses
  BY <1>3, UnbindLoses
<1>4. CASE \E s \in session : EndSession(s)
  BY <1>1, <1>4 DEF EndSession
<1>5. CASE UNCHANGED vars
  BY <1>1, <1>5 DEF vars
<1> QED
  BY <1>2, <1>3, <1>4, <1>5 DEF Next

LEMMA StepKeepsEstablished ==
  ASSUME Serializable, IdentityInv, [Next]_vars, ~AdminStep,
         NEW r \in Row, NEW s \in Row, Present(r), peer[r].uuid # NoUUID,
         Present(s)', peer'[s].id = peer[r].id
  PROVE  peer'[s].uuid = peer[r].uuid
<1>1. peer \in [Row -> Peer \cup {Absent, Gone}] /\ IdsUnique
  BY DEF IdentityInv, TypeOK
<1>2. CASE Loses
  BY <1>1, <1>2 DEF Loses, IdsUnique
<1>3. CASE Fills
  <2>1. PICK w \in Row, v \in Peer :
          /\ Present(w) /\ peer' = [peer EXCEPT ![w] = v]
          /\ \/ v.id = peer[w].id /\ peer[w].uuid \in {NoUUID, v.uuid}
             \/ v.uuid = peer[w].uuid /\ WithId(v.id) = {}
    BY <1>3 DEF Fills
  <2>2. CASE s # w
    <3>1. peer'[s] = peer[s] /\ Present(s)
      BY <1>1, <2>1, <2>2 DEF Present
    <3> QED
      BY <1>1, <3>1 DEF IdsUnique
  <2>3. CASE s = w
    <3>1. peer'[s] = v /\ v.id = peer[r].id
      BY <1>1, <2>1, <2>3
    <3>2. WithId(v.id) # {}
      BY <3>1 DEF WithId
    <3>3. w = r
      BY <1>1, <2>1, <3>1, <3>2 DEF IdsUnique
    <3> QED
      BY <2>1, <3>1, <3>2, <3>3
  <2> QED
    BY <2>2, <2>3
<1>4. CASE Creates
  <2>1. PICK w \in Row, v \in Peer :
          ~Present(w) /\ peer' = [peer EXCEPT ![w] = v] /\ WithId(v.id) = {}
    BY <1>4 DEF Creates
  <2>2. s # w
    BY <1>1, <2>1 DEF WithId
  <2>3. peer'[s] = peer[s] /\ Present(s)
    BY <1>1, <2>1, <2>2 DEF Present
  <2> QED
    BY <1>1, <2>3 DEF IdsUnique
<1> QED
  BY <1>2, <1>3, <1>4, StepKinds

LEMMA StepKeepsOwner ==
  ASSUME Serializable, IdentityInv, [Next]_vars,
         NEW r \in Row, Present(r), Present(r)', peer[r].owner # NoUser
  PROVE  peer'[r].owner \in {peer[r].owner, NoUser}
<1>1. peer \in [Row -> Peer \cup {Absent, Gone}]
  BY DEF IdentityInv, TypeOK
<1>2. CASE Loses
  BY <1>2 DEF Loses
<1>3. CASE Fills
  BY <1>1, <1>3 DEF Fills
<1>4. CASE Creates
  BY <1>1, <1>4 DEF Creates
<1>5. CASE AdminStep
  <2>1. PICK w \in Row, i \in DeviceID, x \in UUID \cup {NoUUID} :
          AdminCreate(w, i, x) \/ AdminUpdate(w, i, x)
    BY <1>5 DEF AdminStep
  <2>2. CASE AdminCreate(w, i, x)
    <3>1. ~Present(w)
      BY <2>2, AbsentAssumption DEF AdminCreate, Present
    <3> QED
      BY <1>1, <2>2, <3>1 DEF AdminCreate
  <2>3. CASE AdminUpdate(w, i, x)
    <3>1. PICK was \in Peer : was = peer[w]
      BY <2>3 DEF AdminUpdate, Present
    <3>2. PICK v \in Peer : v = [was EXCEPT !.id = i, !.uuid = IF x = NoUUID THEN was.uuid ELSE x]
      BY DEF Peer
    <3>3. v.owner = was.owner
      BY <3>2 DEF Peer
    <3>4. peer' = [peer EXCEPT ![w] =
                     [peer[w] EXCEPT !.id = i, !.uuid = IF x = NoUUID THEN peer[w].uuid ELSE x]]
      BY <2>3 DEF AdminUpdate
    <3>5. peer' = [peer EXCEPT ![w] = v]
      BY <3>1, <3>2, <3>4
    <3> QED
      BY <1>1, <3>1, <3>3, <3>5
  <2> QED
    BY <2>1, <2>2, <2>3
<1> QED
  BY <1>2, <1>3, <1>4, <1>5, StepKinds

LEMMA StepKeepsOneRow ==
  ASSUME Serializable, IdentityInv, [Next]_vars, ~AdminStep,
         NEW r \in Row, NEW s \in Row, r # s, Present(r)', Present(s)',
         peer'[r].uuid # NoUUID, peer'[r].uuid = peer'[s].uuid
  PROVE  Present(r) /\ Present(s) /\ peer[r].uuid = peer[s].uuid
<1>1. peer \in [Row -> Peer \cup {Absent, Gone}]
  BY DEF IdentityInv, TypeOK
<1>2. CASE Loses
  BY <1>2 DEF Loses
<1>3. CASE Fills
  <2>1. PICK w \in Row, v \in Peer :
          /\ Present(w) /\ peer' = [peer EXCEPT ![w] = v]
          /\ \/ \A t \in Row : Present(t) /\ peer[t].uuid = v.uuid => t = w
             \/ v.uuid = peer[w].uuid
    BY <1>3 DEF Fills
  <2>2. \A t \in Row : t # w => peer'[t] = peer[t] /\ (Present(t)' => Present(t))
    BY <1>1, <2>1 DEF Present
  <2>3. peer'[w] = v
    BY <1>1, <2>1
  <2>4. CASE r = w
    BY <2>1, <2>2, <2>3, <2>4
  <2>5. CASE s = w
    BY <2>1, <2>2, <2>3, <2>5
  <2>6. CASE r # w /\ s # w
    BY <2>2, <2>6
  <2> QED
    BY <2>4, <2>5, <2>6
<1>4. CASE Creates
  <2>1. PICK w \in Row, v \in Peer :
          ~Present(w) /\ peer' = [peer EXCEPT ![w] = v] /\ WithUuid(v.uuid) = {}
    BY <1>4 DEF Creates
  <2>2. \A t \in Row : t # w => peer'[t] = peer[t] /\ (Present(t)' => Present(t))
    BY <1>1, <2>1 DEF Present
  <2>3. peer'[w] = v /\ \A t \in Row : Present(t) => peer[t].uuid # v.uuid
    BY <1>1, <2>1 DEF WithUuid
  <2>4. r # w /\ s # w
    BY <2>2, <2>3
  <2> QED
    BY <2>2, <2>4
<1> QED
  BY <1>2, <1>3, <1>4, StepKinds

\* An established device id keeps its UUID, unless an administrator edits it
\* (service/peer.go:175-177, docs/operations/PRESENCE-LEASE-V2.md:58).
THEOREM EstablishedIsKept ==
  ASSUME Serializable
  PROVE  Spec => EstablishedKept
<1>1. IdentityInv /\ [Next]_vars =>
        [\/ \A r \in Row, s \in Row :
             /\ Present(r) /\ peer[r].uuid # NoUUID
             /\ Present(s)' /\ peer'[s].id = peer[r].id
             => peer'[s].uuid = peer[r].uuid
         \/ AdminStep]_vars
  BY StepKeepsEstablished
<1> QED
  BY <1>1, IdentityInvariant, PTL DEF Spec, EstablishedKept

\* No account replaces another as the owner of a device
\* (docs/operations/PRESENCE-LEASE-V2.md:59).
THEOREM OwnerIsKept ==
  ASSUME Serializable
  PROVE  Spec => OwnerKept
<1>1. IdentityInv /\ [Next]_vars =>
        [\A r \in Row : Present(r) /\ Present(r)' /\ peer[r].owner # NoUser
           => peer'[r].owner \in {peer[r].owner, NoUser}]_vars
  BY StepKeepsOwner
<1> QED
  BY <1>1, IdentityInvariant, PTL DEF Spec, OwnerKept

\* Binding makes no second row of a UUID (service/peer.go:126-144).
THEOREM DeviceHasOneRow ==
  ASSUME Serializable
  PROVE  Spec => OneRowPerDevice
<1>1. IdentityInv /\ [Next]_vars =>
        [\/ \A r \in Row, s \in Row :
             /\ r # s /\ Present(r)' /\ Present(s)'
             /\ peer'[r].uuid # NoUUID /\ peer'[r].uuid = peer'[s].uuid
             => Present(r) /\ Present(s) /\ peer[r].uuid = peer[s].uuid
         \/ AdminStep]_vars
  BY StepKeepsOneRow
<1> QED
  BY <1>1, IdentityInvariant, PTL DEF Spec, OneRowPerDevice
=============================================================================
