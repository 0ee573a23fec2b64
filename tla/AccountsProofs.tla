--------------------------- MODULE AccountsProofs ---------------------------
(* Proofs about Accounts and AccountsHistory for any number of users,       *)
(* tokens and handlers: some enabled super administrator always exists, and *)
(* a session of a local account, once invalidated, is never served again.   *)
(* In the second half, about SchemaMigration: what a migration makes of the *)
(* stored accounts, then of the bindings, sessions and devices, for any     *)
(* number of processes and any stored databases.                            *)
EXTENDS AccountsHistory, SchemaMigration, FiniteSetTheorems, SequenceTheorems, TLAPS

-----------------------------------------------------------------------------
(* Typing of the copies a handler may hold                                  *)

LEMMA IdleInOp == Idle \in Op
  BY AccountsAssumption DEF Idle, Op, OpKind, OpPC, RoleForm, Role

LEMMA LoginInOp ==
  ASSUME NEW u \in User, NEW v \in 0..MaxVersion
  PROVE  LoginOp(u, v) \in Op
  BY AccountsAssumption DEF LoginOp, Idle, Op, OpKind, OpPC, RoleForm, Role

LEMMA RevokeTyped ==
  ASSUME TypeOK, NEW ks, Revoke(ks)
  PROVE  token' \in [Token -> TokenRow]
  BY DEF TypeOK, Revoke, TokenRow

LEMMA RequestedRoleInRole ==
  ASSUME TypeOK, NEW p \in Proc
  PROVE  RequestedRole(p) \in Role
  BY DEF TypeOK, RequestedRole, Op, RoleForm, Role

-----------------------------------------------------------------------------
(* Counting administrators                                                  *)

\* Two enabled super administrators are one besides any given user.
LEMMA CountMeansOther ==
  ASSUME NEW u, Cardinality(EnabledSupers) > 1
  PROVE  OtherAdmin(u)
<1> SUFFICES ASSUME \A v \in EnabledSupers : v = u
             PROVE  FALSE
  BY DEF OtherAdmin
<1>1. EnabledSupers = {} \/ EnabledSupers = {u}
  OBVIOUS
<1>2. Cardinality({}) = 0 /\ Cardinality({u}) = 1
  BY FS_EmptySet, FS_Singleton
<1> QED
  BY <1>1, <1>2

\* A step that leaves handlers alone and takes no administrator away.
LEMMA TableSteps ==
  ASSUME AdminInv,
         user' \in [User -> UserRow], token' \in [Token -> TokenRow],
         op' = op, invariantLock' = invariantLock,
         EnabledSupers \subseteq EnabledSupers',
         \A u \in User : Present(u) => Present(u)'
  PROVE  AdminInv'
<1>1. TypeOK'
  BY DEF AdminInv, TypeOK
<1>2. \A u : OtherAdmin(u) => OtherAdmin(u)'
  BY DEF OtherAdmin
<1>3. \A p \in Proc : (InTransaction(p)' <=> InTransaction(p)) /\
                      (RemovesEnabledSuper(p)' <=> RemovesEnabledSuper(p))
  BY DEF InTransaction, RemovesEnabledSuper, RequestedRole
<1>4. HolderIsInTransaction' /\ KindsMatch'
  BY <1>3 DEF AdminInv, HolderIsInTransaction, KindsMatch, AdminOp
<1>7. TargetExists'
  BY <1>3 DEF AdminInv, TargetExists, KindsMatch, AdminOp, InTransaction
<1>5. ReadIsSafe' /\ CountIsSafe'
  BY <1>2, <1>3 DEF AdminInv, ReadIsSafe, CountIsSafe
<1>6. AdminExists'
  BY DEF AdminInv, AdminExists
<1> QED
  BY <1>1, <1>4, <1>5, <1>6, <1>7 DEF AdminInv

\* A step of one handler outside or out of a transaction, which writes no user.
LEMMA HandlerSteps ==
  ASSUME AdminInv, NEW p \in Proc, NEW x \in Op,
         x.pc \notin {"read", "counted"}, AdminOp(x),
         op' = [op EXCEPT ![p] = x],
         user' = user, token' \in [Token -> TokenRow],
         invariantLock' = IF invariantLock = p THEN NoProc ELSE invariantLock
  PROVE  AdminInv'
<1>1. TypeOK'
  BY DEF AdminInv, TypeOK
<1>2. op'[p] = x /\ \A q \in Proc : q # p => op'[q] = op[q]
  BY DEF AdminInv, TypeOK
<1>3. ~InTransaction(p)'
  BY <1>2 DEF InTransaction
<1>4. \A q \in Proc : q # p =>
        /\ InTransaction(q)' <=> InTransaction(q)
        /\ RemovesEnabledSuper(q)' <=> RemovesEnabledSuper(q)
  BY <1>2 DEF InTransaction, RemovesEnabledSuper, RequestedRole
<1>5. \A u : (OtherAdmin(u)' <=> OtherAdmin(u)) /\ (Present(u)' <=> Present(u))
  BY DEF OtherAdmin, EnabledSupers, Present
<1>6. HolderIsInTransaction'
  BY <1>3, <1>4, AccountsAssumption DEF AdminInv, HolderIsInTransaction
<1>7. TargetExists' /\ KindsMatch'
  BY <1>2, <1>3, <1>4, <1>5
  DEF AdminInv, TargetExists, KindsMatch, AdminOp
<1>8. ReadIsSafe'
  BY <1>2, <1>3, <1>4, <1>5 DEF AdminInv, ReadIsSafe
<1>9. CountIsSafe'
  BY <1>2, <1>3, <1>4, <1>5 DEF AdminInv, CountIsSafe, InTransaction
<1>10. AdminExists'
  BY DEF AdminInv, AdminExists, EnabledSupers, Present
<1> QED
  BY <1>1, <1>6, <1>7, <1>8, <1>9, <1>10 DEF AdminInv

\* The same for a handler that does not hold the invariant row.
LEMMA IdleSteps ==
  ASSUME AdminInv, NEW p \in Proc, NEW x \in Op, ~InTransaction(p),
         x.pc \notin {"read", "counted"}, AdminOp(x),
         op' = [op EXCEPT ![p] = x],
         user' = user, token' \in [Token -> TokenRow],
         invariantLock' = invariantLock
  PROVE  AdminInv'
<1>1. invariantLock # p
  BY DEF AdminInv, HolderIsInTransaction
<1> QED
  BY <1>1, HandlerSteps

\* The end of a transaction: only the target's row is written, and an
\* administrator remains.
LEMMA CommitSteps ==
  ASSUME AdminInv, NEW p \in Proc, InTransaction(p), NEW x \in Op,
         x.pc \notin {"read", "counted"}, AdminOp(x),
         op' = [op EXCEPT ![p] = x],
         user' \in [User -> UserRow], token' \in [Token -> TokenRow],
         invariantLock' = NoProc,
         AdminExists'
  PROVE  AdminInv'
<1>1. TypeOK'
  BY DEF AdminInv, TypeOK
<1>2. \A q \in Proc : ~InTransaction(q)'
  <2> SUFFICES ASSUME NEW q \in Proc PROVE ~InTransaction(q)'
    OBVIOUS
  <2>1. CASE q = p
    BY <2>1 DEF AdminInv, TypeOK, InTransaction
  <2>2. CASE q # p
    BY <2>2 DEF AdminInv, TypeOK, HolderIsInTransaction, InTransaction
  <2> QED BY <2>1, <2>2
<1>3. HolderIsInTransaction'
  BY <1>2, AccountsAssumption DEF HolderIsInTransaction
<1>4. TargetExists' /\ ReadIsSafe' /\ CountIsSafe'
  BY <1>2 DEF TargetExists, ReadIsSafe, CountIsSafe, InTransaction
<1>5. KindsMatch'
  BY DEF AdminInv, TypeOK, KindsMatch, AdminOp
<1> QED
  BY <1>1, <1>3, <1>4, <1>5 DEF AdminInv

-----------------------------------------------------------------------------
(* One lemma per group of actions                                           *)

LEMMA LoginSteps ==
  ASSUME AdminInv, NEW p \in Proc, LoginStep(p)
  PROVE  AdminInv'
<1> USE AccountsAssumption
<1>1. TypeOK
  BY DEF AdminInv
<1>2. ASSUME NEW u \in User, PasswordLogin(p, u) \/ OauthLogin(p, u)
      PROVE  AdminInv'
  <2>1. LoginOp(u, user[u].version) \in Op
    BY <1>1, LoginInOp DEF TypeOK, UserRow
  <2>2. LoginOp(u, user[u].version).pc = "issue" /\ AdminOp(LoginOp(u, user[u].version))
    BY DEF LoginOp, Idle, AdminOp
  <2>3. ~InTransaction(p)
    BY <1>2 DEF PasswordLogin, OauthLogin, InTransaction
  <2> QED
    BY <1>1, <1>2, <2>1, <2>2, <2>3, IdleSteps
    DEF PasswordLogin, OauthLogin, TypeOK
<1>3. ASSUME NEW u \in User, NEW a \in BOOLEAN, NEW e \in BOOLEAN,
             LdapLogin(p, u, a, e)
      PROVE  AdminInv'
  <2> DEFINE f == [role |-> IF a THEN "super" ELSE "user",
                   isAdmin |-> IF a THEN "yes" ELSE "no"]
             x == [Idle EXCEPT !.kind = "sync", !.pc = "wait", !.user = u,
                               !.version = user[u].version, !.form = f,
                               !.enabled = e, !.wasEnabled = user[u].enabled]
  <2>1. f \in RoleForm
    BY DEF RoleForm, Role
  <2>2. user[u].version \in 0..MaxVersion /\ user[u].enabled \in BOOLEAN
    BY <1>1 DEF TypeOK, UserRow
  <2>3. op' = [op EXCEPT ![p] = x]
    BY <1>3 DEF LdapLogin
  <2>4. x \in Op /\ x.pc = "wait" /\ AdminOp(x)
    <3> HIDE DEF f
    <3> QED
      BY <2>1, <2>2, IdleInOp DEF Idle, Op, OpKind, OpPC, Role, AdminOp
  <2>5. ~InTransaction(p)
    BY <1>3 DEF LdapLogin, InTransaction
  <2>6. user' = user /\ token' = token /\ invariantLock' = invariantLock
    BY <1>3 DEF LdapLogin
  <2> HIDE DEF x
  <2> QED
    BY <1>1, <2>3, <2>4, <2>5, <2>6, IdleSteps DEF TypeOK
<1>4. ASSUME NEW k \in Token, PersistIssuedToken(p, k)
      PROVE  AdminInv'
  <2>1. token' \in [Token -> TokenRow]
    BY <1>1, <1>4 DEF TypeOK, PersistIssuedToken, IssuedVersion, TokenRow, Op
  <2>2. ~InTransaction(p)
    BY <1>4 DEF PersistIssuedToken, InTransaction
  <2>3. Idle.pc = "idle" /\ AdminOp(Idle)
    BY DEF Idle, AdminOp
  <2> QED
    BY <1>4, <2>1, <2>2, <2>3, IdleInOp, IdleSteps DEF PersistIssuedToken
<1> QED
  BY <1>2, <1>3, <1>4 DEF LoginStep

LEMMA RequestSteps ==
  ASSUME AdminInv, NEW p \in Proc, RequestStep(p)
  PROVE  AdminInv'
<1>1. TypeOK
  BY DEF AdminInv
<1>2. ASSUME NEW k \in Token, ReadToken(p, k)
      PROVE  AdminInv'
  <2> DEFINE x == [Idle EXCEPT !.kind = "request", !.pc = "checked", !.token = k,
                               !.user = token[k].user,
                               !.version = token[k].version]
  <2>1. x \in Op /\ x.pc = "checked" /\ AdminOp(x)
    BY <1>1, IdleInOp DEF TypeOK, TokenRow, Idle, Op, OpKind, OpPC, AdminOp
  <2>2. ~InTransaction(p) /\ op' = [op EXCEPT ![p] = x]
        /\ UNCHANGED <<user, token, invariantLock>>
    BY <1>2 DEF ReadToken, InTransaction
  <2> HIDE DEF x
  <2> QED
    BY <1>1, <2>1, <2>2, IdleSteps DEF TypeOK
<1>3. CASE ReadUser(p)
  <2> DEFINE x == IF Authenticates(p) THEN [op[p] EXCEPT !.pc = "accepted"] ELSE Idle
  <2>1. x \in Op /\ x.pc \notin {"read", "counted"} /\ AdminOp(x)
    BY <1>1, IdleInOp DEF TypeOK, Idle, Op, OpPC, AdminOp
  <2>2. ~InTransaction(p) /\ op' = [op EXCEPT ![p] = x]
        /\ UNCHANGED <<user, token, invariantLock>>
    BY <1>3 DEF ReadUser, InTransaction
  <2> HIDE DEF x
  <2> QED
    BY <1>1, <2>1, <2>2, IdleSteps DEF TypeOK
<1>4. CASE Respond(p)
  BY <1>1, <1>4, IdleInOp, IdleSteps
  DEF Respond, TypeOK, InTransaction, Idle, AdminOp
<1> QED
  BY <1>2, <1>3, <1>4 DEF RequestStep

\* Taking the invariant row: whoever is not an enabled super administrator when
\* it is read is not the only one.
LEMMA AcquireStep ==
  ASSUME AdminInv, NEW p \in Proc, AcquireAndRead(p)
  PROVE  AdminInv'
<1> DEFINE u == op[p].user
           x == [op[p] EXCEPT !.pc = "read", !.seenRole = user[u].role,
                              !.seenEnabled = user[u].enabled]
<1>1. TypeOK /\ op[p].pc = "wait" /\ Present(u) /\ invariantLock = NoProc
  BY DEF AdminInv, AcquireAndRead, LockFree
<1>2. u \in User
  BY <1>1 DEF AdminInv, KindsMatch, AdminOp
<1>3. x \in Op /\ x.pc = "read" /\ x.user = u /\ x.kind = op[p].kind
      /\ x.seenRole = user[u].role /\ x.seenEnabled = user[u].enabled
  BY <1>1, <1>2 DEF TypeOK, Op, OpPC, UserRow
<1>4. op' = [op EXCEPT ![p] = x] /\ user' = user /\ token' = token
      /\ invariantLock' = p
  BY <1>1 DEF AcquireAndRead, TypeOK
<1> HIDE DEF x
<1>5. TypeOK'
  BY <1>1, <1>3, <1>4 DEF TypeOK
<1>6. op'[p] = x /\ \A q \in Proc : q # p => op'[q] = op[q]
  BY <1>1, <1>4 DEF TypeOK
<1>7. \A q \in Proc : ~InTransaction(q)
  BY <1>1, AccountsAssumption DEF AdminInv, HolderIsInTransaction
<1>8. \A q \in Proc : InTransaction(q)' <=> q = p
  BY <1>3, <1>6, <1>7 DEF InTransaction
<1>9. HolderIsInTransaction'
  BY <1>4, <1>8 DEF HolderIsInTransaction
<1>10. TargetExists'
  BY <1>1, <1>2, <1>3, <1>4, <1>6, <1>8 DEF TargetExists, Present
<1>11. KindsMatch'
  <2>1. AdminOp(x)
    BY <1>1, <1>3 DEF AdminInv, KindsMatch, AdminOp
  <2> QED
    BY <2>1, <1>6 DEF AdminInv, KindsMatch, AdminOp
<1>12. ReadIsSafe'
  <2>1. EnabledSupers' = EnabledSupers
    BY <1>4 DEF EnabledSupers, Present
  <2>2. ASSUME NEW w, w \notin EnabledSupers PROVE OtherAdmin(w)'
    BY <2>1, <2>2 DEF AdminInv, AdminExists, OtherAdmin
  <2>3. u \in EnabledSupers => user[u].role = "super" /\ user[u].enabled
    BY DEF EnabledSupers
  <2> QED
    BY <1>3, <1>6, <1>8, <2>2, <2>3 DEF ReadIsSafe
<1>13. CountIsSafe'
  BY <1>3, <1>6, <1>7 DEF CountIsSafe, InTransaction
<1>14. AdminExists'
  BY <1>4 DEF AdminInv, AdminExists, EnabledSupers, Present
<1> QED
  BY <1>5, <1>9, <1>10, <1>11, <1>12, <1>13, <1>14 DEF AdminInv

LEMMA CountStep ==
  ASSUME AdminInv, NEW p \in Proc, CountAdmins(p)
  PROVE  AdminInv'
<1> DEFINE x == [op[p] EXCEPT !.pc = "counted"]
<1>1. TypeOK /\ op[p].pc = "read"
  BY DEF AdminInv, CountAdmins
<1>2. x \in Op /\ x.pc = "counted" /\ x.user = op[p].user /\ x.kind = op[p].kind
      /\ x.seenRole = op[p].seenRole /\ x.seenEnabled = op[p].seenEnabled
      /\ x.form = op[p].form /\ x.enabled = op[p].enabled
  BY <1>1 DEF TypeOK, Op, OpPC
<1>3. op' = [op EXCEPT ![p] = x] /\ user' = user /\ token' = token
      /\ invariantLock' = invariantLock
  BY DEF CountAdmins
<1> HIDE DEF x
<1>4. TypeOK'
  BY <1>1, <1>2, <1>3 DEF TypeOK
<1>5. op'[p] = x /\ \A q \in Proc : q # p => op'[q] = op[q]
  BY <1>1, <1>3 DEF TypeOK
<1>6. \A q \in Proc : (InTransaction(q)' <=> InTransaction(q)) /\
                      (RemovesEnabledSuper(q)' <=> RemovesEnabledSuper(q))
  BY <1>1, <1>2, <1>5 DEF InTransaction, RemovesEnabledSuper, RequestedRole
<1>7. EnabledSupers' = EnabledSupers
  BY <1>3 DEF EnabledSupers, Present
<1>8. HolderIsInTransaction' /\ AdminExists'
  BY <1>3, <1>6, <1>7 DEF AdminInv, HolderIsInTransaction, AdminExists
<1>9. TargetExists' /\ KindsMatch'
  BY <1>1, <1>2, <1>3, <1>5, <1>6
  DEF AdminInv, TargetExists, KindsMatch, AdminOp, Present
<1>10. ReadIsSafe'
  BY <1>2, <1>5, <1>6, <1>7 DEF AdminInv, ReadIsSafe, OtherAdmin
<1>11. CountIsSafe'
  <2>1. RemovesEnabledSuper(p) => OtherAdmin(op[p].user)
    BY CountMeansOther DEF CountAdmins
  <2> QED
    BY <2>1, <1>2, <1>5, <1>6, <1>7 DEF AdminInv, CountIsSafe, OtherAdmin
<1> QED
  BY <1>4, <1>8, <1>9, <1>10, <1>11 DEF AdminInv

\* The writer leaves an administrator: its target if the update keeps it one,
\* and otherwise the one that the check or the read made sure of.
LEMMA WriterLeavesAdmin ==
  ASSUME AdminInv, NEW p \in Proc, op[p].pc = "counted",
         NEW row \in UserRow, user' = [user EXCEPT ![op[p].user] = row],
         \/ RemovesEnabledSuper(p)
         \/ ~(op[p].seenRole = "super" /\ op[p].seenEnabled)
         \/ row.state = "present" /\ row.enabled /\ row.role = "super"
  PROVE  AdminExists'
<1>1. TypeOK /\ op[p].user \in User
  BY DEF AdminInv, KindsMatch, AdminOp
<1>2. CASE row.state = "present" /\ row.enabled /\ row.role = "super"
  <2>1. op[p].user \in EnabledSupers'
    BY <1>1, <1>2 DEF TypeOK, EnabledSupers, Present
  <2> QED
    BY <2>1 DEF AdminExists
<1>3. CASE OtherAdmin(op[p].user)
  <2>1. PICK v \in EnabledSupers : v # op[p].user
    BY <1>3 DEF OtherAdmin
  <2>2. v \in EnabledSupers'
    BY <1>1, <2>1 DEF TypeOK, EnabledSupers, Present
  <2> QED
    BY <2>2 DEF AdminExists
<1>4. RemovesEnabledSuper(p) => OtherAdmin(op[p].user)
  BY DEF AdminInv, CountIsSafe
<1>5. ~(op[p].seenRole = "super" /\ op[p].seenEnabled) => OtherAdmin(op[p].user)
  BY DEF AdminInv, ReadIsSafe, InTransaction
<1> QED
  BY <1>2, <1>3, <1>4, <1>5

LEMMA UpdateCommits ==
  ASSUME AdminInv, NEW p \in Proc, CommitUpdate(p)
  PROVE  AdminInv'
<1> DEFINE u == op[p].user
           v == WrittenVersion(p)
           n == IF RevokesSessions(p) THEN NextVersion(v) ELSE v
           row == [user[u] EXCEPT !.role = RequestedRole(p),
                                  !.enabled = op[p].enabled, !.version = n]
<1>1. TypeOK /\ u \in User /\ op[p].pc = "counted" /\ InTransaction(p)
      /\ op[p].kind \in {"update", "sync"} /\ user[u].state = "present"
  BY DEF AdminInv, KindsMatch, AdminOp, CommitUpdate, InTransaction,
         TargetExists, Present
<1>2. v \in 1..MaxVersion
  BY <1>1, AccountsAssumption DEF TypeOK, UserRow, Op, WrittenVersion
<1>3. n \in 1..MaxVersion
  <2>1. RevokesSessions(p) => v < MaxVersion
    BY DEF CommitUpdate
  <2> HIDE DEF v
  <2> QED
    BY <1>2, <2>1, AccountsAssumption DEF NextVersion
<1>4. RequestedRole(p) \in Role /\ op[p].enabled \in BOOLEAN
  BY <1>1, RequestedRoleInRole DEF TypeOK, Op
<1>5. row \in UserRow /\ row.state = "present" /\ row.role = RequestedRole(p)
      /\ row.enabled = op[p].enabled
  <2> HIDE DEF n
  <2> QED
    BY <1>1, <1>3, <1>4 DEF TypeOK, UserRow
<1>6. user' = [user EXCEPT ![u] = row]
  BY <1>1 DEF CommitUpdate, TypeOK
<1> HIDE DEF row
<1>7. AdminExists'
  BY <1>1, <1>5, <1>6, WriterLeavesAdmin DEF RemovesEnabledSuper
<1>8. user' \in [User -> UserRow] /\ token' \in [Token -> TokenRow]
  BY <1>1, <1>5, <1>6, RevokeTyped DEF TypeOK, CommitUpdate
<1>9. AfterUpdate(p) \in Op /\ AfterUpdate(p).pc \notin {"read", "counted"}
      /\ AdminOp(AfterUpdate(p))
  BY <1>1, LoginInOp, IdleInOp
  DEF TypeOK, Op, AfterUpdate, LoginOp, Idle, AdminOp
<1> QED
  BY <1>1, <1>7, <1>8, <1>9, CommitSteps DEF CommitUpdate

LEMMA DeleteCommits ==
  ASSUME AdminInv, NEW p \in Proc, CommitDelete(p)
  PROVE  AdminInv'
<1>1. TypeOK /\ op[p].user \in User /\ op[p].pc = "counted" /\ InTransaction(p)
      /\ op[p].kind = "delete"
  BY DEF AdminInv, KindsMatch, AdminOp, CommitDelete, InTransaction
<1>2. DeletedRow \in UserRow
  BY AccountsAssumption DEF DeletedRow, NoRow, UserRow, Role
<1>3. AdminExists'
  BY <1>1, <1>2, WriterLeavesAdmin DEF CommitDelete, RemovesEnabledSuper
<1>4. user' \in [User -> UserRow] /\ token' \in [Token -> TokenRow]
  BY <1>1, <1>2, RevokeTyped DEF TypeOK, CommitDelete
<1>5. Idle.pc = "idle" /\ AdminOp(Idle)
  BY DEF Idle, AdminOp
<1> QED
  BY <1>1, <1>3, <1>4, <1>5, IdleInOp, CommitSteps DEF CommitDelete

LEMMA AdminSteps ==
  ASSUME AdminInv, NEW p \in Proc, AdminStep(p)
  PROVE  AdminInv'
<1>1. TypeOK
  BY DEF AdminInv
<1>2. ASSUME NEW u \in User, NEW f \in Form, NEW e \in BOOLEAN,
             RequestUpdate(p, u, f, e)
      PROVE  AdminInv'
  <2> DEFINE x == [Idle EXCEPT !.kind = "update", !.pc = "wait", !.user = u,
                               !.form = f, !.enabled = e]
  <2>1. x \in Op /\ x.pc = "wait" /\ AdminOp(x)
    BY IdleInOp, AccountsAssumption DEF Idle, Op, OpKind, OpPC, AdminOp
  <2>2. ~InTransaction(p) /\ op' = [op EXCEPT ![p] = x]
        /\ UNCHANGED <<user, token, invariantLock>>
    BY <1>2 DEF RequestUpdate, InTransaction
  <2> HIDE DEF x
  <2> QED
    BY <1>1, <2>1, <2>2, IdleSteps DEF TypeOK
<1>3. ASSUME NEW u \in User, RequestDelete(p, u)
      PROVE  AdminInv'
  <2> DEFINE x == [Idle EXCEPT !.kind = "delete", !.pc = "wait", !.user = u]
  <2>1. x \in Op /\ x.pc = "wait" /\ AdminOp(x)
    BY IdleInOp DEF Idle, Op, OpKind, OpPC, AdminOp
  <2>2. ~InTransaction(p) /\ op' = [op EXCEPT ![p] = x]
        /\ UNCHANGED <<user, token, invariantLock>>
    BY <1>3 DEF RequestDelete, InTransaction
  <2> HIDE DEF x
  <2> QED
    BY <1>1, <2>1, <2>2, IdleSteps DEF TypeOK
<1>4. CASE SyncFails(p)
  <2> DEFINE x == IF op[p].wasEnabled THEN LoginOp(op[p].user, op[p].version)
                                      ELSE Idle
  <2>0. op[p].user \in User
    BY <1>1, <1>4 DEF AdminInv, KindsMatch, AdminOp, SyncFails
  <2>1. x \in Op /\ x.pc \notin {"read", "counted"} /\ AdminOp(x)
    BY <1>1, <2>0, IdleInOp, LoginInOp DEF TypeOK, Op, LoginOp, Idle, AdminOp
  <2> HIDE DEF x
  <2> QED
    BY <1>1, <1>4, <2>1, HandlerSteps DEF TypeOK, SyncFails, ReleaseIfHeld, x
<1>5. CASE Abort(p)
  <2>1. Idle.pc = "idle" /\ AdminOp(Idle)
    BY DEF Idle, AdminOp
  <2> QED
    BY <1>1, <1>5, <2>1, IdleInOp, HandlerSteps DEF TypeOK, Abort, ReleaseIfHeld
<1> QED
  BY <1>2, <1>3, <1>4, <1>5, AcquireStep, CountStep, UpdateCommits,
     DeleteCommits DEF AdminStep

LEMMA TableStepsKeepAdmin ==
  ASSUME AdminInv, TableStep
  PROVE  AdminInv'
<1>1. TypeOK
  BY DEF AdminInv
<1>2. ASSUME NEW u \in User, BumpAuthVersionAndRevoke(u)
      PROVE  AdminInv'
  <2>1. user' \in [User -> UserRow] /\ token' \in [Token -> TokenRow]
    BY <1>1, <1>2, RevokeTyped, AccountsAssumption
    DEF BumpAuthVersionAndRevoke, NextVersion, TypeOK, UserRow
  <2>2. \A v \in User : /\ user'[v].state = user[v].state
                        /\ user'[v].enabled = user[v].enabled
                        /\ user'[v].role = user[v].role
    BY <1>1, <1>2 DEF BumpAuthVersionAndRevoke, TypeOK, UserRow
  <2> QED
    BY <1>2, <2>1, <2>2, TableSteps
    DEF BumpAuthVersionAndRevoke, EnabledSupers, Present
<1>3. ASSUME NEW u \in User, RecoverAdministrator(u)
      PROVE  AdminInv'
  <2>1. user' \in [User -> UserRow] /\ token' \in [Token -> TokenRow]
    BY <1>1, <1>3, RevokeTyped, AccountsAssumption
    DEF RecoverAdministrator, NextVersion, TypeOK, UserRow, Role
  <2>2. \A v \in User : /\ user'[v].state = user[v].state
                        /\ user'[v].enabled = user[v].enabled \/ user'[v].enabled
                        /\ user'[v].role \in {user[v].role, "super"}
    BY <1>1, <1>3 DEF RecoverAdministrator, TypeOK, UserRow
  <2> QED
    BY <1>3, <2>1, <2>2, TableSteps
    DEF RecoverAdministrator, EnabledSupers, Present
<1>4. ASSUME NEW u \in User, NEW r \in Role, NEW e \in BOOLEAN, CreateUser(u, r, e)
      PROVE  AdminInv'
  <2>1. user' \in [User -> UserRow]
    BY <1>1, <1>4, AccountsAssumption DEF CreateUser, TypeOK, UserRow
  <2>2. user'[u].state = "present" /\ \A v \in User : v # u => user'[v] = user[v]
    BY <1>1, <1>4 DEF CreateUser, TypeOK
  <2>3. EnabledSupers \subseteq EnabledSupers'
    BY <1>4, <2>2 DEF CreateUser, EnabledSupers, Present
  <2>4. \A v \in User : Present(v) => Present(v)'
    BY <2>2 DEF Present
  <2> QED
    BY <1>1, <1>4, <2>1, <2>3, <2>4, TableSteps DEF CreateUser, TypeOK
<1>5. ASSUME NEW ks \in SUBSET Token, RevokeTokens(ks)
      PROVE  AdminInv'
  BY <1>1, <1>5, RevokeTyped, TableSteps
  DEF RevokeTokens, TypeOK, EnabledSupers, Present
<1> QED
  BY <1>2, <1>3, <1>4, <1>5 DEF TableStep

LEMMA InitAdmin ==
  ASSUME Init
  PROVE  AdminInv
<1> USE AccountsAssumption DEF Init
<1>1. op \in [Proc -> Op] /\ \A p \in Proc : op[p].pc = "idle"
  BY IdleInOp DEF Idle
<1>2. TypeOK
  BY <1>1 DEF TypeOK, UserRow, TokenRow
<1> QED
  BY <1>1, <1>2
  DEF AdminInv, HolderIsInTransaction, TargetExists, KindsMatch, AdminOp,
      ReadIsSafe, CountIsSafe, AdminExists, InTransaction

LEMMA NextKeepsAdmin ==
  ASSUME AdminInv, Next
  PROVE  AdminInv'
BY LoginSteps, RequestSteps, AdminSteps, TableStepsKeepAdmin DEF Next

LEMMA StutterKeepsAdmin ==
  ASSUME AdminInv, UNCHANGED vars
  PROVE  AdminInv'
BY DEF vars, AdminInv, TypeOK, HolderIsInTransaction, TargetExists, KindsMatch,
       AdminOp, ReadIsSafe, CountIsSafe, AdminExists, InTransaction,
       RemovesEnabledSuper, RequestedRole, OtherAdmin, EnabledSupers, Present

\* The invariant behind the last-administrator rule holds for any number of
\* users, handlers and sessions, with or without a synchronised directory.
THEOREM AdminInvariant == Spec => []AdminInv
<1>1. AdminInv /\ [Next]_vars => AdminInv'
  BY NextKeepsAdmin, StutterKeepsAdmin
<1> QED
  BY InitAdmin, <1>1, PTL DEF Spec

\* Whatever role changes, disablements, deletions, directory syncs and local
\* recoveries overlap, an enabled super administrator is left.
THEOREM AdminAlwaysExists == Spec => []AdminExists
<1>1. AdminInv => AdminExists
  BY DEF AdminInv
<1> QED
  BY AdminInvariant, <1>1, PTL

-----------------------------------------------------------------------------
(* Sessions.  Three summaries of what a step does to a user row, a token row*)
(* and a handler; the invariant of the history follows from them alone.     *)

\* A user row only moves forward, unless a directory sync writes it.
UserMoves(u) ==
  /\ user[u].state = "deleted" => user'[u].state = "deleted"
  /\ user[u].state # "absent" => user'[u].state # "absent"
  /\ u \notin LdapUser /\ user[u].state = "present" =>
       user'[u].state = "deleted" \/ user[u].version <= user'[u].version

\* A token row stays, is revoked, or is stored by a login.
TokenMoves(k) ==
  \/ token'[k] = token[k]
  \/ token[k].state = "live" /\ token'[k] = [token[k] EXCEPT !.state = "revoked"]
  \/ /\ token[k].state = "free" /\ user' = user
     /\ \E p \in Proc :
          /\ op[p].pc = "issue"
          /\ token'[k] = [state |-> "live", user |-> op[p].user,
                          version |-> op[p].version]
          /\ \A q \in Proc : q # p => op'[q] = op[q]

\* What a handler's copies are after a step.
CopyKept(q) == op'[q].user = op[q].user /\ op'[q].version = op[q].version
               /\ op[q].pc # "idle"

LoginMoves(q) ==
  op'[q].kind \in {"login", "sync"} =>
    /\ \/ op[q].kind \in {"login", "sync"} /\ CopyKept(q)
       \/ /\ op[q].pc = "idle" /\ user' = user
          /\ op'[q].user \in User /\ user[op'[q].user].state = "present"
          /\ op'[q].version = user[op'[q].user].version
    /\ op'[q].kind = "sync" =>
         (op[q].kind = "sync" /\ CopyKept(q)) \/ op'[q].user \in LdapUser

RequestMoves(q) ==
  op'[q].kind = "request" =>
    \/ /\ op[q].kind = "request" /\ CopyKept(q)
       /\ op'[q].pc = op[q].pc \/ (Authenticates(q) /\ user' = user)
    \/ /\ op[q].pc = "idle" /\ op'[q].pc = "checked" /\ user' = user
       /\ op'[q].token \in Token /\ token[op'[q].token].state = "live"
       /\ op'[q].user = token[op'[q].token].user
       /\ op'[q].version = token[op'[q].token].version

ShapeMoves(q) ==
  /\ op'[q].pc = "idle" => op'[q].kind = "none"
  /\ op'[q].pc = "issue" => op'[q].kind = "login"
  /\ op'[q].pc \in {"checked", "accepted"} => op'[q].kind = "request"
  /\ op'[q].kind = "update" => op'[q].version = 0

OpMoves(q) == LoginMoves(q) /\ RequestMoves(q) /\ ShapeMoves(q)

LEMMA UserStep ==
  ASSUME AdminInv, SessionInv, Next, NEW u \in User
  PROVE  UserMoves(u)
<1>1. TypeOK
  BY DEF AdminInv
<1>2. user[u].version \in Nat
  BY <1>1, AccountsAssumption DEF TypeOK, UserRow
<1>3. CASE user' = user
  BY <1>2, <1>3 DEF UserMoves
<1>4. ASSUME NEW p \in Proc, CommitUpdate(p)
      PROVE  UserMoves(u)
  <2>1. op[p].user \in User /\ op[p].kind \in {"update", "sync"}
        /\ user[op[p].user].state = "present"
    BY <1>4 DEF AdminInv, KindsMatch, AdminOp, CommitUpdate, TargetExists,
                InTransaction, Present
  <2>2. \/ op[p].user \in LdapUser
        \/ WrittenVersion(p) = user[op[p].user].version
    BY <2>1 DEF SessionInv, SyncsAreLdap, FormsCarryNoVersion, WrittenVersion
  <2>3. CASE u = op[p].user
    <3>1. user'[u].state = "present"
          /\ user'[u].version = IF RevokesSessions(p)
                                THEN NextVersion(WrittenVersion(p))
                                ELSE WrittenVersion(p)
      BY <1>1, <1>4, <2>1, <2>3 DEF CommitUpdate, TypeOK, UserRow
    <3> QED
      BY <1>2, <2>1, <2>2, <2>3, <3>1 DEF UserMoves, NextVersion
  <2>4. CASE u # op[p].user
    BY <1>1, <1>2, <1>4, <2>1, <2>4 DEF CommitUpdate, TypeOK, UserMoves
  <2> QED BY <2>3, <2>4
<1>5. ASSUME NEW p \in Proc, CommitDelete(p)
      PROVE  UserMoves(u)
  <2>1. op[p].user \in User
    BY <1>5 DEF AdminInv, KindsMatch, AdminOp, CommitDelete
  <2> QED
    BY <1>1, <1>2, <1>5, <2>1 DEF CommitDelete, DeletedRow, NoRow, TypeOK, UserMoves
<1>6. ASSUME NEW w \in User, BumpAuthVersionAndRevoke(w) \/ RecoverAdministrator(w)
      PROVE  UserMoves(u)
  BY <1>1, <1>2, <1>6
  DEF BumpAuthVersionAndRevoke, RecoverAdministrator, NextVersion, TypeOK,
      UserRow, UserMoves
<1>7. ASSUME NEW w \in User, NEW r \in Role, NEW e \in BOOLEAN, CreateUser(w, r, e)
      PROVE  UserMoves(u)
  BY <1>1, <1>2, <1>7 DEF CreateUser, TypeOK, UserMoves
<1>8. ASSUME NEW p \in Proc, LoginStep(p) \/ RequestStep(p)
      PROVE  user' = user
  BY <1>8 DEF LoginStep, RequestStep, PasswordLogin, OauthLogin, LdapLogin,
              PersistIssuedToken, ReadToken, ReadUser, Respond
<1>9. ASSUME NEW p \in Proc, AdminStep(p)
      PROVE  user' = user \/ CommitUpdate(p) \/ CommitDelete(p)
  BY <1>9 DEF AdminStep, RequestUpdate, RequestDelete, AcquireAndRead,
              CountAdmins, SyncFails, Abort
<1>10. CASE TableStep
  BY <1>3, <1>6, <1>7, <1>10 DEF TableStep, RevokeTokens
<1> QED
  BY <1>3, <1>4, <1>5, <1>8, <1>9, <1>10 DEF Next

LEMMA RevokeMoves ==
  ASSUME TypeOK, NEW ks \in SUBSET {k \in Token : token[k].state = "live"},
         Revoke(ks), NEW k \in Token
  PROVE  TokenMoves(k)
BY DEF TypeOK, Revoke, TokenMoves

LEMMA TokenStep ==
  ASSUME AdminInv, Next, NEW k \in Token
  PROVE  TokenMoves(k)
<1>1. TypeOK
  BY DEF AdminInv
<1>2. CASE token' = token
  BY <1>2 DEF TokenMoves
<1>3. ASSUME NEW ks \in SUBSET {l \in Token : token[l].state = "live"}, Revoke(ks)
      PROVE  TokenMoves(k)
  BY <1>1, <1>3, RevokeMoves
<1>4. \A u : LiveTokens(u) \in SUBSET {l \in Token : token[l].state = "live"}
  BY DEF LiveTokens
<1>5. ASSUME NEW p \in Proc, NEW j \in Token, PersistIssuedToken(p, j)
      PROVE  TokenMoves(k)
  <2>1. \A q \in Proc : q # p => op'[q] = op[q]
    BY <1>1, <1>5 DEF PersistIssuedToken, TypeOK
  <2> QED
    BY <1>1, <1>5, <2>1
    DEF PersistIssuedToken, IssuedVersion, TypeOK, TokenMoves
<1>6. ASSUME NEW p \in Proc, LoginStep(p)
      PROVE  TokenMoves(k)
  BY <1>2, <1>5, <1>6 DEF LoginStep, PasswordLogin, OauthLogin, LdapLogin
<1>7. ASSUME NEW p \in Proc, RequestStep(p)
      PROVE  TokenMoves(k)
  BY <1>2, <1>7 DEF RequestStep, ReadToken, ReadUser, Respond
<1>8. ASSUME NEW p \in Proc, CommitUpdate(p) \/ CommitDelete(p)
      PROVE  TokenMoves(k)
  BY <1>3, <1>4, <1>8 DEF CommitUpdate, CommitDelete
<1>9. ASSUME NEW p \in Proc, AdminStep(p)
      PROVE  TokenMoves(k)
  BY <1>2, <1>8, <1>9
  DEF AdminStep, RequestUpdate, RequestDelete, AcquireAndRead, CountAdmins,
      SyncFails, Abort
<1>10. CASE TableStep
  BY <1>2, <1>3, <1>4, <1>10
  DEF TableStep, BumpAuthVersionAndRevoke, RecoverAdministrator, CreateUser,
      RevokeTokens
<1> QED
  BY <1>6, <1>7, <1>9, <1>10 DEF Next

\* A handler that a step does not concern.
LEMMA OpStays ==
  ASSUME SessionInv, NEW q \in Proc, op'[q] = op[q]
  PROVE  OpMoves(q)
BY DEF SessionInv, OpShape, FormsCarryNoVersion, OpMoves, LoginMoves,
       RequestMoves, ShapeMoves, CopyKept

\* A handler that becomes idle.
LEMMA OpEnds ==
  ASSUME NEW q \in Proc, op'[q] = Idle
  PROVE  OpMoves(q)
BY DEF Idle, OpMoves, LoginMoves, RequestMoves, ShapeMoves

\* A login goes on from an idle handler or from its sync.
LEMMA OpLogsIn ==
  ASSUME NEW q \in Proc, NEW u, NEW v, op'[q] = LoginOp(u, v),
         \/ /\ op[q].kind = "sync" /\ op[q].pc # "idle"
            /\ u = op[q].user /\ v = op[q].version
         \/ /\ op[q].pc = "idle" /\ user' = user /\ u \in User
            /\ user[u].state = "present" /\ v = user[u].version
  PROVE  OpMoves(q)
<1>1. op'[q].kind = "login" /\ op'[q].pc = "issue" /\ op'[q].user = u
      /\ op'[q].version = v
  BY DEF LoginOp, Idle
<1> QED
  BY <1>1 DEF OpMoves, LoginMoves, RequestMoves, ShapeMoves, CopyKept

LEMMA OpStep ==
  ASSUME AdminInv, SessionInv, Next, NEW q \in Proc
  PROVE  OpMoves(q)
<1>1. TypeOK
  BY DEF AdminInv
<1>2. CASE op' = op
  BY <1>2, OpStays
<1>3. ASSUME NEW p \in Proc, LoginStep(p)
      PROVE  OpMoves(q)
  <2>1. CASE q # p
    BY <1>1, <1>3, <2>1, OpStays
    DEF TypeOK, LoginStep, PasswordLogin, OauthLogin, LdapLogin, PersistIssuedToken
  <2>2. ASSUME q = p, NEW u \in User, PasswordLogin(p, u) \/ OauthLogin(p, u)
        PROVE  OpMoves(q)
    <3>1. op'[q] = LoginOp(u, user[u].version) /\ op[q].pc = "idle"
          /\ user' = user /\ user[u].state = "present"
      BY <1>1, <2>2 DEF TypeOK, PasswordLogin, OauthLogin, Present
    <3> QED
      BY <3>1, OpLogsIn
  <2>3. ASSUME q = p, NEW u \in User, NEW a \in BOOLEAN, NEW e \in BOOLEAN,
               LdapLogin(p, u, a, e)
        PROVE  OpMoves(q)
    <3>1. op'[q].kind = "sync" /\ op'[q].pc = "wait" /\ op'[q].user = u
          /\ op'[q].version = user[u].version
      BY <1>1, <2>3 DEF TypeOK, LdapLogin, Idle
    <3>2. op[q].pc = "idle" /\ user' = user /\ user[u].state = "present"
          /\ u \in LdapUser
      BY <2>3 DEF LdapLogin, Present
    <3> QED
      BY <3>1, <3>2 DEF OpMoves, LoginMoves, RequestMoves, ShapeMoves
  <2>4. ASSUME q = p, NEW k \in Token, PersistIssuedToken(p, k)
        PROVE  OpMoves(q)
    BY <1>1, <2>4, OpEnds DEF TypeOK, PersistIssuedToken
  <2> QED
    BY <1>3, <2>1, <2>2, <2>3, <2>4 DEF LoginStep
<1>4. ASSUME NEW p \in Proc, RequestStep(p)
      PROVE  OpMoves(q)
  <2>1. CASE q # p
    BY <1>1, <1>4, <2>1, OpStays DEF TypeOK, RequestStep, ReadToken, ReadUser, Respond
  <2>2. ASSUME q = p, NEW k \in Token, ReadToken(p, k)
        PROVE  OpMoves(q)
    <3>1. op'[q].kind = "request" /\ op'[q].pc = "checked" /\ op'[q].token = k
          /\ op'[q].user = token[k].user /\ op'[q].version = token[k].version
      BY <1>1, <2>2 DEF TypeOK, ReadToken, Idle
    <3>2. op[q].pc = "idle" /\ user' = user /\ token[k].state = "live"
      BY <2>2 DEF ReadToken
    <3> QED
      BY <3>1, <3>2 DEF OpMoves, LoginMoves, RequestMoves, ShapeMoves
  <2>3. CASE q = p /\ ReadUser(p)
    <3>1. CASE Authenticates(p)
      <4>1. op'[q] = [op[q] EXCEPT !.pc = "accepted"]
        BY <1>1, <2>3, <3>1 DEF TypeOK, ReadUser
      <4>2. op'[q].kind = op[q].kind /\ op'[q].pc = "accepted"
            /\ op'[q].user = op[q].user /\ op'[q].version = op[q].version
        BY <1>1, <4>1 DEF TypeOK, Op
      <4>3. op[q].kind = "request" /\ op[q].pc = "checked" /\ user' = user
        BY <2>3 DEF SessionInv, OpShape, ReadUser
      <4> QED
        BY <2>3, <3>1, <4>2, <4>3
        DEF OpMoves, LoginMoves, RequestMoves, ShapeMoves, CopyKept
    <3>2. CASE ~Authenticates(p)
      BY <1>1, <2>3, <3>2, OpEnds DEF TypeOK, ReadUser
    <3> QED BY <3>1, <3>2
  <2>4. CASE q = p /\ Respond(p)
    BY <1>1, <2>4, OpEnds DEF TypeOK, Respond
  <2> QED
    BY <1>4, <2>1, <2>2, <2>3, <2>4 DEF RequestStep
<1>5. ASSUME NEW p \in Proc, AdminStep(p)
      PROVE  OpMoves(q)
  <2>1. CASE q # p
    BY <1>1, <1>5, <2>1, OpStays
    DEF TypeOK, AdminStep, RequestUpdate, RequestDelete, AcquireAndRead,
        CountAdmins, CommitUpdate, CommitDelete, SyncFails, Abort
  <2>2. ASSUME q = p, NEW u \in User, NEW f \in Form, NEW e \in BOOLEAN,
               RequestUpdate(p, u, f, e)
        PROVE  OpMoves(q)
    <3>1. op'[q].kind = "update" /\ op'[q].pc = "wait" /\ op'[q].version = 0
      BY <1>1, <2>2 DEF TypeOK, RequestUpdate, Idle
    <3> QED
      BY <3>1 DEF OpMoves, LoginMoves, RequestMoves, ShapeMoves
  <2>3. ASSUME q = p, NEW u \in User, RequestDelete(p, u)
        PROVE  OpMoves(q)
    <3>1. op'[q].kind = "delete" /\ op'[q].pc = "wait"
      BY <1>1, <2>3 DEF TypeOK, RequestDelete, Idle
    <3> QED
      BY <3>1 DEF OpMoves, LoginMoves, RequestMoves, ShapeMoves
  <2>4. CASE q = p /\ (AcquireAndRead(p) \/ CountAdmins(p))
    <3>1. op'[q].kind = op[q].kind /\ op'[q].pc \in {"read", "counted"}
          /\ op'[q].user = op[q].user /\ op'[q].version = op[q].version
      BY <1>1, <2>4 DEF TypeOK, Op, AcquireAndRead, CountAdmins
    <3>2. op[q].pc \in {"wait", "read"}
          /\ op[q].kind \in {"update", "sync", "delete"}
      BY <2>4 DEF AdminInv, KindsMatch, AdminOp, AcquireAndRead, CountAdmins
    <3>3. op[q].kind = "update" => op[q].version = 0
      BY DEF SessionInv, FormsCarryNoVersion
    <3> QED
      BY <3>1, <3>2, <3>3
      DEF OpMoves, LoginMoves, RequestMoves, ShapeMoves, CopyKept
  <2>5. CASE q = p /\ CommitUpdate(p)
    <3>1. op'[q] = AfterUpdate(q) /\ op[q].pc = "counted"
      BY <1>1, <2>5 DEF TypeOK, CommitUpdate
    <3>2. CASE op'[q] = LoginOp(op[q].user, op[q].version) /\ op[q].kind = "sync"
      BY <3>1, <3>2, OpLogsIn
    <3>3. CASE op'[q] = Idle
      BY <3>3, OpEnds
    <3> QED
      BY <3>1, <3>2, <3>3 DEF AfterUpdate
  <2>6. CASE q = p /\ CommitDelete(p)
    BY <1>1, <2>6, OpEnds DEF TypeOK, CommitDelete
  <2>7. CASE q = p /\ SyncFails(p)
    <3>1. op'[q] = Idle \/ op'[q] = LoginOp(op[q].user, op[q].version)
      BY <1>1, <2>7 DEF TypeOK, SyncFails
    <3>2. op[q].kind = "sync" /\ op[q].pc # "idle"
      BY <2>7 DEF SyncFails
    <3>3. op'[q] = LoginOp(op[q].user, op[q].version) => OpMoves(q)
      BY <3>2, OpLogsIn
    <3> QED
      BY <3>1, <3>3, OpEnds
  <2>8. CASE q = p /\ Abort(p)
    BY <1>1, <2>8, OpEnds DEF TypeOK, Abort
  <2> QED
    BY <1>5, <2>1, <2>2, <2>3, <2>4, <2>5, <2>6, <2>7, <2>8 DEF AdminStep
<1>6. CASE TableStep
  BY <1>2, <1>6 DEF TableStep, BumpAuthVersionAndRevoke, RecoverAdministrator,
                    CreateUser, RevokeTokens
<1> QED
  BY <1>3, <1>4, <1>5, <1>6 DEF Next

-----------------------------------------------------------------------------
(* The invariant of the history                                             *)

\* Behind, of a user after the step.
BehindNext(u, version) ==
  \/ u \in LdapUser
  \/ user'[u].state = "deleted"
  \/ version < user'[u].version

\* A version left behind stays behind.
LEMMA BehindStays ==
  ASSUME TypeOK, TypeOK', NEW u \in User, UserMoves(u),
         user[u].state # "absent", NEW v \in Nat, Behind(u, v)
  PROVE  BehindNext(u, v)
<1>1. user[u].version \in Nat /\ user'[u].version \in Nat
      /\ user[u].state \in {"absent", "present", "deleted"}
  BY AccountsAssumption DEF TypeOK, UserRow
<1> QED
  BY <1>1 DEF Behind, BehindNext, UserMoves

\* An invalidation leaves the versions behind that were not ahead of it.
LEMMA InvalidatedIsBehind ==
  ASSUME TypeOK, TypeOK', NEW u \in Invalidated, UserMoves(u), NEW v \in Nat,
         \/ u \in LdapUser
         \/ user[u].state = "deleted"
         \/ v <= user[u].version
  PROVE  BehindNext(u, v)
<1>1. u \in User /\ user[u].version \in Nat /\ user'[u].version \in Nat
  BY AccountsAssumption DEF TypeOK, UserRow, Invalidated
<1> QED
  BY <1>1 DEF BehindNext, UserMoves, Invalidated

LEMMA NotAheadStays ==
  ASSUME TypeOK, TypeOK', NEW u \in User, UserMoves(u),
         user[u].state # "absent", NEW v \in Nat,
         \/ u \in LdapUser
         \/ user[u].state = "deleted"
         \/ v <= user[u].version
  PROVE  /\ user'[u].state # "absent"
         /\ \/ u \in LdapUser
            \/ user'[u].state = "deleted"
            \/ v <= user'[u].version
<1>1. user[u].version \in Nat /\ user'[u].version \in Nat
      /\ user[u].state \in {"absent", "present", "deleted"}
  BY AccountsAssumption DEF TypeOK, UserRow
<1> QED
  BY <1>1 DEF UserMoves

LEMMA SessionStep ==
  ASSUME AdminInv, AdminInv', SessionInv, Next, Record
  PROVE  SessionInv'
<1>1. TypeOK /\ TypeOK'
  BY DEF AdminInv
<1>2. \A u \in User : UserMoves(u)
  BY UserStep
<1>3. \A k \in Token : TokenMoves(k)
  BY TokenStep
<1>4. \A q \in Proc : OpMoves(q)
  BY OpStep
<1>5. /\ \A q \in Proc : op[q].version \in Nat
      /\ \A k \in Token : token[k].version \in Nat
      /\ \A u \in User : user[u].version \in Nat
  BY <1>1, AccountsAssumption DEF TypeOK, Op, TokenRow, UserRow
<1>6. OpShape' /\ FormsCarryNoVersion'
  BY <1>4 DEF OpMoves, ShapeMoves, OpShape, FormsCarryNoVersion
<1>7. SyncsAreLdap'
  <2> SUFFICES ASSUME NEW q \in Proc, op'[q].kind = "sync"
               PROVE  op'[q].user \in LdapUser
    BY DEF SyncsAreLdap
  <2> QED
    BY <1>4 DEF OpMoves, LoginMoves, CopyKept, SessionInv, SyncsAreLdap
<1>8. CopiesNotAhead'
  <2>1. ASSUME NEW q \in Proc, op'[q].kind \in {"login", "sync"}
        PROVE  /\ op'[q].user \in User /\ user'[op'[q].user].state # "absent"
               /\ \/ op'[q].user \in LdapUser
                  \/ user'[op'[q].user].state = "deleted"
                  \/ op'[q].version <= user'[op'[q].user].version
    <3>1. CASE op[q].kind \in {"login", "sync"} /\ CopyKept(q)
      <4>1. /\ op[q].user \in User /\ user[op[q].user].state # "absent"
            /\ \/ op[q].user \in LdapUser
               \/ user[op[q].user].state = "deleted"
               \/ op[q].version <= user[op[q].user].version
        BY <3>1 DEF SessionInv, CopiesNotAhead
      <4> QED
        BY <1>1, <1>2, <1>5, <3>1, <4>1, NotAheadStays DEF CopyKept
    <3>2. CASE /\ user' = user
               /\ op'[q].user \in User /\ user[op'[q].user].state = "present"
               /\ op'[q].version = user[op'[q].user].version
      BY <1>5, <3>2
    <3> QED
      BY <1>4, <2>1, <3>1, <3>2 DEF OpMoves, LoginMoves
  <2>2. ASSUME NEW q \in Proc, op'[q].kind = "request"
        PROVE  op'[q].user \in User /\ user'[op'[q].user].state # "absent"
    <3>1. CASE op[q].kind = "request" /\ CopyKept(q)
      BY <1>2, <3>1 DEF SessionInv, CopiesNotAhead, CopyKept, UserMoves
    <3>2. CASE /\ op'[q].token \in Token /\ token[op'[q].token].state = "live"
               /\ op'[q].user = token[op'[q].token].user /\ user' = user
      BY <3>2 DEF SessionInv, CopiesNotAhead
    <3> QED
      BY <1>4, <2>2, <3>1, <3>2 DEF OpMoves, RequestMoves
  <2>3. ASSUME NEW k \in Token, token'[k].state = "live"
        PROVE  /\ token'[k].user \in User /\ user'[token'[k].user].state # "absent"
               /\ \/ token'[k].user \in LdapUser
                  \/ user'[token'[k].user].state = "deleted"
                  \/ token'[k].version <= user'[token'[k].user].version
    <3>1. CASE token'[k] = token[k]
      <4>1. /\ token[k].user \in User /\ user[token[k].user].state # "absent"
            /\ \/ token[k].user \in LdapUser
               \/ user[token[k].user].state = "deleted"
               \/ token[k].version <= user[token[k].user].version
        BY <2>3, <3>1 DEF SessionInv, CopiesNotAhead
      <4> QED
        BY <1>1, <1>2, <1>5, <3>1, <4>1, NotAheadStays
    <3>2. ASSUME NEW p \in Proc, op[p].pc = "issue", user' = user,
                 token'[k] = [state |-> "live", user |-> op[p].user,
                              version |-> op[p].version]
          PROVE  /\ token'[k].user \in User /\ user'[token'[k].user].state # "absent"
                 /\ \/ token'[k].user \in LdapUser
                    \/ user'[token'[k].user].state = "deleted"
                    \/ token'[k].version <= user'[token'[k].user].version
      BY <3>2 DEF SessionInv, OpShape, CopiesNotAhead
    <3>3. token'[k] # [token[k] EXCEPT !.state = "revoked"]
      BY <1>1, <2>3 DEF TypeOK, TokenRow
    <3> QED
      BY <1>3, <3>1, <3>2, <3>3 DEF TokenMoves
  <2> QED
    BY <2>1, <2>2, <2>3 DEF CopiesNotAhead
<1>9. killed' \subseteq Token /\ stale' \subseteq Proc /\ late' \subseteq Proc
  BY DEF SessionInv, Record, StoredStale
<1>10. KilledIsDead'
  <2> SUFFICES ASSUME NEW k \in killed'
               PROVE  \/ token'[k].state = "revoked"
                      \/ /\ token'[k].state = "live"
                         /\ BehindNext(token'[k].user, token'[k].version)
    BY DEF KilledIsDead, Behind, BehindNext
  <2>1. k \in Token /\ TokenMoves(k)
    BY <1>3, <1>9
  <2>2. ASSUME token[k].state = "live", Behind(token[k].user, token[k].version)
        PROVE  \/ token'[k].state = "revoked"
               \/ /\ token'[k].state = "live"
                  /\ BehindNext(token'[k].user, token'[k].version)
    <3>1. token[k].user \in User /\ user[token[k].user].state # "absent"
      BY <2>1, <2>2 DEF SessionInv, CopiesNotAhead
    <3>2. ASSUME NEW u \in User, NEW v \in Nat, u = token[k].user,
                 v = token[k].version
          PROVE  BehindNext(u, v)
      BY <1>1, <1>2, <2>2, <3>1, <3>2, BehindStays
    <3>3. CASE token'[k] = token[k]
      <4>1. PICK u \in User, v \in Nat : u = token[k].user /\ v = token[k].version
        BY <1>5, <2>1, <3>1
      <4> QED
        BY <2>2, <3>2, <3>3, <4>1
    <3>4. CASE token'[k] = [token[k] EXCEPT !.state = "revoked"]
      BY <1>1, <2>1, <3>4 DEF TypeOK, TokenRow
    <3> QED
      BY <2>1, <2>2, <3>3, <3>4 DEF TokenMoves
  <2>3. CASE k \in killed
    <3>1. \/ token[k].state = "revoked"
          \/ token[k].state = "live" /\ Behind(token[k].user, token[k].version)
      BY <2>3 DEF SessionInv, KilledIsDead
    <3> QED
      BY <2>1, <2>2, <3>1 DEF TokenMoves
  <2>4. CASE k \in StoredStale
    <3>1. PICK p \in stale : op[p].pc = "issue" /\ op'[p].pc = "idle"
      BY <2>4 DEF StoredStale
    <3>2. p \in Proc /\ Behind(op[p].user, op[p].version)
      BY <3>1 DEF SessionInv, StaleIsBehind
    <3>3. token[k].state = "free" /\ token'[k].state = "live"
      BY <2>4 DEF StoredStale
    <3>4. user' = user /\ token'[k] = [state |-> "live", user |-> op[p].user,
                                       version |-> op[p].version]
      BY <2>1, <3>1, <3>2, <3>3 DEF TokenMoves
    <3> QED
      BY <3>2, <3>4 DEF Behind, BehindNext
  <2>5. CASE token[k].state = "live" /\ token'[k].state # "live"
    BY <1>1, <2>1, <2>5 DEF TokenMoves, TypeOK, TokenRow
  <2>6. CASE token[k].state = "live" /\ token[k].user \in Invalidated
    <3>1. /\ token[k].user \in User
          /\ \/ token[k].user \in LdapUser
             \/ user[token[k].user].state = "deleted"
             \/ token[k].version <= user[token[k].user].version
      BY <2>1, <2>6 DEF SessionInv, CopiesNotAhead
    <3>2. PICK u \in User, v \in Nat : u = token[k].user /\ v = token[k].version
      BY <1>5, <2>1, <3>1
    <3>3. BehindNext(u, v)
      BY <1>1, <1>2, <2>6, <3>1, <3>2, InvalidatedIsBehind
    <3>4. CASE token'[k] = token[k]
      BY <2>6, <3>2, <3>3, <3>4
    <3>5. CASE token'[k] = [token[k] EXCEPT !.state = "revoked"]
      BY <1>1, <2>1, <3>5 DEF TypeOK, TokenRow
    <3> QED
      BY <2>1, <2>6, <3>4, <3>5 DEF TokenMoves
  <2> QED
    BY <2>3, <2>4, <2>5, <2>6 DEF Record
<1>11. StaleIsBehind'
  <2> SUFFICES ASSUME NEW p \in stale'
               PROVE  /\ op'[p].kind \in {"login", "sync"}
                      /\ BehindNext(op'[p].user, op'[p].version)
    BY DEF StaleIsBehind, Behind, BehindNext
  <2>1. /\ p \in Proc /\ op'[p].kind \in {"login", "sync"}
        /\ p \in stale \/ op[p].user \in Invalidated
    BY DEF Record
  <2>2. op[p].kind \in {"login", "sync"} /\ CopyKept(p)
    <3>1. CASE p \in stale
      BY <1>4, <2>1, <3>1
      DEF OpMoves, LoginMoves, SessionInv, StaleIsBehind, OpShape
    <3>2. CASE op[p].user \in Invalidated
      <4>1. user' # user
        BY <1>5, <3>2 DEF Invalidated, Present
      <4> QED
        BY <1>4, <2>1, <4>1 DEF OpMoves, LoginMoves
    <3> QED BY <2>1, <3>1, <3>2
  <2>3. /\ op[p].user \in User /\ user[op[p].user].state # "absent"
        /\ \/ op[p].user \in LdapUser
           \/ user[op[p].user].state = "deleted"
           \/ op[p].version <= user[op[p].user].version
    BY <2>1, <2>2 DEF SessionInv, CopiesNotAhead
  <2>4. PICK u \in User, v \in Nat : u = op[p].user /\ v = op[p].version
    BY <1>5, <2>1, <2>3
  <2>5. BehindNext(u, v)
    <3>1. CASE p \in stale
      BY <1>1, <1>2, <2>3, <2>4, <3>1, BehindStays DEF SessionInv, StaleIsBehind
    <3>2. CASE op[p].user \in Invalidated
      BY <1>1, <1>2, <2>3, <2>4, <3>2, InvalidatedIsBehind
    <3> QED BY <2>1, <3>1, <3>2
  <2> QED
    BY <2>1, <2>2, <2>4, <2>5 DEF CopyKept
<1>12. LateIsBehind'
  <2> SUFFICES ASSUME NEW p \in late'
               PROVE  /\ op'[p].kind = "request"
                      /\ BehindNext(op'[p].user, op'[p].version)
                      /\ op'[p].user \notin LdapUser => op'[p].pc = "checked"
    BY DEF LateIsBehind, Behind, BehindNext
  <2>1. /\ p \in Proc /\ op'[p].kind = "request"
        /\ p \in late \/ (op[p].pc = "idle" /\ op'[p].token \in killed)
    BY DEF Record
  <2>2. CASE p \in late
    <3>1. /\ op[p].kind = "request" /\ Behind(op[p].user, op[p].version)
          /\ op[p].user \notin LdapUser => op[p].pc = "checked"
          /\ op[p].user \in User /\ user[op[p].user].state # "absent"
      BY <2>1, <2>2 DEF SessionInv, LateIsBehind, CopiesNotAhead
    <3>2. CopyKept(p) /\ (op'[p].pc = op[p].pc \/ (Authenticates(p) /\ user' = user))
      BY <1>4, <2>1, <3>1 DEF OpMoves, RequestMoves, SessionInv, OpShape
    <3>3. PICK u \in User, v \in Nat : u = op[p].user /\ v = op[p].version
      BY <1>5, <2>1, <3>1
    <3>4. BehindNext(u, v)
      BY <1>1, <1>2, <3>1, <3>3, BehindStays
    <3>5. op[p].user \notin LdapUser => ~Authenticates(p)
      BY <1>5, <3>1 DEF Behind, Authenticates, Present
    <3> QED
      BY <2>1, <3>1, <3>2, <3>3, <3>4, <3>5 DEF CopyKept
  <2>3. CASE op[p].pc = "idle" /\ op'[p].token \in killed
    <3>1. /\ op'[p].pc = "checked" /\ user' = user
          /\ token[op'[p].token].state = "live"
          /\ op'[p].user = token[op'[p].token].user
          /\ op'[p].version = token[op'[p].token].version
      BY <1>4, <2>1, <2>3 DEF OpMoves, RequestMoves, CopyKept
    <3>2. Behind(op'[p].user, op'[p].version)
      BY <2>3, <3>1 DEF SessionInv, KilledIsDead
    <3> QED
      BY <2>1, <3>1, <3>2 DEF Behind, BehindNext
  <2> QED BY <2>1, <2>2, <2>3
<1> QED
  BY <1>1, <1>6, <1>7, <1>8, <1>9, <1>10, <1>11, <1>12 DEF SessionInv

LEMMA InitSession ==
  ASSUME HInit
  PROVE  AdminInv /\ SessionInv
<1>1. AdminInv
  BY InitAdmin DEF HInit
<1>2. /\ \A p \in Proc : op[p] = Idle
      /\ \A k \in Token : token[k].state = "free"
      /\ killed = {} /\ stale = {} /\ late = {}
  BY DEF HInit, Init
<1>3. CopiesNotAhead /\ OpShape /\ FormsCarryNoVersion /\ SyncsAreLdap
  BY <1>2 DEF Idle, CopiesNotAhead, OpShape, FormsCarryNoVersion, SyncsAreLdap
<1> QED
  BY <1>1, <1>2, <1>3
  DEF SessionInv, KilledIsDead, StaleIsBehind, LateIsBehind

LEMMA StutterKeepsSession ==
  ASSUME SessionInv, UNCHANGED hvars
  PROVE  SessionInv'
<1>1. UNCHANGED <<user, token, op, invariantLock, killed, stale, late>>
  BY DEF hvars
<1>2. OpShape' /\ FormsCarryNoVersion' /\ SyncsAreLdap'
  BY <1>1 DEF SessionInv, OpShape, FormsCarryNoVersion, SyncsAreLdap
<1>3. CopiesNotAhead'
  BY <1>1 DEF SessionInv, CopiesNotAhead
<1>4. KilledIsDead' /\ StaleIsBehind' /\ LateIsBehind'
  BY <1>1 DEF SessionInv, KilledIsDead, StaleIsBehind, LateIsBehind, Behind
<1> QED
  BY <1>1, <1>2, <1>3, <1>4 DEF SessionInv

\* A version that a local account once left behind is never current again,
\* whatever logins, requests, updates and directory syncs were under way when
\* it was (bumpAuthVersionAndRevokeCount and its callers in service/user.go).
THEOREM SessionInvariant == HSpec => [](AdminInv /\ SessionInv)
<1>1. HInit => AdminInv /\ SessionInv
  BY InitSession
<1>2. ASSUME AdminInv, SessionInv, [HNext]_hvars
      PROVE  AdminInv' /\ SessionInv'
  <2>1. CASE HNext
    BY <1>2, <2>1, NextKeepsAdmin, SessionStep DEF HNext
  <2>2. CASE UNCHANGED hvars
    <3>1. UNCHANGED vars
      BY <2>2 DEF hvars, vars
    <3> QED
      BY <1>2, <2>2, <3>1, StutterKeepsAdmin, StutterKeepsSession
  <2> QED
    BY <1>2, <2>1, <2>2
<1> QED
  BY <1>1, <1>2, PTL DEF HSpec

\* A request that begins with a session of a local account that was revoked,
\* expired, or overtaken by a global logout, a password, role or status change
\* is never served (AuthenticateAccessTokenContext).
THEOREM InvalidatedNeverServed == HSpec => []KilledNeverAcceptedLocally
<1>1. SessionInv => KilledNeverAcceptedLocally
  BY DEF SessionInv, LateIsBehind, KilledNeverAcceptedLocally
<1> QED
  BY SessionInvariant, <1>1, PTL
-----------------------------------------------------------------------------
(* SchemaMigration: the steps of a migration and what they leave             *)

LEMMA SameLength ==
  ASSUME NEW s, s \in Seq(Range(s)), NEW t, t = [i \in DOMAIN s |-> t[i]]
  PROVE  t \in Seq(Range(t)) /\ Len(t) = Len(s) /\ DOMAIN t = DOMAIN s
<1>1. DOMAIN s = 1..Len(s) /\ Len(s) \in Nat
  BY LenProperties
<1>2. \A i \in DOMAIN s : t[i] \in Range(t)
  BY DEF Range
<1>3. t \in [1..Len(s) -> Range(t)]
  BY <1>1, <1>2
<1>4. t \in Seq(Range(t))
  BY <1>1, <1>3, SeqDef
<1>5. DOMAIN t = 1..Len(s)
  BY <1>3
<1> QED
  BY <1>1, <1>4, <1>5, LenProperties

\* The numbers of the steps that are asked after.
LEMMA Numbers ==
  /\ Len(Order) = 22 /\ DOMAIN Order = 1..22
  /\ Order[11] = "users" /\ Order[16] = "promote" /\ Order[18] = "normalize"
  /\ Order[19] = "mirror" /\ Order[22] = "record"
  /\ \A i \in 1..22 : /\ Order[i] = "mirror" => i = 19
                      /\ Order[i] = "record" => i = 22
<1>1. Len(Order) = 22 /\ DOMAIN Order = 1..22
  BY DEF Order
<1>2. \A i \in 1..22 : /\ Order[i] = "mirror" => i = 19
                       /\ Order[i] = "record" => i = 22
  BY DEF Order
<1> QED
  BY <1>1, <1>2 DEF Order

\* What a step of the migration makes of the record of its process.
Moved(w, v) ==
  /\ DOMAIN v = {"pc", "step", "legacy", "initial", "todo"}
  /\ w.pc = "migrating" /\ w.step \in 1..22 /\ v.step \in 1..22
  /\ v.initial = w.initial /\ v.legacy = w.legacy
  /\ \/ v.pc = "verifying" /\ w.step = 22
     \/ v.pc = "migrating" /\ v.step \in {w.step, w.step + 1}

Asked == {"users", "promote", "normalize", "mirror"}

LEMMA PassedNext ==
  ASSUME NEW w, NEW v, Moved(w, v), NEW s \in Range(Order), Passed(v, s)
  PROVE  Passed(w, s) \/ Order[w.step] = s
<1>1. PICK k \in 1..22 : Order[k] = s
  BY Numbers DEF Range
<1>2. CASE v.pc = "verifying"
  <2>1. k < 22 \/ k = 22
    OBVIOUS
  <2>2. w.pc = "migrating" /\ w.step = 22
    BY <1>2 DEF Moved
  <2> QED
    BY <1>1, <2>1, <2>2, Numbers DEF Passed
<1>3. CASE v.pc # "verifying"
  <2>1. PICK i \in 1..22 : i < v.step /\ Order[i] = s
    BY <1>3, Numbers DEF Passed
  <2>2. w.pc = "migrating" /\ (i < w.step \/ i = w.step)
    BY <1>3, <2>1 DEF Moved
  <2> QED
    BY <2>1, <2>2, Numbers DEF Passed
<1> QED
  BY <1>2, <1>3

\* No step makes an account worse; some steps make all of them better.
Kept(u, v) ==
  /\ DOMAIN v = AccountColumns /\ v.isAdmin \in BOOLEAN /\ v.auth \in Nat
  /\ Due(v) = Due(u)
  /\ Generated(u) => Generated(v)
  /\ Promoted(u) => Promoted(v)
  /\ Normalized(u) => Normalized(v)
  /\ Mirrored(u) => Mirrored(v)

Bettered(step, v) ==
  /\ step = "users" => Generated(v)
  /\ step = "promote" => Promoted(v)
  /\ step = "normalize" => Normalized(v)
  /\ step = "mirror" => Mirrored(v)

LEMMA AfterNext ==
  ASSUME NEW w, NEW v, Moved(w, v), NEW us, NEW vs, AccountsAfter(w, us),
         DOMAIN vs = DOMAIN us,
         \A i \in DOMAIN us : Kept(us[i], vs[i]) /\ Bettered(Order[w.step], vs[i])
  PROVE  AccountsAfter(v, vs)
<1> SUFFICES ASSUME NEW i \in DOMAIN us
             PROVE  /\ Passed(v, "users") => Generated(vs[i])
                    /\ Passed(v, "promote") => Promoted(vs[i])
                    /\ Passed(v, "normalize") => Normalized(vs[i])
                    /\ Passed(v, "mirror") => Mirrored(vs[i])
  BY DEF AccountsAfter
<1>1. /\ Passed(w, "users") => Generated(us[i])
      /\ Passed(w, "promote") => Promoted(us[i])
      /\ Passed(w, "normalize") => Normalized(us[i])
      /\ Passed(w, "mirror") => Mirrored(us[i])
  BY DEF AccountsAfter
<1>2. Kept(us[i], vs[i]) /\ Bettered(Order[w.step], vs[i])
  OBVIOUS
<1>3. /\ Passed(v, "users") => Passed(w, "users") \/ Order[w.step] = "users"
      /\ Passed(v, "promote") => Passed(w, "promote") \/ Order[w.step] = "promote"
      /\ Passed(v, "normalize") => Passed(w, "normalize") \/ Order[w.step] = "normalize"
      /\ Passed(v, "mirror") => Passed(w, "mirror") \/ Order[w.step] = "mirror"
  <2>1. Asked \subseteq Range(Order)
    BY Numbers DEF Asked, Range
  <2> QED
    BY <2>1, PassedNext DEF Asked
<1> QED
  BY <1>1, <1>2, <1>3 DEF Kept, Bettered

-----------------------------------------------------------------------------
(* The rows of accounts                                                      *)

Row(u) == DOMAIN u = AccountColumns /\ u.isAdmin \in BOOLEAN /\ u.auth \in Nat

LEMMA RowKept ==
  ASSUME NEW u, Row(u)
  PROVE  Kept(u, u)
BY DEF Row, Kept

\* A column no role or generation depends on.
LEMMA ColumnKept ==
  ASSUME NEW u, Row(u), NEW x
  PROVE  Kept(u, [u EXCEPT !.email = x]) /\ Kept(u, [u EXCEPT !.name = x])
BY DEF Row, Kept, AccountColumns, Due, Generated, Promoted, Normalized, Mirrored

LEMMA RoleColumnKept ==
  ASSUME NEW u, Row(u)
  PROVE  Kept(u, [u EXCEPT !.role = IF @ = "missing" THEN "user" ELSE @])
BY DEF Row, Kept, AccountColumns, Due, Generated, Promoted, Normalized, Mirrored, Administrators, Roles

LEMMA VersionedKept ==
  ASSUME NEW u, Row(u)
  PROVE  Kept(u, Versioned(u)) /\ Generated(Versioned(u))
BY DEF Row, Kept, AccountColumns, Due, Generated, Promoted, Normalized, Mirrored, Versioned

LEMMA PromotedKept ==
  ASSUME NEW u, Row(u)
  PROVE  LET v == [u EXCEPT !.role = IF u.isAdmin /\ @ \notin Administrators THEN "super" ELSE @]
         IN  Kept(u, v) /\ Promoted(v)
BY DEF Row, Kept, AccountColumns, Due, Generated, Promoted, Normalized, Mirrored, Administrators, Roles

LEMMA OrdinaryKept ==
  ASSUME NEW u, Row(u)
  PROVE  Kept(u, Ordinary(u)) /\ Normalized(Ordinary(u))
BY DEF Row, Kept, AccountColumns, Due, Generated, Promoted, Normalized, Mirrored, Administrators, Roles,
       Ordinary

LEMMA MirroredKept ==
  ASSUME NEW u, Row(u), Promoted(u)
  PROVE  LET v == [u EXCEPT !.isAdmin = u.role \in Administrators]
         IN  Kept(u, v) /\ Mirrored(v)
<1> DEFINE b == u.role \in Administrators
           v == [u EXCEPT !.isAdmin = b]
<1>1. b \in BOOLEAN
  OBVIOUS
<1> HIDE DEF b
<1>2. DOMAIN v = DOMAIN u /\ v.role = u.role /\ v.auth = u.auth /\ v.isAdmin = b
  BY DEF Row, AccountColumns
<1> HIDE DEF v
<1>3. v.isAdmin <=> u.role \in Administrators
  BY <1>2 DEF b
<1>4. Due(v) = Due(u)
  BY <1>2, <1>3 DEF Due, Promoted
<1>5. Mirrored(v) /\ Promoted(v) /\ (Normalized(u) => Normalized(v)) /\ (Generated(u) => Generated(v))
  BY <1>2, <1>3 DEF Mirrored, Promoted, Normalized, Generated
<1>6. DOMAIN v = AccountColumns /\ v.isAdmin \in BOOLEAN /\ v.auth \in Nat
  BY <1>1, <1>2 DEF Row
<1>7. Kept(u, v) /\ Mirrored(v)
  BY <1>4, <1>5, <1>6 DEF Kept
<1> QED
  BY <1>7 DEF v, b

-----------------------------------------------------------------------------
(* One process steps, and the others stay                                    *)

\* A process does something while the database stays.
LEMMA ProcessStep ==
  ASSUME SchemaInv, UNCHANGED <<db, first>>, NEW p \in Process, NEW w,
         DOMAIN w = {"pc", "step", "legacy", "initial", "todo"}, proc' = [proc EXCEPT ![p] = w],
         MigrationFits(w), LockHeld', ServedIsCurrent'
  PROVE  SchemaInv'
<1>1. /\ first' \in Stored /\ UsersFit(db)' /\ AccountsKept'
      /\ InspectSchema(first)' = "invalid" => db' = first'
      /\ InspectSchema(db)' = "current" => AccountsMigrated'
  BY DEF SchemaInv, AccountsKept, AccountsMigrated
<1>2. proc' = [q \in Process |-> proc'[q]] /\ \A q \in Process : proc'[q] = IF q = p THEN w ELSE proc[q]
  BY DEF SchemaInv
<1>3. \A q \in Process : DOMAIN proc'[q] = {"pc", "step", "legacy", "initial", "todo"}
  BY <1>2 DEF SchemaInv
<1>4. \A q \in Process : MigrationFits(proc[q])'
  BY <1>2 DEF SchemaInv, MigrationFits
<1> QED
  BY <1>1, <1>2, <1>3, <1>4 DEF SchemaInv

\* The one that holds the lock makes a step, the accounts no worse.
LEMMA MigrationStep ==
  ASSUME SchemaInv, UNCHANGED <<first, lock>>, NEW p \in Process, NEW w,
         Moved(proc[p], w), proc' = [proc EXCEPT ![p] = w],
         UsersFit(db)', AccountsKept', AccountsAfter(w, db'.users),
         w.pc = "migrating" => db'.versions = db.versions,
         InspectSchema(db)' = "current" => AccountsMigrated'
  PROVE  SchemaInv'
<1>1. /\ proc[p].pc = "migrating" /\ w.pc \in {"migrating", "verifying"}
      /\ DOMAIN w = {"pc", "step", "legacy", "initial", "todo"}
  BY DEF Moved
<1>2. \A q \in Process : proc'[q] = IF q = p THEN w ELSE proc[q]
  BY DEF SchemaInv
<1>3. lock = p /\ \A q \in Process \ {p} : proc[q].pc \notin {"inspecting", "migrating", "verifying"}
  BY <1>1 DEF SchemaInv, LockHeld
<1>4. ~Served
  BY <1>1 DEF SchemaInv, ServedIsCurrent
<1>5. LockHeld'
  BY <1>2, <1>3 DEF LockHeld
<1>6. ServedIsCurrent'
  <2>1. ~Served'
    BY <1>1, <1>2, <1>4 DEF Served, Process
  <2> QED
    BY <2>1 DEF ServedIsCurrent
<1>7. MigrationFits(w)'
  <2>1. /\ InspectSchema(first) # "invalid"
        /\ db.versions = {} \/ Latest(db) < Target
        /\ proc[p].initial = (db.versions = {})
    BY <1>1 DEF SchemaInv, MigrationFits
  <2>2. w.step \in 1..Len(Order) /\ w.initial = proc[p].initial
    BY Numbers DEF Moved
  <2>3. w.pc = "migrating" => (db'.versions = {} \/ Latest(db)' < Target) /\ w.initial = (db'.versions = {})
    BY <2>1, <2>2 DEF Latest
  <2> QED
    BY <2>1, <2>2, <2>3 DEF MigrationFits
<1>8. \A q \in Process : MigrationFits(proc[q])'
  BY <1>2, <1>3, <1>7 DEF MigrationFits
<1>9. InspectSchema(first)' # "invalid"
  BY <1>1 DEF SchemaInv, MigrationFits
<1>10. \A q \in Process : DOMAIN proc'[q] = {"pc", "step", "legacy", "initial", "todo"}
  BY <1>1, <1>2 DEF SchemaInv
<1>11. first' \in Stored /\ proc' = [q \in Process |-> proc'[q]]
  BY <1>2 DEF SchemaInv
<1> QED
  BY <1>5, <1>6, <1>8, <1>9, <1>10, <1>11 DEF SchemaInv

\* Accounts that are rewritten one by one, or not at all.
LEMMA AccountsStep ==
  ASSUME SchemaInv, UNCHANGED <<first, lock>>, NEW p \in Process, NEW w,
         Moved(proc[p], w), proc' = [proc EXCEPT ![p] = w],
         DOMAIN db' = DatabaseColumns, db'.versions = db.versions,
         db'.users = [i \in DOMAIN db.users |-> db'.users[i]],
         \A i \in DOMAIN db.users :
           Kept(db.users[i], db'.users[i]) /\ Bettered(Order[proc[p].step], db'.users[i])
  PROVE  SchemaInv'
<1>1. /\ proc[p].pc = "migrating" /\ UsersFit(db) /\ AccountsKept /\ MigrationFits(proc[p])
      /\ first' = first
  BY DEF SchemaInv, Moved
<1>2. /\ db'.users \in Seq(Range(db'.users)) /\ Len(db'.users) = Len(db.users)
      /\ DOMAIN db'.users = DOMAIN db.users
  BY <1>1, SameLength DEF UsersFit
<1>3. UsersFit(db)'
  BY <1>2 DEF UsersFit, Kept
<1>4. AccountsKept'
  BY <1>1, <1>2 DEF AccountsKept, Kept
<1>5. AccountsAfter(w, db'.users)
  BY <1>1, <1>2, AfterNext DEF MigrationFits
<1>6. InspectSchema(db)' # "current"
  <2>1. db.versions = {} \/ Latest(db) < Target
    BY <1>1 DEF MigrationFits
  <2>2. db'.versions = {} \/ Latest(db)' < Target
    BY <2>1 DEF Latest
  <2>3. ~(Latest(db)' < Target /\ Latest(db)' = Target)
    BY TargetAssumption
  <2> QED
    BY <2>2, <2>3 DEF InspectSchema
<1> QED
  BY <1>3, <1>4, <1>5, <1>6, MigrationStep

-----------------------------------------------------------------------------
(* The steps that write no account                                           *)

\* How a step moves its process on.
LEMMA AdvanceMoves ==
  ASSUME SchemaInv, NEW p \in Process, proc[p].pc = "migrating", NEW todo, Advance(p, todo)
  PROVE  \E w : /\ Moved(proc[p], w) /\ proc' = [proc EXCEPT ![p] = w]
                /\ w.todo = todo /\ (w.pc = "migrating" => w.step = proc[p].step + 1)
<1> DEFINE w == [proc[p] EXCEPT !.pc = IF proc[p].step = Len(Order) THEN "verifying" ELSE @,
                               !.step = IF @ = Len(Order) THEN @ ELSE @ + 1,
                               !.todo = todo]
<1>1. /\ DOMAIN proc[p] = {"pc", "step", "legacy", "initial", "todo"} /\ proc[p].step \in 1..22
  BY Numbers DEF SchemaInv, MigrationFits
<1>2. proc' = [proc EXCEPT ![p] = w]
  BY DEF Advance, SchemaInv
<1>3. Moved(proc[p], w) /\ w.todo = todo /\ (w.pc = "migrating" => w.step = proc[p].step + 1)
  BY <1>1, Numbers DEF Moved
<1> HIDE DEF w
<1> QED
  BY <1>2, <1>3

LEMMA TodoMoves ==
  ASSUME SchemaInv, NEW p \in Process, proc[p].pc = "migrating",
         NEW s, proc' = [proc EXCEPT ![p].todo = @ \ {s}]
  PROVE  \E w : /\ Moved(proc[p], w) /\ proc' = [proc EXCEPT ![p] = w]
                /\ w.todo = proc[p].todo \ {s} /\ w.pc = "migrating" /\ w.step = proc[p].step
<1> DEFINE w == [proc[p] EXCEPT !.todo = @ \ {s}]
<1>1. /\ DOMAIN proc[p] = {"pc", "step", "legacy", "initial", "todo"} /\ proc[p].step \in 1..22
  BY Numbers DEF SchemaInv, MigrationFits
<1>2. proc' = [proc EXCEPT ![p] = w]
  BY DEF SchemaInv
<1>3. /\ Moved(proc[p], w)
      /\ w.todo = proc[p].todo \ {s} /\ w.pc = "migrating" /\ w.step = proc[p].step
  BY <1>1 DEF Moved
<1> HIDE DEF w
<1> QED
  BY <1>2, <1>3

\* Steps that write no account and no version.
Elsewhere(d) == DOMAIN d = DatabaseColumns /\ d.users = db.users /\ d.versions = db.versions

LEMMA QuietStep ==
  ASSUME SchemaInv, UNCHANGED <<first, lock>>, NEW p \in Process, proc[p].pc = "migrating",
         Order[proc[p].step] \notin Asked, Elsewhere(db'),
         \E w : Moved(proc[p], w) /\ proc' = [proc EXCEPT ![p] = w]
  PROVE  SchemaInv'
<1>1. PICK w : Moved(proc[p], w) /\ proc' = [proc EXCEPT ![p] = w]
  OBVIOUS
<1>2. /\ DOMAIN db' = DatabaseColumns /\ db'.versions = db.versions /\ db'.users = db.users
      /\ UsersFit(db)
  BY DEF Elsewhere, SchemaInv
<1>3. db'.users = [i \in DOMAIN db.users |-> db'.users[i]]
  <2>1. DOMAIN db.users = 1..Len(db.users) /\ db.users = [i \in 1..Len(db.users) |-> db.users[i]]
    BY <1>2, LenProperties DEF UsersFit
  <2> QED
    BY <1>2, <2>1
<1>4. \A i \in DOMAIN db.users :
        Kept(db.users[i], db'.users[i]) /\ Bettered(Order[proc[p].step], db'.users[i])
  <2>1. \A i \in DOMAIN db.users : Row(db.users[i])
    BY <1>2 DEF UsersFit, Row
  <2> QED
    BY <1>2, <2>1, RowKept DEF Bettered, Asked
<1> QED
  BY <1>1, <1>2, <1>3, <1>4, AccountsStep

LEMMA QuietMigrate ==
  ASSUME SchemaInv, NEW p \in Process, NEW step, step \notin Asked, NEW d, Elsewhere(d),
         Migrate(p, step, d)
  PROVE  SchemaInv'
<1>1. /\ proc[p].pc = "migrating" /\ Order[proc[p].step] = step /\ db' = d
      /\ Advance(p, {}) /\ UNCHANGED <<first, lock>>
  BY DEF Migrate, At
<1>2. \E w : Moved(proc[p], w) /\ proc' = [proc EXCEPT ![p] = w]
  BY <1>1, AdvanceMoves
<1> QED
  BY <1>1, <1>2, QuietStep DEF Elsewhere

\* Accounts that are rewritten one by one.
LEMMA RewriteStep ==
  ASSUME SchemaInv, NEW p \in Process, NEW step, NEW d, Migrate(p, step, d),
         DOMAIN d = DatabaseColumns, d.versions = db.versions,
         DOMAIN d.users = DOMAIN db.users, d.users = [i \in DOMAIN d.users |-> d.users[i]],
         \A i \in DOMAIN db.users : Kept(db.users[i], d.users[i]) /\ Bettered(step, d.users[i])
  PROVE  SchemaInv'
<1>1. /\ proc[p].pc = "migrating" /\ Order[proc[p].step] = step /\ db' = d
      /\ Advance(p, {}) /\ UNCHANGED <<first, lock>>
  BY DEF Migrate, At
<1>2. PICK w : Moved(proc[p], w) /\ proc' = [proc EXCEPT ![p] = w]
  BY <1>1, AdvanceMoves
<1> QED
  BY <1>1, <1>2, AccountsStep

LEMMA QuietSchemaSteps ==
  ASSUME SchemaInv, NEW p \in Process,
         \/ PrepareIdentities(p) \/ Validate(p) \/ CreateVersions(p) \/ FillIssuer(p)
         \/ MoveSettings(p) \/ DefaultBranding(p) \/ SplitThemes(p) \/ UnifyBranding(p)
         \/ BackfillTokens(p) \/ FillInventory(p) \/ SessionsBound(p) \/ TokensHashed(p)
  PROVE  SchemaInv'
<1>1. DOMAIN db = DatabaseColumns
  BY DEF SchemaInv, UsersFit
<1>2. Elsewhere(db)
  BY <1>1 DEF Elsewhere
<1>3. \A x, v : x \in DatabaseColumns \ {"users", "versions"} => Elsewhere([db EXCEPT ![x] = v])
  BY <1>1 DEF Elsewhere, DatabaseColumns
<1>4. \A x, y, v, w : x \in DatabaseColumns \ {"users", "versions"} /\ y \in DatabaseColumns \ {"users", "versions"} =>
        Elsewhere([[db EXCEPT ![x] = v] EXCEPT ![y] = w])
  BY <1>1 DEF Elsewhere, DatabaseColumns
<1>5. CASE PrepareIdentities(p)
  <2>1. PICK d : Elsewhere(d) /\ Migrate(p, "identities", d)
    BY <1>2, <1>4, <1>5 DEF PrepareIdentities, Update, DatabaseColumns
  <2> QED
    BY <2>1, QuietMigrate DEF Asked
<1>6. CASE Validate(p)
  BY <1>2, <1>6, QuietMigrate DEF Validate, Asked
<1>7. CASE CreateVersions(p)
  <2>1. PICK d : Elsewhere(d) /\ Migrate(p, "versions", d)
    BY <1>3, <1>7 DEF CreateVersions, DatabaseColumns
  <2> QED
    BY <2>1, QuietMigrate DEF Asked
<1>8. CASE FillIssuer(p)
  <2>1. PICK d : Elsewhere(d) /\ Migrate(p, "issuer", d)
    BY <1>2, <1>3, <1>8 DEF FillIssuer, DatabaseColumns
  <2> QED
    BY <2>1, QuietMigrate DEF Asked
<1>9. CASE MoveSettings(p)
  <2>1. PICK d : Elsewhere(d) /\ Migrate(p, "settings", d)
    BY <1>4, <1>9 DEF MoveSettings, DatabaseColumns
  <2> QED
    BY <2>1, QuietMigrate DEF Asked
<1>10. CASE DefaultBranding(p)
  <2>1. PICK d : Elsewhere(d) /\ Migrate(p, "branding", d)
    BY <1>3, <1>10 DEF DefaultBranding, DatabaseColumns
  <2> QED
    BY <2>1, QuietMigrate DEF Asked
<1>11. CASE SplitThemes(p)
  <2>1. PICK d : Elsewhere(d) /\ Migrate(p, "themes", d)
    BY <1>3, <1>11 DEF SplitThemes, DatabaseColumns
  <2> QED
    BY <2>1, QuietMigrate DEF Asked
<1>12. CASE UnifyBranding(p)
  <2>1. PICK d : Elsewhere(d) /\ Migrate(p, "unified", d)
    BY <1>4, <1>12 DEF UnifyBranding, DatabaseColumns
  <2> QED
    BY <2>1, QuietMigrate DEF Asked
<1>13. CASE BackfillTokens(p)
  <2>1. PICK d : Elsewhere(d) /\ Migrate(p, "tokens", d)
    BY <1>3, <1>13 DEF BackfillTokens, Update, DatabaseColumns
  <2> QED
    BY <2>1, QuietMigrate DEF Asked
<1>14. CASE FillInventory(p)
  <2>1. PICK d : Elsewhere(d) /\ Migrate(p, "inventory", d)
    BY <1>4, <1>14 DEF FillInventory, Update, DatabaseColumns
  <2> QED
    BY <2>1, QuietMigrate DEF Asked
<1>15. CASE SessionsBound(p)
  BY <1>2, <1>15, QuietMigrate DEF SessionsBound, Asked
<1>16. CASE TokensHashed(p)
  BY <1>2, <1>16, QuietMigrate DEF TokensHashed, Asked
<1> QED
  BY <1>5, <1>6, <1>7, <1>8, <1>9, <1>10, <1>11, <1>12, <1>13, <1>14, <1>15, <1>16

LEMMA ListsRead ==
  ASSUME SchemaInv, NEW p \in Process, ReadSessions(p) \/ ReadTokens(p)
  PROVE  SchemaInv'
<1>1. \E todo : Advance(p, todo)
  BY DEF ReadSessions, ReadTokens
<1>2. /\ proc[p].pc = "migrating" /\ Order[proc[p].step] \notin Asked /\ UNCHANGED <<db, first, lock>>
  BY DEF ReadSessions, ReadTokens, At, Asked
<1>3. Elsewhere(db')
  BY <1>2 DEF Elsewhere, SchemaInv, UsersFit
<1> QED
  BY <1>1, <1>2, <1>3, AdvanceMoves, QuietStep

LEMMA RowsBound ==
  ASSUME SchemaInv, NEW p \in Process, BindSession(p) \/ HashToken(p)
  PROVE  SchemaInv'
<1>1. /\ proc[p].pc = "migrating" /\ Order[proc[p].step] \notin Asked /\ UNCHANGED <<first, lock>>
      /\ \E s : proc' = [proc EXCEPT ![p].todo = @ \ {s}]
  BY DEF BindSession, HashToken, At, Asked
<1>2. DOMAIN db = DatabaseColumns
  BY DEF SchemaInv, UsersFit
<1>3. \A x, v : x \in DatabaseColumns \ {"users", "versions"} => Elsewhere([db EXCEPT ![x] = v])
  BY <1>2 DEF Elsewhere, DatabaseColumns
<1>4. Elsewhere(db) /\ "sessions" \in DatabaseColumns \ {"users", "versions"}
                    /\ "peers" \in DatabaseColumns \ {"users", "versions"}
  BY <1>2 DEF Elsewhere, DatabaseColumns
<1>5. Elsewhere(db')
  <2>1. CASE HashToken(p)
    BY <1>3, <1>4, <2>1 DEF HashToken
  <2>2. CASE BindSession(p)
    <3>1. PICK t : db' = BindMigratedNativePeer(db, t)
      BY <2>2 DEF BindSession
    <3> QED
      BY <1>3, <1>4, <3>1 DEF BindMigratedNativePeer
  <2> QED
    BY <2>1, <2>2
<1> QED
  BY <1>1, <1>5, TodoMoves, QuietStep

-----------------------------------------------------------------------------
(* The steps that write accounts                                             *)

LEMMA TablesCreated ==
  ASSUME SchemaInv, NEW p \in Process, CreateTables(p)
  PROVE  SchemaInv'
<1> DEFINE Column(u) == [u EXCEPT !.role = IF @ = "missing" THEN "user" ELSE @]
           d == [Update(db, "users", Column) EXCEPT !.tables = @ \cup {"application"}]
<1>1. Migrate(p, "tables", d)
  BY DEF CreateTables
<1>2. UsersFit(db)
  BY DEF SchemaInv
<1>3. /\ DOMAIN d = DatabaseColumns /\ d.versions = db.versions
      /\ DOMAIN d.users = DOMAIN db.users /\ d.users = [i \in DOMAIN d.users |-> d.users[i]]
      /\ \A i \in DOMAIN db.users : Row(db.users[i]) /\ d.users[i] = Column(db.users[i])
  BY <1>2 DEF UsersFit, Update, DatabaseColumns, Row
<1>4. \A u : Row(u) => Kept(u, Column(u))
  BY RoleColumnKept
<1> HIDE DEF d, Column
<1>5. \A i \in DOMAIN db.users : Kept(db.users[i], d.users[i]) /\ Bettered("tables", d.users[i])
  BY <1>3, <1>4 DEF Bettered
<1> QED
  BY <1>1, <1>3, <1>5, RewriteStep

LEMMA EmailsMoved ==
  ASSUME SchemaInv, NEW p \in Process, MoveEmails(p)
  PROVE  SchemaInv'
<1> DEFINE Google(i) == {t \in Range(db.thirds) : t.type = "google" /\ t.user = i}
           Email(i) == IF Google(i) = {} THEN db.users[i].email
                       ELSE (CHOOSE t \in Google(i) : TRUE).subject
           d == [db EXCEPT !.users = [i \in DOMAIN @ |-> [@[i] EXCEPT !.email = Email(i)]]]
           Cell(u, x) == [u EXCEPT !.email = x]
<1>1. Migrate(p, "emails", IF Before(p, 245) THEN d ELSE db)
  BY DEF MoveEmails
<1>2. UsersFit(db)
  BY DEF SchemaInv
<1> HIDE DEF Email
<1>3. /\ DOMAIN d = DatabaseColumns /\ d.versions = db.versions
      /\ DOMAIN d.users = DOMAIN db.users /\ d.users = [i \in DOMAIN d.users |-> d.users[i]]
      /\ \A i \in DOMAIN db.users :
           Row(db.users[i]) /\ d.users[i] = Cell(db.users[i], Email(i))
  BY <1>2 DEF UsersFit, DatabaseColumns, Row
<1>4. \A u, x : Row(u) => Kept(u, Cell(u, x))
  BY ColumnKept
<1> HIDE DEF d, Cell
<1>5. \A i \in DOMAIN db.users : Kept(db.users[i], d.users[i]) /\ Bettered("emails", d.users[i])
  BY <1>3, <1>4 DEF Bettered
<1>6. CASE Before(p, 245)
  <2>1. Migrate(p, "emails", d)
    BY <1>1, <1>6
  <2> QED
    BY <1>3, <1>5, <2>1, RewriteStep
<1>7. CASE ~Before(p, 245)
  <2>1. Migrate(p, "emails", db) /\ Elsewhere(db)
    BY <1>1, <1>2, <1>7 DEF Elsewhere, UsersFit
  <2> QED
    BY <2>1, QuietMigrate DEF Asked
<1> QED
  BY <1>6, <1>7

LEMMA GenerationsFilled ==
  ASSUME SchemaInv, NEW p \in Process, BackfillUsers(p)
  PROVE  SchemaInv'
<1> DEFINE d == Update(db, "users", Versioned)
<1>1. Migrate(p, "users", d)
  BY DEF BackfillUsers
<1>2. UsersFit(db)
  BY DEF SchemaInv
<1>3. /\ DOMAIN d = DatabaseColumns /\ d.versions = db.versions
      /\ DOMAIN d.users = DOMAIN db.users /\ d.users = [i \in DOMAIN d.users |-> d.users[i]]
      /\ \A i \in DOMAIN db.users : Row(db.users[i]) /\ d.users[i] = Versioned(db.users[i])
  BY <1>2 DEF UsersFit, Update, DatabaseColumns, Row
<1> HIDE DEF d
<1>4. \A i \in DOMAIN db.users : Kept(db.users[i], d.users[i]) /\ Bettered("users", d.users[i])
  BY <1>3, VersionedKept DEF Bettered
<1> QED
  BY <1>1, <1>3, <1>4, RewriteStep

LEMMA AdministratorsPromoted ==
  ASSUME SchemaInv, NEW p \in Process, Promote(p)
  PROVE  SchemaInv'
<1> DEFINE Cell(u) == [u EXCEPT !.role = IF u.isAdmin /\ @ \notin Administrators THEN "super" ELSE @]
           d == Update(db, "users", Cell)
<1>1. Migrate(p, "promote", d)
  BY DEF Promote
<1>2. UsersFit(db)
  BY DEF SchemaInv
<1>3. /\ DOMAIN d = DatabaseColumns /\ d.versions = db.versions
      /\ DOMAIN d.users = DOMAIN db.users /\ d.users = [i \in DOMAIN d.users |-> d.users[i]]
      /\ \A i \in DOMAIN db.users : Row(db.users[i]) /\ d.users[i] = Cell(db.users[i])
  BY <1>2 DEF UsersFit, Update, DatabaseColumns, Row
<1>4. \A u : Row(u) => Kept(u, Cell(u)) /\ Promoted(Cell(u))
  BY PromotedKept
<1> HIDE DEF d, Cell
<1>5. \A i \in DOMAIN db.users : Kept(db.users[i], d.users[i]) /\ Bettered("promote", d.users[i])
  BY <1>3, <1>4 DEF Bettered
<1> QED
  BY <1>1, <1>3, <1>5, RewriteStep

LEMMA RolesDemoted ==
  ASSUME SchemaInv, NEW p \in Process, Demote(p)
  PROVE  SchemaInv'
<1> DEFINE Cell(u) == IF u.isAdmin THEN u ELSE Ordinary(u)
           d == Update(db, "users", Cell)
<1>1. Migrate(p, "demote", d)
  BY DEF Demote
<1>2. UsersFit(db)
  BY DEF SchemaInv
<1>3. /\ DOMAIN d = DatabaseColumns /\ d.versions = db.versions
      /\ DOMAIN d.users = DOMAIN db.users /\ d.users = [i \in DOMAIN d.users |-> d.users[i]]
      /\ \A i \in DOMAIN db.users : Row(db.users[i]) /\ d.users[i] = Cell(db.users[i])
  BY <1>2 DEF UsersFit, Update, DatabaseColumns, Row
<1> HIDE DEF d
<1>4. \A i \in DOMAIN db.users : Kept(db.users[i], d.users[i]) /\ Bettered("demote", d.users[i])
  BY <1>3, OrdinaryKept, RowKept DEF Bettered
<1> QED
  BY <1>1, <1>3, <1>4, RewriteStep

LEMMA RolesNormalized ==
  ASSUME SchemaInv, NEW p \in Process, Normalize(p)
  PROVE  SchemaInv'
<1> DEFINE d == Update(db, "users", Ordinary)
<1>1. Migrate(p, "normalize", d)
  BY DEF Normalize
<1>2. UsersFit(db)
  BY DEF SchemaInv
<1>3. /\ DOMAIN d = DatabaseColumns /\ d.versions = db.versions
      /\ DOMAIN d.users = DOMAIN db.users /\ d.users = [i \in DOMAIN d.users |-> d.users[i]]
      /\ \A i \in DOMAIN db.users : Row(db.users[i]) /\ d.users[i] = Ordinary(db.users[i])
  BY <1>2 DEF UsersFit, Update, DatabaseColumns, Row
<1> HIDE DEF d
<1>4. \A i \in DOMAIN db.users : Kept(db.users[i], d.users[i]) /\ Bettered("normalize", d.users[i])
  BY <1>3, OrdinaryKept DEF Bettered
<1> QED
  BY <1>1, <1>3, <1>4, RewriteStep

LEMMA FlagsMirrored ==
  ASSUME SchemaInv, NEW p \in Process, Mirror(p)
  PROVE  SchemaInv'
<1> DEFINE Cell(u) == [u EXCEPT !.isAdmin = u.role \in Administrators]
           d == Update(db, "users", Cell)
<1>1. Migrate(p, "mirror", d)
  BY DEF Mirror
<1>2. UsersFit(db)
  BY DEF SchemaInv
<1>3. /\ DOMAIN d = DatabaseColumns /\ d.versions = db.versions
      /\ DOMAIN d.users = DOMAIN db.users /\ d.users = [i \in DOMAIN d.users |-> d.users[i]]
      /\ \A i \in DOMAIN db.users : Row(db.users[i]) /\ d.users[i] = Cell(db.users[i])
  BY <1>2 DEF UsersFit, Update, DatabaseColumns, Row
<1> HIDE DEF d
<1>4. \A i \in DOMAIN db.users : Promoted(db.users[i])
  <2>1. proc[p].pc = "migrating" /\ Order[proc[p].step] = "mirror" /\ MigrationFits(proc[p])
    BY <1>1 DEF Migrate, At, SchemaInv
  <2>2. proc[p].step = 19
    BY <2>1, Numbers DEF MigrationFits
  <2>3. Passed(proc[p], "promote")
    BY <2>1, <2>2, Numbers DEF Passed
  <2> QED
    BY <2>1, <2>3 DEF MigrationFits, AccountsAfter
<1>5. \A u : Row(u) /\ Promoted(u) => Kept(u, Cell(u)) /\ Mirrored(Cell(u))
  BY MirroredKept
<1> HIDE DEF Cell
<1>6. \A i \in DOMAIN db.users : Kept(db.users[i], d.users[i]) /\ Bettered("mirror", d.users[i])
  BY <1>3, <1>4, <1>5 DEF Bettered
<1> QED
  BY <1>1, <1>3, <1>6, RewriteStep

-----------------------------------------------------------------------------
(* The steps that record the version                                         *)

LEMMA LastMove ==
  ASSUME SchemaInv, NEW p \in Process, NEW d, Migrate(p, "record", d)
  PROVE  \E w : Moved(proc[p], w) /\ w.pc = "verifying" /\ proc' = [proc EXCEPT ![p] = w]
<1>1. /\ proc[p].pc = "migrating" /\ Order[proc[p].step] = "record" /\ MigrationFits(proc[p])
      /\ DOMAIN proc[p] = {"pc", "step", "legacy", "initial", "todo"}
  BY DEF Migrate, At, SchemaInv
<1>2. proc[p].step = 22
  BY <1>1, Numbers DEF MigrationFits
<1> DEFINE w == [proc[p] EXCEPT !.pc = "verifying", !.step = 22, !.todo = {}]
<1>3. proc' = [proc EXCEPT ![p] = w]
  BY <1>2, Numbers DEF Migrate, Advance, SchemaInv
<1>4. Moved(proc[p], w) /\ w.pc = "verifying"
  BY <1>1, <1>2 DEF Moved
<1> QED
  BY <1>3, <1>4

\* All the rewriting is done when the version is recorded.
LEMMA BeforeRecord ==
  ASSUME SchemaInv, NEW p \in Process, At(p, "record"), NEW i \in DOMAIN db.users
  PROVE  /\ Generated(db.users[i]) /\ Normalized(db.users[i]) /\ Mirrored(db.users[i])
<1>1. /\ proc[p].pc = "migrating" /\ Order[proc[p].step] = "record" /\ MigrationFits(proc[p])
  BY DEF At, SchemaInv
<1>2. proc[p].step = 22
  BY <1>1, Numbers DEF MigrationFits
<1>3. Passed(proc[p], "users") /\ Passed(proc[p], "normalize") /\ Passed(proc[p], "mirror")
  BY <1>1, <1>2, Numbers DEF Passed
<1> QED
  BY <1>1, <1>3 DEF MigrationFits, AccountsAfter

LEMMA RecordStep ==
  ASSUME SchemaInv, NEW p \in Process, NEW d, Migrate(p, "record", d),
         UsersFit(d), d.versions # {},
         \A i \in DOMAIN d.users :
           Generated(d.users[i]) /\ Normalized(d.users[i]) /\ Mirrored(d.users[i]),
         \A i \in DOMAIN first.users :
           i \in DOMAIN d.users /\ Due(d.users[i]) = Due(first.users[i]),
         Len(d.users) = IF first.versions = {} /\ first.users = <<>> THEN 1 ELSE Len(first.users)
  PROVE  SchemaInv'
<1>1. db' = d /\ UNCHANGED <<first, lock>>
  BY DEF Migrate
<1>2. PICK w : Moved(proc[p], w) /\ w.pc = "verifying" /\ proc' = [proc EXCEPT ![p] = w]
  BY LastMove
<1>3. UsersFit(db)'
  BY <1>1 DEF UsersFit
<1>4. AccountsKept'
  BY <1>1 DEF AccountsKept
<1>5. AccountsAfter(w, db'.users)
  BY <1>1 DEF AccountsAfter, Promoted, Mirrored
<1>6. AccountsMigrated'
  <2>1. \A i \in DOMAIN d.users : d.users[i].role = Due(d.users[i])
    BY DEF Due, Normalized, Mirrored, Roles, Administrators
  <2> QED
    BY <1>1, <2>1 DEF AccountsMigrated, Generated, Mirrored
<1> QED
  BY <1>1, <1>2, <1>3, <1>4, <1>5, <1>6, MigrationStep

LEMMA VersionRecorded ==
  ASSUME SchemaInv, NEW p \in Process, RecordVersion(p)
  PROVE  SchemaInv'
<1> DEFINE d == Recorded(db)
<1>1. Migrate(p, "record", d) /\ At(p, "record") /\ ~proc[p].initial
  BY DEF RecordVersion, Migrate
<1>2. UsersFit(db) /\ AccountsKept /\ MigrationFits(proc[p]) /\ proc[p].pc = "migrating"
  BY <1>1 DEF SchemaInv, At
<1>3. d.users = db.users /\ DOMAIN d = DatabaseColumns /\ d.versions # {}
  BY <1>2 DEF Recorded, UsersFit, DatabaseColumns
<1> HIDE DEF d
<1>4. db.versions # {}
  BY <1>1, <1>2 DEF MigrationFits
<1>5. UsersFit(d)
  BY <1>2, <1>3 DEF UsersFit
<1>6. /\ \A i \in DOMAIN first.users : i \in DOMAIN d.users /\ Due(d.users[i]) = Due(first.users[i])
      /\ Len(d.users) = IF first.versions = {} /\ first.users = <<>> THEN 1 ELSE Len(first.users)
  BY <1>2, <1>3, <1>4 DEF AccountsKept
<1>7. \A i \in DOMAIN d.users :
        Generated(d.users[i]) /\ Normalized(d.users[i]) /\ Mirrored(d.users[i])
  BY <1>1, <1>3, BeforeRecord
<1> QED
  BY <1>1, <1>3, <1>5, <1>6, <1>7, RecordStep

LEMMA DatabaseBootstrapped ==
  ASSUME SchemaInv, NEW p \in Process, BootstrapInitialDatabase(p)
  PROVE  SchemaInv'
<1> DEFINE named == \E u \in Range(db.users) : u.name = "admin"
           d == Recorded([db EXCEPT !.users = IF named THEN @ ELSE Append(@, Builtin)])
<1>1. Migrate(p, "record", d) /\ At(p, "record") /\ proc[p].initial
  BY DEF BootstrapInitialDatabase, Migrate
<1>2. /\ UsersFit(db) /\ AccountsKept /\ MigrationFits(proc[p]) /\ proc[p].pc = "migrating"
      /\ first \in Stored
  BY <1>1 DEF SchemaInv, At
<1>3. db.versions = {} /\ first.versions = {} /\ InspectSchema(first) # "invalid"
  BY <1>1, <1>2 DEF MigrationFits, AccountsKept
<1>4. first.users = <<>>
  BY <1>2, <1>3, StoredSchemas DEF InspectSchema
<1>5. db.users = <<>>
  BY <1>2, <1>3, <1>4 DEF AccountsKept, UsersFit
<1>6. ~named
  BY <1>5 DEF Range
<1>7. /\ d.users = Append(db.users, Builtin)
      /\ DOMAIN d = DatabaseColumns /\ d.versions # {}
  BY <1>2, <1>6 DEF Recorded, UsersFit, DatabaseColumns
<1> HIDE DEF d, named
<1>8. d.users = <<Builtin>> /\ DOMAIN d.users = {1} /\ d.users[1] = Builtin /\ Len(d.users) = 1
  BY <1>5, <1>7
<1>9. UsersFit(d)
  <2>1. d.users \in Seq(Range(d.users))
    BY <1>8 DEF Range
  <2>2. DOMAIN Builtin = AccountColumns /\ Builtin.isAdmin \in BOOLEAN /\ Builtin.auth \in Nat
    BY DEF Builtin, AccountColumns
  <2> QED
    BY <1>7, <1>8, <2>1, <2>2 DEF UsersFit
<1>10. \A i \in DOMAIN d.users :
         Generated(d.users[i]) /\ Normalized(d.users[i]) /\ Mirrored(d.users[i])
  <2>1. Generated(Builtin) /\ Normalized(Builtin)
    BY DEF Generated, Normalized, Builtin, Roles
  <2>2. Builtin.isAdmin = TRUE /\ Builtin.role = "super"
    BY DEF Builtin
  <2>3. Mirrored(Builtin)
    BY <2>2 DEF Mirrored, Administrators
  <2> QED
    BY <1>8, <2>1, <2>3
<1>11. DOMAIN first.users = {}
  BY <1>4
<1> QED
  BY <1>1, <1>3, <1>4, <1>7, <1>8, <1>9, <1>10, <1>11, RecordStep

-----------------------------------------------------------------------------
(* The lock, and the ways a process stops                                    *)

LEMMA Halted ==
  ASSUME SchemaInv, UNCHANGED <<db, first>>, NEW p \in Process,
         NEW pc, pc \in {"waiting", "failed", "killed", "finished", "serving"},
         proc' = [proc EXCEPT ![p] = Stopped(pc)], lock' \in {lock, Unlocked(p)},
         pc = "serving" => /\ InspectSchema(db) = "current"
                           /\ proc[p].pc \in {"inspecting", "verifying"}
  PROVE  SchemaInv'
<1>1. /\ DOMAIN Stopped(pc) = {"pc", "step", "legacy", "initial", "todo"}
      /\ MigrationFits(Stopped(pc)) /\ Stopped(pc).pc = pc
  BY DEF Stopped, MigrationFits
<1>2. \A q \in Process : proc'[q] = IF q = p THEN Stopped(pc) ELSE proc[q]
  BY DEF SchemaInv
<1>3. LockHeld /\ ServedIsCurrent
  BY DEF SchemaInv
<1>4. LockHeld'
  BY <1>1, <1>2, <1>3 DEF LockHeld, Unlocked
<1>5. ServedIsCurrent'
  <2>1. CASE pc = "serving"
    BY <1>1, <1>2, <1>3, <2>1 DEF ServedIsCurrent, LockHeld
  <2>2. CASE pc # "serving"
    <3>1. Served' => Served
      BY <1>1, <1>2, <2>2 DEF Served, Process
    <3> QED
      BY <1>1, <1>2, <1>3, <3>1 DEF ServedIsCurrent
  <2> QED
    BY <2>1, <2>2
<1> QED
  BY <1>1, <1>4, <1>5, ProcessStep

LEMMA HaltingSteps ==
  ASSUME SchemaInv, NEW p \in Process,
         \/ Start(p) \/ Restart(p) \/ LockTimesOut(p) \/ Refused(p) \/ NotRequired(p)
         \/ Verify(p) \/ UnlockFails(p) \/ Fails(p) \/ Killed(p) \/ RejectDuplicates(p)
  PROVE  SchemaInv'
<1>1. CASE Start(p) \/ Restart(p) \/ LockTimesOut(p)
  BY <1>1, Halted DEF Start, Restart, LockTimesOut
<1>2. CASE Refused(p) \/ Fails(p) \/ RejectDuplicates(p)
  BY <1>2, Halted DEF Refused, Fails, RejectDuplicates, End
<1>3. CASE NotRequired(p) \/ Verify(p)
  BY <1>3, Halted DEF NotRequired, Verify, End, Ready
<1>4. CASE UnlockFails(p)
  BY <1>4, Halted DEF UnlockFails
<1>5. CASE Killed(p)
  BY <1>5, Halted DEF Killed, Unlocked
<1> QED
  BY <1>1, <1>2, <1>3, <1>4, <1>5

LEMMA LockAcquired ==
  ASSUME SchemaInv, NEW p \in Process, Acquire(p)
  PROVE  SchemaInv'
<1> DEFINE w == [proc[p] EXCEPT !.pc = "inspecting"]
<1>1. /\ DOMAIN w = {"pc", "step", "legacy", "initial", "todo"} /\ w.pc = "inspecting"
      /\ proc' = [proc EXCEPT ![p] = w]
  BY DEF SchemaInv, Acquire
<1> HIDE DEF w
<1>2. \A q \in Process : proc'[q] = IF q = p THEN w ELSE proc[q]
  BY <1>1 DEF SchemaInv
<1>3. \A q \in Process : proc[q].pc \notin {"inspecting", "migrating", "verifying"}
  BY TargetAssumption DEF SchemaInv, LockHeld, Acquire, Process
<1>4. MigrationFits(w)
  BY <1>1 DEF MigrationFits
<1>5. LockHeld'
  BY <1>2, <1>3 DEF LockHeld, Acquire
<1>6. UNCHANGED <<db, first>>
  BY DEF Acquire
<1>7. ServedIsCurrent'
  <2>1. Served' => Served
    BY <1>1, <1>2 DEF Served, Process
  <2> QED
    BY <1>1, <1>2, <1>6, <2>1 DEF ServedIsCurrent, SchemaInv
<1> QED
  BY <1>1, <1>4, <1>5, <1>6, <1>7, ProcessStep

LEMMA MigrationBegun ==
  ASSUME SchemaInv, NEW p \in Process, BeginMigration(p)
  PROVE  SchemaInv'
<1> DEFINE initial == db.versions = {}
           w == [pc |-> "migrating", step |-> 1, initial |-> initial, todo |-> {},
                 legacy |-> IF initial THEN 0 ELSE Latest(db)]
<1>1. /\ DOMAIN w = {"pc", "step", "legacy", "initial", "todo"}
      /\ w.pc = "migrating" /\ w.step = 1 /\ w.initial = (db.versions = {})
      /\ proc' = [proc EXCEPT ![p] = w]
  BY DEF BeginMigration
<1> HIDE DEF w
<1>2. UNCHANGED <<db, first, lock>> /\ InspectSchema(db) \in {"empty", "upgrade_required"}
      /\ proc[p].pc = "inspecting"
  BY DEF BeginMigration
<1>3. \A q \in Process : proc'[q] = IF q = p THEN w ELSE proc[q]
  BY <1>1 DEF SchemaInv
<1>4. LockHeld /\ ServedIsCurrent
  BY DEF SchemaInv
<1>5. LockHeld'
  BY <1>2, <1>3, <1>4 DEF LockHeld
<1>6. ~Served
  BY <1>2, <1>4 DEF ServedIsCurrent
<1>7. ServedIsCurrent'
  BY <1>1, <1>3, <1>6 DEF ServedIsCurrent, Served, Process
<1>8. MigrationFits(w)
  <2>1. InspectSchema(first) # "invalid"
    BY <1>2 DEF SchemaInv
  <2>2. db.versions = {} \/ Latest(db) < Target
    BY <1>2 DEF InspectSchema
  <2>3. \A s : ~Passed(w, s)
    BY <1>1, Numbers DEF Passed
  <2>4. w.step \in 1..Len(Order)
    BY <1>1, Numbers
  <2> QED
    BY <1>1, <2>1, <2>2, <2>3, <2>4 DEF MigrationFits, AccountsAfter
<1> QED
  BY <1>1, <1>2, <1>5, <1>7, <1>8, ProcessStep

\* A server serves only what is migrated, and a rename changes no role.
LEMMA AdminRenamed ==
  ASSUME SchemaInv, NEW s \in Server, RenameAdmin(s)
  PROVE  SchemaInv'
<1>1. PICK k \in DOMAIN db.users : db' = [db EXCEPT !.users[k].name = "renamed"]
  BY DEF RenameAdmin
<1>2. UNCHANGED <<proc, lock, first>> /\ Served
  BY DEF RenameAdmin, Served, Process
<1>3. UsersFit(db) /\ AccountsKept /\ LockHeld /\ ServedIsCurrent
  BY DEF SchemaInv
<1> DEFINE Cell(u) == [u EXCEPT !.name = "renamed"]
           v == db'.users
<1>4. /\ DOMAIN db' = DatabaseColumns /\ db'.versions = db.versions /\ db'.tables = db.tables
      /\ v = [db.users EXCEPT ![k] = Cell(db.users[k])]
  BY <1>1, <1>3 DEF UsersFit, DatabaseColumns
<1>5. \A u : Row(u) => Kept(u, Cell(u)) /\ Cell(u).auth = u.auth /\ Cell(u).role = u.role
                       /\ Cell(u).isAdmin = u.isAdmin
  BY ColumnKept DEF Row, AccountColumns
<1> HIDE DEF Cell, v
<1>6. \A i \in DOMAIN db.users : Row(db.users[i])
  BY <1>3 DEF UsersFit, Row
<1>7. DOMAIN v = DOMAIN db.users /\ v = [i \in DOMAIN db.users |-> v[i]]
      /\ \A i \in DOMAIN db.users : v[i] = IF i = k THEN Cell(db.users[k]) ELSE db.users[i]
  <2>1. db.users = [i \in 1..Len(db.users) |-> db.users[i]] /\ DOMAIN db.users = 1..Len(db.users)
    BY <1>3, LenProperties DEF UsersFit
  <2> QED
    BY <1>4, <2>1
<1>8. \A i \in DOMAIN db.users :
        /\ Kept(db.users[i], v[i]) /\ v[i].auth = db.users[i].auth
        /\ v[i].role = db.users[i].role /\ v[i].isAdmin = db.users[i].isAdmin
  <2> SUFFICES ASSUME NEW i \in DOMAIN db.users
               PROVE  /\ Kept(db.users[i], v[i]) /\ v[i].auth = db.users[i].auth
                      /\ v[i].role = db.users[i].role /\ v[i].isAdmin = db.users[i].isAdmin
    OBVIOUS
  <2>1. CASE i = k
    BY <1>5, <1>6, <1>7, <2>1
  <2>2. CASE i # k
    <3>1. v[i] = db.users[i]
      BY <1>7, <2>2
    <3> QED
      BY <1>6, <3>1, RowKept
  <2> QED
    BY <2>1, <2>2
<1>9. v \in Seq(Range(v)) /\ Len(v) = Len(db.users)
  BY <1>3, <1>7, SameLength DEF UsersFit
<1>10. UsersFit(db)'
  BY <1>4, <1>7, <1>8, <1>9 DEF UsersFit, Kept, v
<1>11. AccountsKept'
  BY <1>2, <1>3, <1>4, <1>7, <1>8, <1>9 DEF AccountsKept, Kept, v
<1>12. InspectSchema(db)' = InspectSchema(db) /\ InspectSchema(db) = "current"
  BY <1>2, <1>3, <1>4 DEF InspectSchema, Latest, ServedIsCurrent
<1>13. AccountsMigrated'
  <2>1. AccountsMigrated
    BY <1>12 DEF SchemaInv
  <2>2. \A i \in DOMAIN first.users : i \in DOMAIN db.users
    BY <1>3 DEF AccountsKept
  <2> QED
    BY <1>2, <1>7, <1>8, <1>9, <2>1, <2>2 DEF AccountsMigrated, v
<1>14. \A q \in Process : MigrationFits(proc[q])'
  BY <1>2, <1>3 DEF ServedIsCurrent, MigrationFits
<1>15. LockHeld' /\ ServedIsCurrent'
  BY <1>2, <1>3, <1>12 DEF LockHeld, ServedIsCurrent, Served
<1>16. InspectSchema(first)' # "invalid"
  <2>1. ~(InspectSchema(first) = "invalid")
    BY <1>12 DEF SchemaInv
  <2> QED
    BY <1>2, <2>1
<1>17. /\ first' \in Stored /\ proc' = [p \in Process |-> proc'[p]]
       /\ \A p \in Process : DOMAIN proc'[p] = {"pc", "step", "legacy", "initial", "todo"}
  BY <1>2 DEF SchemaInv
<1> QED
  BY <1>10, <1>11, <1>13, <1>14, <1>15, <1>16, <1>17 DEF SchemaInv

LEMMA SchemaStep ==
  ASSUME SchemaInv, SchemaNext
  PROVE  SchemaInv'
<1>1. CASE \E s \in Server : RenameAdmin(s)
  BY <1>1, AdminRenamed
<1>2. ASSUME NEW p \in Process,
             Start(p) \/ Restart(p) \/ Work(p) \/ UnlockFails(p) \/ Fails(p) \/ Killed(p)
      PROVE  SchemaInv'
  <2>1. CASE Step(p)
    BY <2>1, QuietSchemaSteps, ListsRead, RowsBound, TablesCreated, EmailsMoved, GenerationsFilled,
       AdministratorsPromoted, RolesDemoted, RolesNormalized, FlagsMirrored, VersionRecorded,
       DatabaseBootstrapped, HaltingSteps DEF Step
  <2> QED
    BY <1>2, <2>1, HaltingSteps, LockAcquired, MigrationBegun DEF Work
<1> QED
  BY <1>1, <1>2 DEF SchemaNext

LEMMA SchemaStart ==
  ASSUME SchemaInit
  PROVE  SchemaInv
<1>1. db \in Stored /\ first = db /\ proc = [p \in Process |-> Stopped("off")]
  BY DEF SchemaInit
<1>2. UsersFit(db)
  BY <1>1, StoredSchemas
<1>3. \A p \in Process :
        /\ proc[p].pc = "off" /\ DOMAIN proc[p] = {"pc", "step", "legacy", "initial", "todo"}
  BY <1>1 DEF Stopped
<1>4. \A p \in Process : MigrationFits(proc[p])
  BY <1>3 DEF MigrationFits
<1>5. LockHeld /\ ServedIsCurrent
  BY <1>3 DEF LockHeld, ServedIsCurrent, Served, Process
<1>6. AccountsKept
  BY <1>1 DEF AccountsKept
<1>7. InspectSchema(db) = "current" => AccountsMigrated
  <2> SUFFICES ASSUME InspectSchema(db) = "current"
               PROVE  AccountsMigrated
    OBVIOUS
  <2>1. \A i \in DOMAIN db.users :
          Generated(db.users[i]) /\ Normalized(db.users[i]) /\ Mirrored(db.users[i])
    BY <1>1, StoredSchemas
  <2>2. \A i \in DOMAIN db.users : db.users[i].role = Due(db.users[i])
    BY <2>1 DEF Due, Normalized, Mirrored, Roles, Administrators
  <2>3. db.versions # {}
    BY DEF InspectSchema
  <2> QED
    BY <1>1, <2>1, <2>2, <2>3 DEF AccountsMigrated, Generated, Mirrored
<1> QED
  BY <1>1, <1>2, <1>3, <1>4, <1>5, <1>6, <1>7 DEF SchemaInv

\* Whatever attempts have failed before: a step of the migration that is done
\* stays done under the lock, the role each account is due is still known, and
\* a database of the target version has them all.
THEOREM SchemaInvariant == SchemaSpec => []SchemaInv
<1>1. SchemaInv /\ UNCHANGED schemaVars => SchemaInv'
  <2> SUFFICES ASSUME SchemaInv, UNCHANGED schemaVars
               PROVE  SchemaInv'
    OBVIOUS
  <2> USE DEF schemaVars
  <2>1. \A p \in Process : MigrationFits(proc[p])'
    BY DEF SchemaInv, MigrationFits
  <2> QED
    BY <2>1 DEF SchemaInv, LockHeld, ServedIsCurrent, Served, AccountsKept, AccountsMigrated
<1> QED
  BY <1>1, SchemaStart, SchemaStep, PTL DEF SchemaSpec

\* Nobody migrates a database somebody else migrates, or one a server is
\* serving: the lock of withMigrationLock, which its holder may lose only with
\* the attempt it guards.
THEOREM OneMigratesAlone == SchemaSpec => []MigratesAlone
<1>1. SchemaInv => MigratesAlone
  <2> SUFFICES ASSUME SchemaInv, NEW p \in Process, NEW q \in Process, p # q,
                      proc[p].pc \in {"migrating", "verifying"}
               PROVE  proc[q].pc \notin {"migrating", "verifying", "serving"}
    BY DEF MigratesAlone
  <2>1. lock = p /\ (proc[q].pc \in {"migrating", "verifying"} => lock = q)
    BY DEF SchemaInv, LockHeld
  <2>2. ~Served
    BY DEF SchemaInv, ServedIsCurrent
  <2> QED
    BY <2>1, <2>2 DEF Served
<1> QED
  BY <1>1, SchemaInvariant, PTL

-----------------------------------------------------------------------------
(* Bindings, sessions and devices: what is stored and what is done           *)

\* The steps a step's number is asked for.
LEMMA StepNames ==
  /\ Order[1] = "identities" /\ Order[2] = "validate" /\ Order[5] = "emails" /\ Order[7] = "settings"
  /\ Order[11] = "users" /\ Order[12] = "tokens" /\ Order[13] = "inventory" /\ Order[15] = "bind"
  /\ Order[21] = "hash"
  /\ \A i \in 1..22 : /\ Order[i] = "emails" => i = 5
                      /\ Order[i] = "sessions" => i = 14
                      /\ Order[i] = "bind" => i = 15
                      /\ Order[i] = "clear" => i = 20
                      /\ Order[i] = "hash" => i = 21
<1>1. \A i \in 1..22 : /\ Order[i] = "emails" => i = 5
                       /\ Order[i] = "sessions" => i = 14
                       /\ Order[i] = "bind" => i = 15
                       /\ Order[i] = "clear" => i = 20
                       /\ Order[i] = "hash" => i = 21
  BY DEF Order
<1> QED
  BY <1>1 DEF Order

LEMMA InPast ==
  ASSUME NEW w, w.pc = "migrating", w.step \in 1..22, NEW i \in 1..22, i < w.step
  PROVE  Order[i] \in Past(w)
BY StepNames, Numbers DEF Past, Passed, Range

LEMMA PastNext ==
  ASSUME NEW w, NEW v, Moved(w, v)
  PROVE  Past(v) \subseteq Past(w) \cup {Order[w.step]}
BY PassedNext DEF Past

LEMMA PastNow ==
  ASSUME NEW w, NEW v, v.pc = w.pc, v.step = w.step
  PROVE  Past(v) = Past(w)
BY DEF Past, Passed

\* What is true after more steps is true after fewer.
LEMMA LessDone ==
  ASSUME NEW d, NEW past, NEW less, less \subseteq past, DataAfter(d, past)
  PROVE  DataAfter(d, less)
<1>1. TokensAfter(d.sessions, less)
  BY DEF DataAfter, TokensAfter
<1>2. PeersAfter(d, less)
  BY DEF DataAfter, PeersAfter
<1>3. BindingsAfter(d, less)
  BY DEF DataAfter, BindingsAfter
<1>4. EmailsAfter(d, less)
  BY DEF DataAfter, EmailsAfter
<1> QED
  BY <1>1, <1>2, <1>3, <1>4 DEF DataAfter

\* All of it is told of a database and the one stored first.
LEMMA DataOf ==
  ASSUME NEW d, db' = d, first' = first
  PROVE  /\ UsersSame(d.users) => UsersSame(db.users)'
         /\ TokensSame(d.sessions) => TokensSame(db.sessions)'
         /\ PeersSame(d.peers) => PeersSame(db.peers)'
         /\ BindingsSame(d.thirds) => BindingsSame(db.thirds)'
         /\ \A past : DataAfter(d, past) => DataAfter(db, past)'
         /\ \A w : TodoFits(w, d) => TodoFits(w, db)'
<1>1. UsersSame(d.users) => UsersSame(db.users)'
  BY DEF UsersSame
<1>2. TokensSame(d.sessions) => TokensSame(db.sessions)'
  BY DEF TokensSame
<1>3. \A i : Sole(i) <=> Sole(i)'
  BY DEF Sole
<1>4. \A i : (Claimed(i, d.peers) <=> Claimed(i, db.peers)') /\ (Awaited(i, d.peers) <=> Awaited(i, db.peers)')
  BY DEF Claimed, Awaited
<1>5. PeersSame(d.peers) => PeersSame(db.peers)'
  BY <1>3, <1>4 DEF PeersSame
<1>6. BindingsSame(d.thirds) => BindingsSame(db.thirds)'
  BY DEF BindingsSame
<1>7. ASSUME NEW past
      PROVE  DataAfter(d, past) => DataAfter(db, past)'
  <2>1. TokensAfter(d.sessions, past) => TokensAfter(db.sessions, past)'
    BY DEF TokensAfter
  <2>2. PeersAfter(d, past) => PeersAfter(db, past)'
    BY <1>3, <1>4 DEF PeersAfter
  <2>3. BindingsAfter(d, past) => BindingsAfter(db, past)'
    BY DEF BindingsAfter
  <2>4. EmailsAfter(d, past) => EmailsAfter(db, past)'
    BY DEF EmailsAfter
  <2> QED
    BY <2>1, <2>2, <2>3, <2>4 DEF DataAfter
<1>8. \A w : TodoFits(w, d) => TodoFits(w, db)'
  BY <1>3, <1>4 DEF TodoFits
<1> QED
  BY <1>1, <1>2, <1>5, <1>6, <1>7, <1>8

\* What is stored tells the same as what was stored first.
DataSame(d) ==
  UsersSame(d.users) /\ TokensSame(d.sessions) /\ PeersSame(d.peers) /\ BindingsSame(d.thirds)

\* A database that is being migrated has the versions it had at first.
LEMMA NotRecorded ==
  ASSUME SchemaInv, DataInv, NEW p \in Process, proc[p].pc = "migrating"
  PROVE  /\ db.versions = first.versions /\ InspectSchema(db) # "current"
         /\ InspectSchema(first) \notin {"current", "invalid"}
         /\ Early(first) <=> Before(p, 245)
<1>1. /\ db.versions = {} \/ Latest(db) < Target
      /\ InspectSchema(first) # "invalid" /\ proc[p].initial = (db.versions = {})
      /\ proc[p].legacy = (IF proc[p].initial THEN 0 ELSE Latest(db))
      /\ db.versions = first.versions \/ (db.versions # {} /\ Latest(db) = Target)
  BY DEF SchemaInv, DataInv, MigrationFits, DataFits
<1>2. ~(Latest(db) < Target /\ Latest(db) = Target)
  BY TargetAssumption
<1>3. db.versions = first.versions
  BY <1>1, <1>2
<1>4. Latest(db) = Latest(first)
  BY <1>3 DEF Latest
<1>5. InspectSchema(db) # "current" /\ InspectSchema(first) # "current"
  BY <1>1, <1>2, <1>3, <1>4 DEF InspectSchema
<1>6. Early(first) <=> Before(p, 245)
  <2>1. CASE first.versions = {}
    <3>1. proc[p].initial
      BY <1>1, <1>3, <2>1
    <3>2. proc[p].legacy = 0
      BY <1>1, <3>1
    <3> QED
      BY <2>1, <3>2 DEF Early, Before
  <2>2. CASE first.versions # {}
    <3>1. /\ first.versions \subseteq Nat \ {0}
          /\ \E v \in first.versions : \A w \in first.versions : w <= v
      BY <2>2, StoredSchemas DEF SchemaInv
    <3>2. Latest(first) \in Nat \ {0}
      BY <3>1 DEF Latest
    <3>3. proc[p].legacy = Latest(first)
      BY <1>1, <1>3, <1>4, <2>2
    <3> QED
      BY <2>2, <3>2, <3>3 DEF Early, Before
  <2> QED
    BY <2>1, <2>2
<1> QED
  BY <1>1, <1>3, <1>5, <1>6

\* The process that migrates makes a step.
LEMMA DataMoved ==
  ASSUME SchemaInv, DataInv, first' = first, NEW p \in Process, NEW w,
         Moved(proc[p], w), proc' = [proc EXCEPT ![p] = w],
         NEW d, db' = d, d.versions = db.versions, DataSame(d),
         DataAfter(d, Past(w)), w.pc = "migrating" => TodoFits(w, d)
  PROVE  DataInv'
<1>1. /\ proc[p].pc = "migrating" /\ w.pc \in {"migrating", "verifying"}
      /\ w.legacy = proc[p].legacy /\ w.initial = proc[p].initial
  BY DEF Moved
<1>2. \A q \in Process : proc'[q] = IF q = p THEN w ELSE proc[q]
  BY DEF SchemaInv
<1>3. \A q \in Process \ {p} : proc[q].pc \notin {"migrating", "verifying"}
  BY <1>1 DEF SchemaInv, LockHeld
<1>4. db.versions = first.versions
  BY <1>1, NotRecorded
<1>5. Latest(db)' = Latest(db)
  BY DEF Latest
<1>6. DataFits(w)'
  <2>1. w.pc = "migrating" => w.legacy = (IF w.initial THEN 0 ELSE Latest(db)')
    BY <1>1, <1>5 DEF DataInv, DataFits
  <2>2. DataAfter(db, Past(w))' /\ (w.pc = "migrating" => TodoFits(w, db)')
    BY DataOf
  <2> QED
    BY <2>1, <2>2 DEF DataFits
<1>7. \A q \in Process : DataFits(proc[q])'
  <2> SUFFICES ASSUME NEW q \in Process PROVE DataFits(proc[q])'
    OBVIOUS
  <2>1. CASE q = p
    <3>1. proc'[q] = w
      BY <1>2, <2>1
    <3> QED
      BY <1>6, <3>1 DEF DataFits
  <2>2. CASE q # p
    BY <1>2, <1>3, <2>2 DEF DataFits
  <2> QED
    BY <2>1, <2>2
<1>8. InspectSchema(db)' # "current"
  <2>1. db.versions = {} \/ Latest(db) < Target
    BY <1>1 DEF SchemaInv, MigrationFits
  <2>2. db'.versions = {} \/ Latest(db)' < Target
    BY <1>5, <2>1
  <2>3. ~(Latest(db)' < Target /\ Latest(db)' = Target)
    BY TargetAssumption
  <2> QED
    BY <2>2, <2>3 DEF InspectSchema
<1>9. UsersSame(db.users)' /\ TokensSame(db.sessions)' /\ PeersSame(db.peers)' /\ BindingsSame(db.thirds)'
  BY DataOf DEF DataSame
<1> QED
  BY <1>4, <1>7, <1>8, <1>9 DEF DataInv

LEMMA DataMigrate ==
  ASSUME SchemaInv, DataInv, NEW p \in Process, NEW step, step \notin {"sessions", "clear"},
         NEW d, Migrate(p, step, d), d.versions = db.versions, DataSame(d),
         DataAfter(d, Past(proc[p]) \cup {step})
  PROVE  DataInv'
<1>1. /\ proc[p].pc = "migrating" /\ Order[proc[p].step] = step /\ db' = d
      /\ Advance(p, {}) /\ first' = first
  BY DEF Migrate, At
<1>2. PICK w : /\ Moved(proc[p], w) /\ proc' = [proc EXCEPT ![p] = w]
               /\ w.todo = {} /\ (w.pc = "migrating" => w.step = proc[p].step + 1)
  BY <1>1, AdvanceMoves
<1>3. DataAfter(d, Past(w))
  BY <1>1, <1>2, PastNext, LessDone
<1>4. w.pc = "migrating" => TodoFits(w, d)
  <2> SUFFICES ASSUME w.pc = "migrating"
               PROVE  TodoFits(w, d)
    OBVIOUS
  <2>1. w.step = proc[p].step + 1 /\ w.step \in 1..22 /\ proc[p].step \in 1..22
    BY <1>2 DEF Moved
  <2>2. Order[w.step] \notin {"bind", "hash"}
    <3> SUFFICES ASSUME Order[w.step] \in {"bind", "hash"}
                 PROVE  FALSE
      OBVIOUS
    <3>1. w.step \in {15, 21}
      BY <2>1, StepNames
    <3>2. proc[p].step \in {14, 20}
      BY <2>1, <3>1
    <3> QED
      BY <1>1, <3>2 DEF Order
  <2> QED
    BY <2>2 DEF TodoFits
<1> QED
  BY <1>1, <1>2, <1>3, <1>4, DataMoved

-----------------------------------------------------------------------------
(* Steps that touch no binding, session or device                            *)

Watched == {"identities", "validate", "emails", "settings", "tokens", "inventory", "sessions",
            "bind", "clear", "hash", "record"}

\* Accounts keep what sessions and bindings are compared with.
AccountsSame(users) ==
  /\ DOMAIN users = DOMAIN db.users
  /\ \A i \in DOMAIN db.users :
       SameAccount(db.users[i], users[i]) /\ users[i].email = db.users[i].email

LEMMA RowsSame ==
  ASSUME SchemaInv, DataInv, NEW d, d.sessions = db.sessions, d.peers = db.peers,
         d.thirds = db.thirds, DOMAIN d.users = DOMAIN db.users,
         \A i \in DOMAIN db.users : SameAccount(db.users[i], d.users[i])
  PROVE  DataSame(d)
<1>1. \A i \in DOMAIN first.users : i \in DOMAIN db.users /\ SameAccount(first.users[i], db.users[i])
  BY DEF SchemaInv, AccountsKept, DataInv, UsersSame
<1>2. \A i \in DOMAIN first.users : SameAccount(first.users[i], d.users[i])
  BY <1>1 DEF SameAccount
<1> QED
  BY <1>2 DEF DataInv, DataSame, UsersSame

\* Whatever the steps that are not watched do, what is done stays done.
LEMMA UnwatchedStay ==
  ASSUME NEW d, d.sessions = db.sessions, d.peers = db.peers, d.thirds = db.thirds,
         AccountsSame(d.users), NEW past, DataAfter(db, past), NEW step, step \notin Watched
  PROVE  DataAfter(d, past \cup {step})
<1> USE DEF Watched
<1>1. TokensAfter(d.sessions, past \cup {step})
  BY DEF DataAfter, TokensAfter
<1>2. PeersAfter(d, past \cup {step})
  BY DEF DataAfter, PeersAfter, OnePeer
<1>3. BindingsAfter(d, past \cup {step})
  BY DEF DataAfter, BindingsAfter, OneBinding
<1>4. EmailsAfter(d, past \cup {step})
  BY DEF DataAfter, EmailsAfter, AccountsSame
<1> QED
  BY <1>1, <1>2, <1>3, <1>4 DEF DataAfter

LEMMA DoneBefore ==
  ASSUME DataInv, NEW p \in Process, proc[p].pc = "migrating"
  PROVE  DataAfter(db, Past(proc[p]))
BY DEF DataInv, DataFits

LEMMA UnwatchedMigrate ==
  ASSUME SchemaInv, DataInv, NEW p \in Process, NEW step, step \notin Watched,
         NEW d, Migrate(p, step, d), d.versions = db.versions,
         d.sessions = db.sessions, d.peers = db.peers, d.thirds = db.thirds, AccountsSame(d.users)
  PROVE  DataInv'
<1>1. proc[p].pc = "migrating"
  BY DEF Migrate, At
<1>2. DataSame(d)
  BY RowsSame DEF AccountsSame
<1>3. DataAfter(d, Past(proc[p]) \cup {step})
  BY <1>1, DoneBefore, UnwatchedStay
<1> QED
  BY <1>2, <1>3, DataMigrate DEF Watched

\* How the columns of an account may change.
LEMMA RowSame ==
  ASSUME NEW u, Row(u)
  PROVE  /\ SameAccount(u, u)
         /\ \A x : LET v == [u EXCEPT !.role = x] IN SameAccount(u, v) /\ v.email = u.email
         /\ \A x : LET v == [u EXCEPT !.isAdmin = x] IN SameAccount(u, v) /\ v.email = u.email
         /\ \A x : LET v == [u EXCEPT !.name = x] IN SameAccount(u, v) /\ v.email = u.email
         /\ \A x : SameAccount(u, [u EXCEPT !.email = x])
         /\ SameAccount(u, Versioned(u)) /\ Versioned(u).email = u.email
BY DEF Row, AccountColumns, SameAccount, Versioned

LEMMA UnwatchedSteps ==
  ASSUME SchemaInv, DataInv, NEW p \in Process,
         \/ CreateVersions(p) \/ FillIssuer(p) \/ DefaultBranding(p) \/ SplitThemes(p)
         \/ UnifyBranding(p) \/ CreateTables(p) \/ BackfillUsers(p)
         \/ Promote(p) \/ Demote(p) \/ Normalize(p) \/ Mirror(p)
  PROVE  DataInv'
<1>1. DOMAIN db = DatabaseColumns /\ \A i \in DOMAIN db.users : Row(db.users[i])
  BY DEF SchemaInv, UsersFit, Row
<1> DEFINE Quiet(d) == /\ d.versions = db.versions /\ d.sessions = db.sessions
                       /\ d.peers = db.peers /\ d.thirds = db.thirds /\ AccountsSame(d.users)
           Columns == DatabaseColumns \ {"users", "versions", "sessions", "peers", "thirds"}
<1>2. AccountsSame(db.users) /\ Quiet(db)
  BY <1>1, RowSame DEF AccountsSame
<1>3. \A x, v : x \in Columns => Quiet([db EXCEPT ![x] = v])
  BY <1>1, <1>2 DEF DatabaseColumns
<1>4. \A x, y, v, w : x \in Columns /\ y \in Columns => Quiet([[db EXCEPT ![x] = v] EXCEPT ![y] = w])
  BY <1>1, <1>2 DEF DatabaseColumns
<1>5. \A us, ts : AccountsSame(us) => /\ Quiet([db EXCEPT !.users = us])
                                     /\ Quiet([[db EXCEPT !.users = us] EXCEPT !.tables = ts])
  BY <1>1 DEF DatabaseColumns
<1> HIDE DEF Quiet
<1>6. \A step, d : step \notin Watched /\ Quiet(d) /\ Migrate(p, step, d) => DataInv'
  BY UnwatchedMigrate DEF Quiet
<1>7. CASE CreateVersions(p)
  BY <1>3, <1>6, <1>7 DEF CreateVersions, Watched, DatabaseColumns
<1>8. CASE FillIssuer(p)
  BY <1>2, <1>3, <1>6, <1>8 DEF FillIssuer, Watched, DatabaseColumns
<1>9. CASE DefaultBranding(p)
  BY <1>3, <1>6, <1>9 DEF DefaultBranding, Watched, DatabaseColumns
<1>10. CASE SplitThemes(p)
  BY <1>3, <1>6, <1>10 DEF SplitThemes, Watched, DatabaseColumns
<1>11. CASE UnifyBranding(p)
  <2>1. PICK x : Migrate(p, "unified", [[db EXCEPT !.brand = x] EXCEPT !.themed = x])
    BY <1>11 DEF UnifyBranding
  <2>2. "brand" \in Columns /\ "themed" \in Columns
    BY DEF DatabaseColumns
  <2> HIDE DEF Columns
  <2> QED
    BY <1>4, <1>6, <2>1, <2>2 DEF Watched
<1>12. CASE CreateTables(p)
  <2> DEFINE us == [i \in DOMAIN db.users |->
                      [db.users[i] EXCEPT !.role = IF @ = "missing" THEN "user" ELSE @]]
  <2>1. AccountsSame(us)
    BY ZenonT(60), <1>1, RowSame DEF AccountsSame
  <2>2. Migrate(p, "tables", [[db EXCEPT !.users = us] EXCEPT !.tables = [db EXCEPT !.users = us].tables \cup {"application"}])
    BY <1>12 DEF CreateTables, Update
  <2> HIDE DEF us
  <2> QED
    BY <1>5, <1>6, <2>1, <2>2 DEF Watched
<1>13. CASE BackfillUsers(p)
  <2> DEFINE us == [i \in DOMAIN db.users |-> Versioned(db.users[i])]
  <2>1. AccountsSame(us)
    BY <1>1, RowSame DEF AccountsSame
  <2>2. Migrate(p, "users", [db EXCEPT !.users = us])
    BY <1>13 DEF BackfillUsers, Update
  <2> HIDE DEF us
  <2> QED
    BY <1>5, <1>6, <2>1, <2>2 DEF Watched
<1>14. CASE Promote(p)
  <2> DEFINE us == [i \in DOMAIN db.users |-> [db.users[i] EXCEPT !.role =
                      IF db.users[i].isAdmin /\ @ \notin Administrators THEN "super" ELSE @]]
  <2>1. AccountsSame(us)
    <3>1. ASSUME NEW i \in DOMAIN db.users
          PROVE  SameAccount(db.users[i], us[i]) /\ us[i].email = db.users[i].email
      <4> DEFINE x == IF db.users[i].isAdmin /\ db.users[i].role \notin Administrators
                      THEN "super" ELSE db.users[i].role
      <4>1. us[i] = [db.users[i] EXCEPT !.role = x]
        OBVIOUS
      <4> HIDE DEF us, x
      <4> QED
        BY <1>1, <4>1, RowSame
    <3> QED
      BY <3>1 DEF AccountsSame
  <2>2. Migrate(p, "promote", [db EXCEPT !.users = us])
    BY <1>14 DEF Promote, Update
  <2> HIDE DEF us
  <2> QED
    BY <1>5, <1>6, <2>1, <2>2 DEF Watched
<1>15. CASE Demote(p)
  <2> DEFINE us == [i \in DOMAIN db.users |->
                      IF db.users[i].isAdmin THEN db.users[i] ELSE Ordinary(db.users[i])]
  <2>1. AccountsSame(us)
    BY ZenonT(60), <1>1, RowSame DEF AccountsSame, Ordinary
  <2>2. Migrate(p, "demote", [db EXCEPT !.users = us])
    BY <1>15 DEF Demote, Update
  <2> HIDE DEF us
  <2> QED
    BY <1>5, <1>6, <2>1, <2>2 DEF Watched
<1>16. CASE Normalize(p)
  <2> DEFINE us == [i \in DOMAIN db.users |-> Ordinary(db.users[i])]
  <2>1. AccountsSame(us)
    BY ZenonT(60), <1>1, RowSame DEF AccountsSame, Ordinary
  <2>2. Migrate(p, "normalize", [db EXCEPT !.users = us])
    BY <1>16 DEF Normalize, Update
  <2> HIDE DEF us
  <2> QED
    BY <1>5, <1>6, <2>1, <2>2 DEF Watched
<1>17. CASE Mirror(p)
  <2> DEFINE us == [i \in DOMAIN db.users |->
                      [db.users[i] EXCEPT !.isAdmin = db.users[i].role \in Administrators]]
  <2>1. AccountsSame(us)
    BY <1>1, RowSame DEF AccountsSame
  <2>2. Migrate(p, "mirror", [db EXCEPT !.users = us])
    BY <1>17 DEF Mirror, Update
  <2> HIDE DEF us
  <2> QED
    BY <1>5, <1>6, <2>1, <2>2 DEF Watched
<1> QED
  BY <1>7, <1>8, <1>9, <1>10, <1>11, <1>12, <1>13, <1>14, <1>15, <1>16, <1>17

-----------------------------------------------------------------------------
(* Bindings: filled, validated, moved and removed                            *)

LEMMA FirstStep ==
  ASSUME SchemaInv, NEW p \in Process, At(p, "identities")
  PROVE  Past(proc[p]) = {}
<1>1. proc[p].pc = "migrating" /\ proc[p].step \in 1..22 /\ Order[proc[p].step] = "identities"
  BY Numbers DEF At, SchemaInv, MigrationFits
<1>2. proc[p].step = 1
  BY <1>1 DEF Order
<1> QED
  BY <1>1, <1>2, Numbers DEF Past, Passed

LEMMA IdentitiesPrepared ==
  ASSUME SchemaInv, DataInv, NEW p \in Process, PrepareIdentities(p)
  PROVE  DataInv'
<1> DEFINE Filled(t) == [t EXCEPT !.type = Old(@, t.third), !.op = Old(@, t.third)]
           thirds == [i \in DOMAIN db.thirds |-> Filled(db.thirds[i])]
           d == [[db EXCEPT !.thirds = thirds] EXCEPT !.issuer = Old([db EXCEPT !.thirds = thirds].issuer, "google")]
<1>1. Migrate(p, "identities", IF Before(p, 245) THEN d ELSE db)
  BY DEF PrepareIdentities, Update
<1>2. At(p, "identities") /\ proc[p].pc = "migrating" /\ Past(proc[p]) = {}
  BY <1>1, FirstStep DEF Migrate, At
<1>3. Early(first) <=> Before(p, 245)
  BY <1>2, NotRecorded
<1>4. DataSame(db)
  BY DEF DataInv, DataSame
<1>5. ASSUME NEW e, Early(first) => \A i \in DOMAIN e.thirds :
                          e.thirds[i].type = e.thirds[i].third /\ e.thirds[i].op = e.thirds[i].third
      PROVE  DataAfter(e, Past(proc[p]) \cup {"identities"})
  BY <1>2, <1>5 DEF DataAfter, TokensAfter, PeersAfter, BindingsAfter, EmailsAfter
<1>6. CASE Before(p, 245)
  <2>1. /\ d.versions = db.versions /\ d.users = db.users /\ d.sessions = db.sessions
        /\ d.peers = db.peers /\ d.thirds = thirds
    BY DEF SchemaInv, UsersFit, DatabaseColumns
  <2>2. \A i \in DOMAIN db.thirds :
          DOMAIN db.thirds[i] = BindingColumns /\ EarlyBinding(db.thirds[i])
    BY <1>3, <1>6 DEF DataInv, BindingsSame, BindingsFit
  <2>3. \A t : DOMAIN t = BindingColumns /\ EarlyBinding(t) =>
          /\ DOMAIN Filled(t) = BindingColumns /\ EarlyBinding(Filled(t))
          /\ Filled(t).type = Filled(t).third /\ Filled(t).op = Filled(t).third
    BY DEF BindingColumns, EarlyBinding, Old
  <2> HIDE DEF Filled, d
  <2>4. \A i \in DOMAIN thirds :
          /\ DOMAIN thirds[i] = BindingColumns /\ EarlyBinding(thirds[i])
          /\ thirds[i].type = thirds[i].third /\ thirds[i].op = thirds[i].third
    BY <2>2, <2>3
  <2>5. BindingsSame(d.thirds)
    BY <1>3, <1>6, <2>1, <2>4 DEF BindingsSame, BindingsFit
  <2>6. DataSame(d) /\ Migrate(p, "identities", d)
    BY <1>1, <1>4, <1>6, <2>1, <2>5 DEF DataSame
  <2>7. DataAfter(d, Past(proc[p]) \cup {"identities"})
    BY <1>5, <2>1, <2>4
  <2> QED
    BY <2>1, <2>6, <2>7, DataMigrate
<1>7. CASE ~Before(p, 245)
  <2>1. Migrate(p, "identities", db) /\ DataAfter(db, Past(proc[p]) \cup {"identities"})
    BY <1>1, <1>3, <1>5, <1>7
  <2> QED
    BY <1>4, <2>1, DataMigrate
<1> QED
  BY <1>6, <1>7

LEMMA IdentitiesValidated ==
  ASSUME SchemaInv, DataInv, NEW p \in Process, Validate(p)
  PROVE  DataInv'
<1>1. Migrate(p, "validate", db) /\ proc[p].pc = "migrating" /\ OneBinding(db) /\ OnePeer(db)
  BY DEF Validate, Migrate, At
<1>2. DataAfter(db, Past(proc[p]) \cup {"validate"})
  BY <1>1, DoneBefore DEF DataAfter, TokensAfter, PeersAfter, BindingsAfter, EmailsAfter
<1>3. DataSame(db)
  BY DEF DataInv, DataSame
<1> QED
  BY <1>1, <1>2, <1>3, DataMigrate

\* Which provider a binding is of decides whose it is: two accounts' emails
\* are never taken from one, nor one account's from two.
LEMMA OneEmail ==
  ASSUME NEW d, OneBinding(d), NEW i \in DOMAIN d.thirds, NEW j \in DOMAIN d.thirds,
         d.thirds[i].op = d.thirds[j].op, d.thirds[i].user = d.thirds[j].user
  PROVE  i = j
BY DEF OneBinding, Repeated

LEMMA EmailsTaken ==
  ASSUME SchemaInv, DataInv, NEW p \in Process, MoveEmails(p)
  PROVE  DataInv'
<1> DEFINE Google(i) == {t \in Range(db.thirds) : t.type = "google" /\ t.user = i}
           Email(i) == IF Google(i) = {} THEN db.users[i].email
                       ELSE (CHOOSE t \in Google(i) : TRUE).subject
           users == [i \in DOMAIN db.users |-> [db.users[i] EXCEPT !.email = Email(i)]]
           d == [db EXCEPT !.users = users]
<1>1. Migrate(p, "emails", IF Before(p, 245) THEN d ELSE db)
  BY DEF MoveEmails
<1>2. proc[p].pc = "migrating" /\ Order[proc[p].step] = "emails" /\ proc[p].step \in 1..22
  BY <1>1, Numbers DEF Migrate, At, SchemaInv, MigrationFits
<1>3. Early(first) <=> Before(p, 245)
  BY <1>2, NotRecorded
<1>4. DataAfter(db, Past(proc[p])) /\ DataSame(db)
  BY <1>2, DoneBefore DEF DataInv, DataSame
<1>5. CASE Before(p, 245)
  <2>1. "identities" \in Past(proc[p]) /\ "validate" \in Past(proc[p])
    <3>1. proc[p].step = 5
      BY <1>2, StepNames
    <3> QED
      BY <1>2, <3>1, InPast, StepNames
  <2>2. /\ OneBinding(db)
        /\ \A i \in DOMAIN db.thirds :
             db.thirds[i].type = db.thirds[i].third /\ db.thirds[i].op = db.thirds[i].third
    BY <1>3, <1>4, <1>5, <2>1 DEF DataAfter, BindingsAfter
  <2>3. ASSUME NEW i \in DOMAIN db.thirds, db.thirds[i].type = "google"
        PROVE  Email(db.thirds[i].user) = db.thirds[i].subject
    <3> DEFINE t == db.thirds[i]
               c == CHOOSE x \in Google(t.user) : TRUE
    <3>1. t \in Google(t.user)
      BY <2>3 DEF Range
    <3>2. c \in Google(t.user)
      BY <3>1
    <3> HIDE DEF c
    <3>3. PICK j \in DOMAIN db.thirds : db.thirds[j] = c
      BY <3>2 DEF Range
    <3>4. db.thirds[j].op = t.op /\ db.thirds[j].user = t.user
      BY <2>2, <2>3, <3>2, <3>3
    <3>5. c = t
      BY <2>2, <3>3, <3>4, OneEmail
    <3> QED
      BY <3>1, <3>5 DEF c
  <2> HIDE DEF Email
  <2>4. /\ d.versions = db.versions /\ d.users = users /\ d.sessions = db.sessions
        /\ d.peers = db.peers /\ d.thirds = db.thirds
    BY DEF SchemaInv, UsersFit, DatabaseColumns
  <2>5. \A i \in DOMAIN db.users : Row(db.users[i])
    BY DEF SchemaInv, UsersFit, Row
  <2>6. /\ DOMAIN users = DOMAIN db.users
        /\ \A i \in DOMAIN db.users : SameAccount(db.users[i], users[i]) /\ users[i].email = Email(i)
    BY <2>5, RowSame DEF Row, AccountColumns
  <2> HIDE DEF users, d
  <2>7. DataSame(d)
    BY <2>4, <2>6, RowsSame
  <2>8. EmailsAfter(d, Past(proc[p]) \cup {"emails"})
    BY <2>3, <2>4, <2>6 DEF EmailsAfter
  <2>9. DataAfter(d, Past(proc[p]) \cup {"emails"})
    BY <1>4, <2>4, <2>8 DEF DataAfter, TokensAfter, PeersAfter, BindingsAfter, OnePeer, OneBinding
  <2> QED
    BY <1>1, <1>5, <2>4, <2>7, <2>9, DataMigrate
<1>6. CASE ~Before(p, 245)
  <2>1. DataAfter(db, Past(proc[p]) \cup {"emails"})
    BY <1>3, <1>4, <1>6 DEF DataAfter, TokensAfter, PeersAfter, BindingsAfter, EmailsAfter
  <2> QED
    BY <1>1, <1>4, <1>6, <2>1, DataMigrate
<1> QED
  BY <1>5, <1>6

LEMMA SettingsMoved ==
  ASSUME SchemaInv, DataInv, NEW p \in Process, MoveSettings(p)
  PROVE  DataInv'
<1> DEFINE kept == {i \in DOMAIN db.thirds : ~Linuxdo(db.thirds[i])}
           thirds == [i \in kept |-> db.thirds[i]]
<1>1. PICK d : /\ Migrate(p, "settings", d) /\ d.thirds = thirds
               /\ d.versions = db.versions /\ d.users = db.users /\ d.sessions = db.sessions
               /\ d.peers = db.peers
  <2> DEFINE d == [db EXCEPT !.notice = Old(@, db.oldNotice), !.thirds = thirds]
  <2>1. Migrate(p, "settings", d)
    BY DEF MoveSettings, SchemaInv, UsersFit, DatabaseColumns
  <2>2. /\ d.thirds = thirds /\ d.versions = db.versions /\ d.users = db.users
        /\ d.sessions = db.sessions /\ d.peers = db.peers
    BY DEF SchemaInv, UsersFit, DatabaseColumns
  <2> HIDE DEF d
  <2> QED
    BY <2>1, <2>2
<1>2. proc[p].pc = "migrating"
  BY <1>1 DEF Migrate, At
<1>3. DataAfter(db, Past(proc[p])) /\ DataSame(db)
  BY <1>2, DoneBefore DEF DataInv, DataSame
<1>4. /\ DOMAIN thirds \subseteq DOMAIN db.thirds
      /\ \A i \in DOMAIN thirds : thirds[i] = db.thirds[i] /\ ~Linuxdo(thirds[i])
  OBVIOUS
<1> HIDE DEF thirds, kept
<1>5. DataSame(d)
  BY <1>1, <1>3, <1>4 DEF DataSame, BindingsSame, BindingsFit
<1>6. OneBinding(db) => OneBinding(d)
  BY <1>1, <1>4 DEF OneBinding, Repeated
<1>7. BindingsAfter(d, Past(proc[p]) \cup {"settings"})
  BY <1>1, <1>3, <1>4, <1>6 DEF DataAfter, BindingsAfter
<1>8. EmailsAfter(d, Past(proc[p]) \cup {"settings"})
  BY <1>1, <1>3, <1>4 DEF DataAfter, EmailsAfter
<1>9. DataAfter(d, Past(proc[p]) \cup {"settings"})
  BY <1>1, <1>3, <1>7, <1>8 DEF DataAfter, TokensAfter, PeersAfter, OnePeer
<1> QED
  BY <1>1, <1>5, <1>9, DataMigrate

-----------------------------------------------------------------------------
(* Sessions: generations, clients and hashes                                 *)

\* Sessions that are rewritten one by one and tell the same.
LEMMA TokensRewritten ==
  ASSUME DataInv, NEW sessions, DOMAIN sessions = DOMAIN db.sessions,
         \A i \in DOMAIN db.sessions :
           /\ DOMAIN sessions[i] = TokenColumns /\ sessions[i].auth \in Nat
           /\ SameToken(db.sessions[i], sessions[i])
  PROVE  TokensSame(sessions)
<1>1. TokensFit(sessions) /\ DOMAIN sessions = DOMAIN first.sessions
  BY DEF DataInv, TokensSame, TokensFit
<1>2. \A i \in DOMAIN sessions : SameToken(first.sessions[i], sessions[i])
  BY DEF DataInv, TokensSame, SameToken
<1> QED
  BY <1>1, <1>2 DEF TokensSame

(* A stored session as far as the passes rely on its columns. *)
SessionRow(t) == DOMAIN t = TokenColumns /\ t.auth \in Nat

LEMMA TokenRows ==
  ASSUME DataInv
  PROVE  \A i \in DOMAIN db.sessions : SessionRow(db.sessions[i])
BY DEF DataInv, TokensSame, TokensFit, SessionRow

LEMMA VersionedToken ==
  ASSUME NEW t, SessionRow(t)
  PROVE  LET u == Versioned(t) IN
         /\ SessionRow(u) /\ SameToken(t, u) /\ u.auth > 0
         /\ u.client = t.client /\ u.log = t.log /\ u.hashed = t.hashed
BY DEF SessionRow, TokenColumns, SameToken, Versioned

LEMMA ClientToken ==
  ASSUME NEW t, SessionRow(t)
  PROVE  LET u == [t EXCEPT !.client = Old(@, t.log)] IN
         /\ SessionRow(u) /\ SameToken(t, u) /\ u.client = Old(u.client, u.log)
         /\ u.auth = t.auth /\ u.hashed = t.hashed
BY DEF SessionRow, TokenColumns, SameToken, Versioned, Old

LEMMA HashedToken ==
  ASSUME NEW t, SessionRow(t)
  PROVE  LET u == [t EXCEPT !.hashed = TRUE] IN
         /\ SessionRow(u) /\ SameToken(t, u) /\ u.hashed
         /\ u.auth = t.auth /\ u.client = t.client /\ u.log = t.log
BY DEF SessionRow, TokenColumns, SameToken, Versioned, Old

LEMMA TokensFilled ==
  ASSUME SchemaInv, DataInv, NEW p \in Process, BackfillTokens(p)
  PROVE  DataInv'
<1> DEFINE sessions == [i \in DOMAIN db.sessions |-> Versioned(db.sessions[i])]
           d == [db EXCEPT !.sessions = sessions]
<1>1. Migrate(p, "tokens", d) /\ proc[p].pc = "migrating"
  BY DEF BackfillTokens, Update, Migrate, At
<1>2. DataAfter(db, Past(proc[p])) /\ DataSame(db)
  BY <1>1, DoneBefore DEF DataInv, DataSame
<1>3. /\ d.versions = db.versions /\ d.users = db.users /\ d.sessions = sessions
      /\ d.peers = db.peers /\ d.thirds = db.thirds
  BY DEF SchemaInv, UsersFit, DatabaseColumns
<1>4. /\ DOMAIN sessions = DOMAIN db.sessions
      /\ \A i \in DOMAIN db.sessions :
           /\ SessionRow(sessions[i]) /\ SameToken(db.sessions[i], sessions[i]) /\ sessions[i].auth > 0
           /\ sessions[i].client = db.sessions[i].client /\ sessions[i].log = db.sessions[i].log
           /\ sessions[i].hashed = db.sessions[i].hashed
  BY TokenRows, VersionedToken
<1> HIDE DEF sessions, d
<1>5. TokensSame(sessions)
  BY <1>4, TokensRewritten DEF SessionRow
<1>6. DataSame(d)
  BY <1>2, <1>3, <1>5 DEF DataSame
<1>7. TokensAfter(sessions, Past(proc[p]) \cup {"tokens"})
  BY <1>2, <1>4 DEF DataAfter, TokensAfter
<1>8. DataAfter(d, Past(proc[p]) \cup {"tokens"})
  BY <1>2, <1>3, <1>7 DEF DataAfter, PeersAfter, OnePeer, BindingsAfter, OneBinding, EmailsAfter
<1> QED
  BY <1>1, <1>3, <1>6, <1>8, DataMigrate

\* Where a device's row came from says nothing about whose it is.
LEMMA PeersAlike ==
  ASSUME NEW peers, PeersFit(peers), NEW rows, rows = [r \in DOMAIN peers |-> rows[r]],
         \A r \in DOMAIN peers :
           /\ DOMAIN rows[r] = DeviceColumns
           /\ rows[r].id = peers[r].id /\ rows[r].uuid = peers[r].uuid /\ rows[r].user = peers[r].user
  PROVE  /\ PeersFit(rows)
         /\ PeersSame(peers) => PeersSame(rows)
         /\ \A i : Claimed(i, peers) => Claimed(i, rows)
<1>1. PeersFit(rows)
  BY SameLength DEF PeersFit
<1>2. \A i : Claimed(i, peers) => Claimed(i, rows)
  BY DEF Claimed, Claims, Range
<1>3. \A i : Awaited(i, peers) => Awaited(i, rows)
  <2> SUFFICES ASSUME NEW i, Awaited(i, peers), NEW r \in DOMAIN rows
               PROVE  Awaits(rows[r], first.sessions[i])
    BY DEF Awaited, Range
  <2>1. Awaits(peers[r], first.sessions[i])
    BY DEF Awaited, Range
  <2> QED
    BY <2>1 DEF Awaits
<1> QED
  BY <1>1, <1>2, <1>3 DEF PeersSame

LEMMA InventoryFilled ==
  ASSUME SchemaInv, DataInv, NEW p \in Process, FillInventory(p)
  PROVE  DataInv'
<1> DEFINE Client(t) == [t EXCEPT !.client = Old(@, t.log)]
           Source(r) == [r EXCEPT !.source =
                           Old(@, IF r.uuid # "" /\ r.user > 0 THEN "login" ELSE "manual")]
           sessions == [i \in DOMAIN db.sessions |-> Client(db.sessions[i])]
           peers == [r \in DOMAIN db.peers |-> Source(db.peers[r])]
<1>1. PICK d : /\ Migrate(p, "inventory", d) /\ d.sessions = sessions /\ d.peers = peers
               /\ d.versions = db.versions /\ d.users = db.users /\ d.thirds = db.thirds
  <2> DEFINE e == [db EXCEPT !.sessions = sessions]
             d == [e EXCEPT !.peers = [r \in DOMAIN e.peers |-> Source(e.peers[r])]]
  <2>1. Migrate(p, "inventory", d)
    BY DEF FillInventory, Update
  <2>2. e.peers = db.peers /\ DOMAIN e = DatabaseColumns /\ e.sessions = sessions
        /\ e.versions = db.versions /\ e.users = db.users /\ e.thirds = db.thirds
    BY DEF SchemaInv, UsersFit, DatabaseColumns
  <2> HIDE DEF e, sessions
  <2>3. /\ d.sessions = sessions /\ d.peers = peers
        /\ d.versions = db.versions /\ d.users = db.users /\ d.thirds = db.thirds
    BY <2>2 DEF DatabaseColumns
  <2> HIDE DEF d
  <2> QED
    BY <2>1, <2>3
<1>2. DataAfter(db, Past(proc[p])) /\ DataSame(db)
  BY <1>1, DoneBefore DEF DataInv, DataSame, Migrate, At
<1>3. /\ DOMAIN sessions = DOMAIN db.sessions
      /\ \A i \in DOMAIN db.sessions :
           /\ SessionRow(sessions[i]) /\ SameToken(db.sessions[i], sessions[i])
           /\ sessions[i].client = Old(sessions[i].client, sessions[i].log)
           /\ sessions[i].auth = db.sessions[i].auth /\ sessions[i].hashed = db.sessions[i].hashed
  BY TokenRows, ClientToken
<1>4. PeersFit(db.peers) /\ PeersSame(db.peers)
  BY DEF DataInv, PeersSame
<1>5. /\ peers = [r \in DOMAIN db.peers |-> peers[r]]
      /\ \A r \in DOMAIN db.peers :
           /\ DOMAIN peers[r] = DeviceColumns /\ peers[r].id = db.peers[r].id
           /\ peers[r].uuid = db.peers[r].uuid /\ peers[r].user = db.peers[r].user
  BY <1>4 DEF PeersFit, DeviceColumns
<1> HIDE DEF sessions, peers
<1>6. TokensSame(sessions)
  BY <1>3, TokensRewritten DEF SessionRow
<1>7. PeersSame(peers) /\ \A i : Claimed(i, db.peers) => Claimed(i, peers)
  BY <1>4, <1>5, PeersAlike
<1>8. DataSame(d)
  BY <1>1, <1>2, <1>6, <1>7 DEF DataSame
<1>9. TokensAfter(sessions, Past(proc[p]) \cup {"inventory"})
  BY <1>2, <1>3 DEF DataAfter, TokensAfter
<1>10. OnePeer(db) => OnePeer(d)
  BY <1>1, <1>5 DEF OnePeer, Repeated
<1>11. PeersAfter(d, Past(proc[p]) \cup {"inventory"})
  BY <1>1, <1>2, <1>7, <1>10 DEF DataAfter, PeersAfter
<1>12. DataAfter(d, Past(proc[p]) \cup {"inventory"})
  BY <1>1, <1>2, <1>9, <1>11 DEF DataAfter, BindingsAfter, OneBinding, EmailsAfter
<1> QED
  BY <1>1, <1>8, <1>12, DataMigrate

\* The tokens that are not hashed are read, then hashed one by one.
LEMMA TokensRead ==
  ASSUME SchemaInv, DataInv, NEW p \in Process, ReadTokens(p)
  PROVE  DataInv'
<1> DEFINE todo == {i \in DOMAIN db.sessions : ~db.sessions[i].hashed}
<1>1. /\ proc[p].pc = "migrating" /\ Order[proc[p].step] = "clear" /\ Advance(p, todo)
      /\ db' = db /\ first' = first
  BY DEF ReadTokens, At
<1>2. PICK w : /\ Moved(proc[p], w) /\ proc' = [proc EXCEPT ![p] = w]
               /\ w.todo = todo /\ (w.pc = "migrating" => w.step = proc[p].step + 1)
  BY <1>1, AdvanceMoves
<1>3. DataAfter(db, Past(proc[p])) /\ DataSame(db)
  BY <1>1, DoneBefore DEF DataInv, DataSame
<1>4. DataAfter(db, Past(proc[p]) \cup {"clear"})
  BY <1>3 DEF DataAfter, TokensAfter, PeersAfter, BindingsAfter, EmailsAfter
<1>5. DataAfter(db, Past(w))
  BY <1>1, <1>2, <1>4, PastNext, LessDone
<1>6. w.pc = "migrating" => TodoFits(w, db)
  <2> SUFFICES ASSUME w.pc = "migrating"
               PROVE  TodoFits(w, db)
    OBVIOUS
  <2>1. w.step = proc[p].step + 1 /\ w.step \in 1..22 /\ proc[p].step \in 1..22
    BY <1>2 DEF Moved
  <2>2. Order[w.step] # "bind"
    <3>1. proc[p].step = 20
      BY <1>1, <2>1, StepNames
    <3> QED
      BY <2>1, <3>1, StepNames
  <2> QED
    BY <1>2, <2>2 DEF TodoFits
<1> QED
  BY <1>1, <1>2, <1>3, <1>5, <1>6, DataMoved

LEMMA OneTokenHashed ==
  ASSUME SchemaInv, DataInv, NEW p \in Process, HashToken(p)
  PROVE  DataInv'
<1>1. PICK s \in proc[p].todo : /\ db' = [db EXCEPT !.sessions[s].hashed = TRUE]
                              /\ proc' = [proc EXCEPT ![p].todo = @ \ {s}]
  BY DEF HashToken
<1>2. proc[p].pc = "migrating" /\ Order[proc[p].step] = "hash" /\ first' = first
  BY DEF HashToken, At
<1>3. PICK w : /\ Moved(proc[p], w) /\ proc' = [proc EXCEPT ![p] = w]
               /\ w.todo = proc[p].todo \ {s} /\ w.pc = "migrating" /\ w.step = proc[p].step
  BY <1>1, <1>2, TodoMoves
<1>4. DataAfter(db, Past(proc[p])) /\ DataSame(db) /\ TodoFits(proc[p], db)
  BY <1>2, DoneBefore DEF DataInv, DataSame, DataFits
<1> DEFINE sessions == [db.sessions EXCEPT ![s] = [@ EXCEPT !.hashed = TRUE]]
           d == [db EXCEPT !.sessions = sessions]
<1>5. db' = d
  BY <1>1 DEF SchemaInv, UsersFit, DatabaseColumns
<1>6. /\ d.versions = db.versions /\ d.users = db.users /\ d.sessions = sessions
      /\ d.peers = db.peers /\ d.thirds = db.thirds
  BY DEF SchemaInv, UsersFit, DatabaseColumns
<1>7. /\ DOMAIN sessions = DOMAIN db.sessions
      /\ \A i \in DOMAIN db.sessions :
           /\ SessionRow(sessions[i]) /\ SameToken(db.sessions[i], sessions[i])
           /\ sessions[i].client = db.sessions[i].client /\ sessions[i].log = db.sessions[i].log
           /\ sessions[i].auth = db.sessions[i].auth
           /\ i = s \/ db.sessions[i].hashed => sessions[i].hashed
  <2> DEFINE Hash(t) == [t EXCEPT !.hashed = TRUE]
  <2>1. \A t : SessionRow(t) => /\ SessionRow(Hash(t)) /\ SameToken(t, Hash(t)) /\ Hash(t).hashed
                                /\ Hash(t).auth = t.auth /\ Hash(t).client = t.client /\ Hash(t).log = t.log
    BY HashedToken
  <2>2. /\ DOMAIN sessions = DOMAIN db.sessions
        /\ \A i \in DOMAIN db.sessions :
             sessions[i] = IF i = s THEN Hash(db.sessions[i]) ELSE db.sessions[i]
    OBVIOUS
  <2> HIDE DEF sessions, Hash
  <2>3. \A t : SameToken(t, t)
    BY DEF SameToken
  <2> QED
    BY <2>1, <2>2, <2>3, TokenRows
<1> HIDE DEF sessions, d
<1>8. TokensSame(sessions)
  BY <1>7, TokensRewritten DEF SessionRow
<1>9. DataSame(d)
  BY <1>4, <1>6, <1>8 DEF DataSame
<1>10. TokensAfter(sessions, Past(proc[p]))
  BY <1>4, <1>7 DEF DataAfter, TokensAfter
<1>11. DataAfter(d, Past(w))
  <2>1. Past(w) = Past(proc[p])
    BY <1>2, <1>3, PastNow
  <2> QED
    BY <1>4, <1>6, <1>10, <2>1
    DEF DataAfter, PeersAfter, OnePeer, BindingsAfter, OneBinding, EmailsAfter
<1>12. TodoFits(w, d)
  BY <1>2, <1>3, <1>4, <1>6, <1>7 DEF TodoFits
<1> QED
  BY <1>2, <1>3, <1>5, <1>6, <1>9, <1>11, <1>12, DataMoved

LEMMA AllTokensHashed ==
  ASSUME SchemaInv, DataInv, NEW p \in Process, TokensHashed(p)
  PROVE  DataInv'
<1>1. /\ Migrate(p, "hash", db) /\ proc[p].todo = {}
      /\ proc[p].pc = "migrating" /\ Order[proc[p].step] = "hash"
  BY DEF TokensHashed, Migrate, At
<1>2. DataAfter(db, Past(proc[p])) /\ DataSame(db) /\ TodoFits(proc[p], db)
  BY <1>1, DoneBefore DEF DataInv, DataSame, DataFits
<1>3. \A i \in DOMAIN db.sessions : db.sessions[i].hashed
  BY <1>1, <1>2 DEF TodoFits
<1>4. DataAfter(db, Past(proc[p]) \cup {"hash"})
  BY <1>2, <1>3 DEF DataAfter, TokensAfter, PeersAfter, BindingsAfter, EmailsAfter
<1> QED
  BY <1>1, <1>2, <1>4, DataMigrate

-----------------------------------------------------------------------------
(* Devices: what binding one session does to the rows                        *)

RowOf(t) == [id |-> t.id, uuid |-> t.uuid, user |-> t.user, source |-> "login"]

Distinct(peers) == \A x, y \in DOMAIN peers : peers[x].id = peers[y].id => x = y

\* A row that is taken is nobody else's, and the device's own.
Taken(old, new, t) ==
  \E r \in DOMAIN old :
    /\ new = [old EXCEPT ![r] = RowOf(t)]
    /\ old[r].user \in {0, t.user}
    /\ \/ old[r].id = t.id /\ old[r].uuid \in {"", t.uuid}
       \/ old[r].uuid = t.uuid /\ \A x \in DOMAIN old : old[x].id # t.id

Added(old, new, t) ==
  new = Append(old, RowOf(t)) /\ \A x \in DOMAIN old : old[x].id # t.id /\ old[x].uuid # t.uuid

LEMMA BindOutcome ==
  ASSUME DOMAIN db = DatabaseColumns, NEW t
  PROVE  \/ BindMigratedNativePeer(db, t) = db
         \/ \E peers : /\ BindMigratedNativePeer(db, t) = [db EXCEPT !.peers = peers]
                       /\ Taken(db.peers, peers, t) \/ Added(db.peers, peers, t)
<1> DEFINE old == db.peers
           byId == {r \in DOMAIN old : old[r].id = t.id}
           byUuid == {r \in DOMAIN old : old[r].uuid = t.uuid}
           Bound(r) == [db EXCEPT !.peers[r] = RowOf(t)]
           Free(r) == old[r].user \in {0, t.user}
           d == BindMigratedNativePeer(db, t)
           one == CHOOSE x \in byId : TRUE
           other == CHOOSE x \in byUuid : TRUE
<1>1. d = IF Cardinality(byId) > 1 \/ Cardinality(byUuid) > 1 THEN db
          ELSE IF byId # {} THEN
                 IF old[one].uuid \in {"", t.uuid} /\ Free(one) /\ byUuid \subseteq byId
                 THEN Bound(one) ELSE db
          ELSE IF byUuid # {} THEN IF Free(other) THEN Bound(other) ELSE db
          ELSE [db EXCEPT !.peers = Append(@, RowOf(t))]
  BY DEF BindMigratedNativePeer, Rows, RowOf
<1>2. byId # {} => one \in byId
  OBVIOUS
<1>3. byUuid # {} => other \in byUuid
  OBVIOUS
<1>5. \A r : Bound(r) = [db EXCEPT !.peers = [old EXCEPT ![r] = RowOf(t)]]
  BY DEF DatabaseColumns
<1> HIDE DEF one, other, d, Bound
<1>6. CASE d = db
  BY <1>6 DEF d
<1>7. CASE byId # {} /\ d = Bound(one) /\ old[one].uuid \in {"", t.uuid} /\ Free(one)
  <2>1. Taken(old, [old EXCEPT ![one] = RowOf(t)], t)
    BY <1>2, <1>7 DEF Taken
  <2> QED
    BY <1>5, <1>7, <2>1 DEF d
<1>8. CASE byId = {} /\ byUuid # {} /\ d = Bound(other) /\ Free(other)
  <2>1. Taken(old, [old EXCEPT ![other] = RowOf(t)], t)
    BY <1>3, <1>8 DEF Taken
  <2> QED
    BY <1>5, <1>8, <2>1 DEF d
<1>9. CASE byId = {} /\ byUuid = {} /\ d = [db EXCEPT !.peers = Append(@, RowOf(t))]
  <2>1. Added(old, Append(old, RowOf(t)), t)
    BY <1>9 DEF Added
  <2>2. d = [db EXCEPT !.peers = Append(old, RowOf(t))]
    BY <1>9
  <2> QED
    BY <2>1, <2>2 DEF d
<1> QED
  BY <1>1, <1>6, <1>7, <1>8, <1>9

\* A device whose rows wait for it, none twice, gets its row.
LEMMA BindClaims ==
  ASSUME DOMAIN db = DatabaseColumns, NEW t, Distinct(db.peers),
         \A r \in DOMAIN db.peers : Awaits(db.peers[r], t)
  PROVE  \E peers : /\ BindMigratedNativePeer(db, t) = [db EXCEPT !.peers = peers]
                    /\ Taken(db.peers, peers, t) \/ Added(db.peers, peers, t)
<1> DEFINE old == db.peers
           byId == {r \in DOMAIN old : old[r].id = t.id}
           byUuid == {r \in DOMAIN old : old[r].uuid = t.uuid}
           Bound(r) == [db EXCEPT !.peers[r] = RowOf(t)]
           Free(r) == old[r].user \in {0, t.user}
           d == BindMigratedNativePeer(db, t)
           one == CHOOSE x \in byId : TRUE
           other == CHOOSE x \in byUuid : TRUE
<1>1. d = IF Cardinality(byId) > 1 \/ Cardinality(byUuid) > 1 THEN db
          ELSE IF byId # {} THEN
                 IF old[one].uuid \in {"", t.uuid} /\ Free(one) /\ byUuid \subseteq byId
                 THEN Bound(one) ELSE db
          ELSE IF byUuid # {} THEN IF Free(other) THEN Bound(other) ELSE db
          ELSE [db EXCEPT !.peers = Append(@, RowOf(t))]
  BY DEF BindMigratedNativePeer, Rows, RowOf
<1>2. byId # {} => one \in byId
  OBVIOUS
<1>3. byUuid \subseteq byId
  BY DEF Awaits
<1>4. byId = {} \/ \E r : byId = {r}
  BY DEF Distinct
<1>5. byUuid = {} \/ \E r : byUuid = {r}
  BY <1>3, <1>4
<1>6. \A r : Bound(r) = [db EXCEPT !.peers = [old EXCEPT ![r] = RowOf(t)]]
  BY DEF DatabaseColumns
<1> HIDE DEF one, other, d, Bound
<1>7. ~(Cardinality(byId) > 1) /\ ~(Cardinality(byUuid) > 1)
  <2>1. Cardinality(byId) \in {0, 1} /\ Cardinality(byUuid) \in {0, 1}
    <3> HIDE DEF byId, byUuid
    <3> QED
      BY <1>4, <1>5, FS_EmptySet, FS_Singleton
  <2> QED
    BY <2>1
<1>8. CASE byId # {}
  <2>1. old[one].uuid \in {"", t.uuid} /\ Free(one)
    BY <1>2, <1>8 DEF Awaits
  <2>2. d = Bound(one)
    BY <1>1, <1>3, <1>7, <1>8, <2>1
  <2>3. Taken(old, [old EXCEPT ![one] = RowOf(t)], t)
    BY <1>2, <1>8, <2>1 DEF Taken
  <2> QED
    BY <1>6, <2>2, <2>3 DEF d
<1>9. CASE byId = {}
  <2>1. byUuid = {}
    BY <1>3, <1>9
  <2>2. Added(old, Append(old, RowOf(t)), t)
    BY <1>9, <2>1 DEF Added
  <2>3. d = [db EXCEPT !.peers = Append(old, RowOf(t))]
    BY <1>1, <1>7, <1>9, <2>1
  <2> QED
    BY <2>2, <2>3 DEF d
<1> QED
  BY <1>8, <1>9

\* The rows after a binding.
LEMMA RowsAfter ==
  ASSUME NEW old, PeersFit(old), NEW new, NEW t, Taken(old, new, t) \/ Added(old, new, t)
  PROVE  /\ PeersFit(new) /\ DOMAIN old \subseteq DOMAIN new
         /\ \E r \in DOMAIN new : new[r] = RowOf(t)
         /\ \A x \in DOMAIN new : new[x] = RowOf(t) \/ (x \in DOMAIN old /\ new[x] = old[x])
<1>1. /\ old \in Seq(Range(old)) /\ DOMAIN old = 1..Len(old) /\ Len(old) \in Nat
      /\ \A r \in DOMAIN old : DOMAIN old[r] = DeviceColumns
  BY LenProperties DEF PeersFit
<1>2. DOMAIN RowOf(t) = DeviceColumns
  BY DEF RowOf, DeviceColumns
<1>3. CASE Taken(old, new, t)
  <2>1. PICK r \in DOMAIN old : new = [old EXCEPT ![r] = RowOf(t)]
    BY <1>3 DEF Taken
  <2>2. /\ DOMAIN new = DOMAIN old /\ new[r] = RowOf(t)
        /\ \A x \in DOMAIN new : new[x] = RowOf(t) \/ new[x] = old[x]
    BY <2>1
  <2>3. new = [i \in DOMAIN old |-> new[i]]
    <3>1. old = [i \in DOMAIN old |-> old[i]]
      BY <1>1, LenProperties
    <3> QED
      BY <2>1, <3>1
  <2>4. new \in Seq(Range(new))
    BY <1>1, <2>3, SameLength
  <2> QED
    BY <1>1, <1>2, <2>2, <2>4 DEF PeersFit
<1>4. CASE Added(old, new, t)
  <2> DEFINE S == Range(old) \cup {RowOf(t)}
             n == Len(old)
  <2>1. new = Append(old, RowOf(t)) /\ old \in Seq(S) /\ RowOf(t) \in S
    <3>1. old \in [1..n -> S]
      BY <1>1, LenProperties
    <3> QED
      BY <1>1, <1>4, <3>1, SeqDef DEF Added
  <2> HIDE DEF S
  <2>2. /\ new \in Seq(S) /\ Len(new) = n + 1 /\ new[n + 1] = RowOf(t)
        /\ \A i \in 1..n : new[i] = old[i]
    BY <2>1, AppendProperties
  <2>3. DOMAIN new = 1..(n + 1) /\ new = [i \in 1..(n + 1) |-> new[i]]
    BY <2>2, LenProperties
  <2>4. \A i \in 1..(n + 1) : i = n + 1 \/ i \in 1..n
    BY <1>1
  <2>5. n + 1 \in 1..(n + 1) /\ n + 1 \in Nat
    BY <1>1
  <2>6. \A i \in DOMAIN new : new[i] \in Range(new)
    BY DEF Range
  <2>7. new \in Seq(Range(new))
    <3>1. new \in [1..(n + 1) -> Range(new)]
      BY <2>3, <2>6
    <3> QED
      BY <2>5, <3>1, SeqDef
  <2>8. \A x \in DOMAIN new : new[x] = RowOf(t) \/ (x \in DOMAIN old /\ new[x] = old[x])
    BY <1>1, <2>2, <2>3, <2>4
  <2>9. DOMAIN old \subseteq DOMAIN new
    BY <1>1, <2>3
  <2>10. PeersFit(new)
    BY <1>1, <1>2, <2>7, <2>8 DEF PeersFit
  <2> QED
    BY <2>2, <2>3, <2>5, <2>8, <2>9, <2>10
<1> QED
  BY <1>3, <1>4

\* No id comes twice, what is claimed stays claimed, and the rows that wait
\* for another device still do.
LEMMA BindKeeps ==
  ASSUME NEW old, PeersFit(old), NEW new, NEW t, Taken(old, new, t) \/ Added(old, new, t)
  PROVE  /\ Distinct(old) => Distinct(new)
         /\ \A u : /\ u.uuid # "" /\ u.user # 0
                   /\ \E r \in DOMAIN old : Claims(old[r], u)
                   => \E r \in DOMAIN new : Claims(new[r], u)
         /\ \A u : /\ u.id # t.id /\ u.uuid # t.uuid
                   /\ \A r \in DOMAIN old : Awaits(old[r], u)
                   => \A r \in DOMAIN new : Awaits(new[r], u)
<1>1. RowOf(t).id = t.id /\ RowOf(t).uuid = t.uuid /\ RowOf(t).user = t.user
  BY DEF RowOf
<1>2. /\ DOMAIN old \subseteq DOMAIN new
      /\ \A x \in DOMAIN new : new[x] = RowOf(t) \/ (x \in DOMAIN old /\ new[x] = old[x])
  BY RowsAfter
<1>3. ASSUME NEW u, u.id # t.id, u.uuid # t.uuid, \A r \in DOMAIN old : Awaits(old[r], u),
             NEW r \in DOMAIN new
      PROVE  Awaits(new[r], u)
  <2>1. CASE new[r] = RowOf(t)
    BY <1>1, <1>3, <2>1 DEF Awaits
  <2>2. CASE r \in DOMAIN old /\ new[r] = old[r]
    BY <1>3, <2>2
  <2> QED
    BY <1>2, <2>1, <2>2
<1>4. CASE Taken(old, new, t)
  <2>1. PICK r \in DOMAIN old :
          /\ new = [old EXCEPT ![r] = RowOf(t)]
          /\ old[r].user \in {0, t.user}
          /\ \/ old[r].id = t.id /\ old[r].uuid \in {"", t.uuid}
             \/ old[r].uuid = t.uuid /\ \A x \in DOMAIN old : old[x].id # t.id
    BY <1>4 DEF Taken
  <2>2. DOMAIN new = DOMAIN old /\ new[r] = RowOf(t) /\ \A x \in DOMAIN old : x # r => new[x] = old[x]
    BY <2>1
  <2>3. ASSUME Distinct(old), NEW x \in DOMAIN new, NEW y \in DOMAIN new, new[x].id = new[y].id
        PROVE  x = y
    <3>1. CASE old[r].id = t.id
      <4>1. \A z \in DOMAIN old : new[z].id = old[z].id
        BY <1>1, <2>2, <3>1
      <4> QED
        BY <2>2, <2>3, <4>1 DEF Distinct
    <3>2. CASE \A z \in DOMAIN old : old[z].id # t.id
      <4>1. CASE x # r /\ y # r
        BY <2>2, <2>3, <4>1 DEF Distinct
      <4>2. CASE x = r \/ y = r
        <5>1. \A z \in DOMAIN new : z # r => new[z].id # t.id
          BY <2>2, <3>2
        <5> QED
          BY <1>1, <2>2, <2>3, <4>2, <5>1
      <4> QED
        BY <4>1, <4>2
    <3> QED
      BY <2>1, <3>1, <3>2
  <2>4. ASSUME NEW u, u.uuid # "", u.user # 0, NEW x \in DOMAIN old, Claims(old[x], u)
        PROVE  Claims(new[x], u)
    BY <1>1, <2>1, <2>2, <2>4 DEF Claims
  <2> QED
    BY <1>3, <2>2, <2>3, <2>4 DEF Distinct
<1>5. CASE Added(old, new, t)
  <2>1. \A x \in DOMAIN old : old[x].id # t.id
    BY <1>5 DEF Added
  <2>2. /\ old \in Seq(Range(old)) /\ DOMAIN old = 1..Len(old) /\ Len(old) \in Nat
    BY LenProperties DEF PeersFit
  <2>3. /\ DOMAIN new = 1..(Len(old) + 1)
        /\ \A x \in DOMAIN old : new[x] = old[x]
        /\ new[Len(old) + 1] = RowOf(t)
    <3> DEFINE S == Range(old) \cup {RowOf(t)}
    <3>1. new = Append(old, RowOf(t)) /\ old \in Seq(S) /\ RowOf(t) \in S
      <4>1. old \in [1..Len(old) -> S]
        BY <2>2, LenProperties
      <4> QED
        BY <1>5, <2>2, <4>1, SeqDef DEF Added
    <3> HIDE DEF S
    <3>2. /\ new \in Seq(S) /\ Len(new) = Len(old) + 1 /\ new[Len(old) + 1] = RowOf(t)
          /\ \A i \in 1..Len(old) : new[i] = old[i]
      BY <3>1, AppendProperties
    <3> QED
      BY <2>2, <3>2, LenProperties
  <2>4. \A x \in DOMAIN new : x = Len(old) + 1 \/ x \in DOMAIN old
    BY <2>2, <2>3
  <2>5. ASSUME Distinct(old), NEW x \in DOMAIN new, NEW y \in DOMAIN new, new[x].id = new[y].id
        PROVE  x = y
    <3>1. CASE x \in DOMAIN old /\ y \in DOMAIN old
      BY <2>3, <2>5, <3>1 DEF Distinct
    <3>2. CASE x = Len(old) + 1 /\ y \in DOMAIN old
      BY <1>1, <2>1, <2>3, <2>5, <3>2
    <3>3. CASE y = Len(old) + 1 /\ x \in DOMAIN old
      BY <1>1, <2>1, <2>3, <2>5, <3>3
    <3> QED
      BY <2>4, <3>1, <3>2, <3>3
  <2>6. \A u : \A r \in DOMAIN old : Claims(old[r], u) => r \in DOMAIN new /\ Claims(new[r], u)
    BY <1>2, <2>3
  <2> QED
    BY <1>3, <2>5, <2>6 DEF Distinct
<1> QED
  BY <1>4, <1>5

-----------------------------------------------------------------------------
(* Devices: the sessions that are read and what becomes of each              *)

\* The accounts of stored sessions are the stored accounts.
LEMMA AccountsOfSessions ==
  ASSUME SchemaInv, first.sessions # <<>>
  PROVE  DOMAIN db.users = DOMAIN first.users
<1>1. /\ first \in Stored /\ UsersFit(db) /\ UsersFit(first) /\ AccountsKept
      /\ InspectSchema(first) = "invalid" => db = first
  BY StoredSchemas DEF SchemaInv
<1>2. ~(first.versions = {} /\ db.versions # {})
  <2> SUFFICES ASSUME first.versions = {}, db.versions # {}
               PROVE  FALSE
    OBVIOUS
  <2>1. InspectSchema(first) \in {"invalid", "empty"}
    BY DEF InspectSchema
  <2> QED
    BY <1>1, <2>1, StoredSchemas
<1>3. Len(db.users) = Len(first.users)
  BY <1>1, <1>2 DEF AccountsKept
<1> QED
  BY <1>1, <1>3, LenProperties DEF UsersFit

LEMMA SignedInStays ==
  ASSUME SchemaInv, DataInv, NEW i \in DOMAIN first.sessions
  PROVE  SignedIn(db, i) <=> SignedIn(first, i)
<1>1. first.sessions # <<>>
  OBVIOUS
<1>2. DOMAIN db.users = DOMAIN first.users
  BY <1>1, AccountsOfSessions
<1>3. /\ SameToken(first.sessions[i], db.sessions[i])
      /\ \A u \in DOMAIN first.users : SameAccount(first.users[u], db.users[u])
  BY DEF DataInv, TokensSame, UsersSame
<1> QED
  BY <1>2, <1>3 DEF SignedIn, SameToken, SameAccount

\* With generations and clients filled in, they are the eligible ones.
LEMMA EligibleSignedIn ==
  ASSUME SchemaInv, DataInv, NEW i \in DOMAIN db.sessions,
         db.sessions[i].auth > 0, db.sessions[i].client = Old(db.sessions[i].client, db.sessions[i].log),
         \A u \in DOMAIN db.users : Generated(db.users[u])
  PROVE  Eligible(db, i) <=> SignedIn(first, i)
<1> DEFINE t == db.sessions[i]
<1>1. i \in DOMAIN first.sessions
  BY DEF DataInv, TokensSame
<1>2. SignedIn(db, i) <=> SignedIn(first, i)
  BY <1>1, SignedInStays
<1>3. \A u \in DOMAIN db.users : Versioned(db.users[u]).auth = db.users[u].auth
  BY DEF SchemaInv, UsersFit, AccountColumns, Generated, Versioned
<1>4. Versioned(t).auth = t.auth
  BY DEF DataInv, TokensSame, TokensFit, TokenColumns, Versioned
<1>5. Eligible(db, i) <=> SignedIn(db, i)
  BY <1>3, <1>4 DEF Eligible, SignedIn
<1> QED
  BY <1>2, <1>5

LEMMA SessionsRead ==
  ASSUME SchemaInv, DataInv, NEW p \in Process, ReadSessions(p)
  PROVE  DataInv'
<1> DEFINE todo == {i \in DOMAIN db.sessions : Eligible(db, i)}
<1>1. /\ proc[p].pc = "migrating" /\ Order[proc[p].step] = "sessions" /\ Advance(p, todo)
      /\ db' = db /\ first' = first
  BY DEF ReadSessions, At
<1>2. PICK w : /\ Moved(proc[p], w) /\ proc' = [proc EXCEPT ![p] = w]
               /\ w.todo = todo /\ (w.pc = "migrating" => w.step = proc[p].step + 1)
  BY <1>1, AdvanceMoves
<1>3. DataAfter(db, Past(proc[p])) /\ DataSame(db)
  BY <1>1, DoneBefore DEF DataInv, DataSame
<1>4. DataAfter(db, Past(proc[p]) \cup {"sessions"})
  BY <1>3 DEF DataAfter, TokensAfter, PeersAfter, BindingsAfter, EmailsAfter
<1>5. DataAfter(db, Past(w))
  BY <1>1, <1>2, <1>4, PastNext, LessDone
<1>6. proc[p].step = 14
  BY <1>1, <1>2, StepNames DEF Moved
<1>7. todo = {i \in DOMAIN first.sessions : SignedIn(first, i)}
  <2>1. "tokens" \in Past(proc[p]) /\ "inventory" \in Past(proc[p])
    BY <1>1, <1>6, InPast, StepNames
  <2>2. \A u \in DOMAIN db.users : Generated(db.users[u])
    <3>1. Passed(proc[p], "users")
      BY <1>1, <1>6, Numbers DEF Passed
    <3> QED
      BY <1>1, <3>1 DEF SchemaInv, MigrationFits, AccountsAfter
  <2>3. \A i \in DOMAIN db.sessions :
          db.sessions[i].auth > 0 /\ db.sessions[i].client = Old(db.sessions[i].client, db.sessions[i].log)
    BY <1>1, <1>3, <2>1, NotRecorded DEF DataAfter, TokensAfter
  <2>4. \A i \in DOMAIN db.sessions : Eligible(db, i) <=> SignedIn(first, i)
    BY <2>2, <2>3, EligibleSignedIn
  <2>5. DOMAIN db.sessions = DOMAIN first.sessions
    BY DEF DataInv, TokensSame
  <2> QED
    BY <2>4, <2>5
<1> HIDE DEF todo
<1>8. w.pc = "migrating" => TodoFits(w, db)
  <2> SUFFICES ASSUME w.pc = "migrating"
               PROVE  TodoFits(w, db)
    OBVIOUS
  <2>1. Order[w.step] = "bind"
    BY <1>2, <1>6, StepNames
  <2> QED
    BY <1>2, <1>7, <2>1 DEF TodoFits, Sole
<1> QED
  BY <1>1, <1>2, <1>3, <1>5, <1>8, DataMoved

LEMMA Positions ==
  ASSUME SchemaInv, NEW i \in DOMAIN first.sessions
  PROVE  i \in Int
<1>1. first.sessions \in Seq(Range(first.sessions))
  BY StoredSchemas DEF SchemaInv
<1> QED
  BY <1>1, LenProperties

LEMMA OnePeerDistinct ==
  ASSUME NEW d
  PROVE  OnePeer(d) <=> Distinct(d.peers)
BY DEF OnePeer, Repeated, Distinct

\* Two sessions whose devices wait for them have nothing in common, unless
\* the newer one's account takes it first.
LEMMA SoleApart ==
  ASSUME NEW i \in DOMAIN first.sessions, Sole(i),
         NEW j \in DOMAIN first.sessions, SignedIn(first, j), j > i
  PROVE  first.sessions[j].id # first.sessions[i].id /\ first.sessions[j].uuid # first.sessions[i].uuid
BY DEF Sole

LEMMA OneSessionBound ==
  ASSUME SchemaInv, DataInv, NEW p \in Process, BindSession(p)
  PROVE  DataInv'
<1>1. PICK s \in proc[p].todo : /\ \A x \in proc[p].todo : x <= s
                              /\ db' = BindMigratedNativePeer(db, db.sessions[s])
                              /\ proc' = [proc EXCEPT ![p].todo = @ \ {s}]
  BY DEF BindSession
<1>2. proc[p].pc = "migrating" /\ Order[proc[p].step] = "bind" /\ first' = first
  BY DEF BindSession, At
<1>3. PICK w : /\ Moved(proc[p], w) /\ proc' = [proc EXCEPT ![p] = w]
               /\ w.todo = proc[p].todo \ {s} /\ w.pc = "migrating" /\ w.step = proc[p].step
  BY <1>1, <1>2, TodoMoves
<1>4. DataAfter(db, Past(proc[p])) /\ DataSame(db) /\ TodoFits(proc[p], db)
  BY <1>2, DoneBefore DEF DataInv, DataSame, DataFits
<1> DEFINE t == db.sessions[s]
           u(i) == first.sessions[i]
           old == db.peers
<1>5. /\ s \in DOMAIN first.sessions /\ SignedIn(first, s)
      /\ DOMAIN db.sessions = DOMAIN first.sessions
      /\ t.id = u(s).id /\ t.uuid = u(s).uuid /\ t.user = u(s).user
  BY <1>2, <1>4 DEF TodoFits, DataInv, TokensSame, SameToken
<1>6. PeersFit(old) /\ Distinct(old)
  <2>1. "validate" \in Past(proc[p])
    <3>1. proc[p].step = 15
      BY <1>2, <1>3, StepNames DEF Moved
    <3> QED
      BY <1>2, <3>1, InPast, StepNames
  <2> QED
    BY <1>4, <2>1, OnePeerDistinct DEF DataAfter, PeersAfter, DataSame, PeersSame
<1>7. \A i \in DOMAIN first.sessions : Sole(i) =>
        /\ i \in proc[p].todo \/ Claimed(i, old)
        /\ Claimed(i, old) \/ Awaited(i, old)
        /\ u(i).uuid # "" /\ u(i).user # 0
  <2>1. 0 \notin DOMAIN first.users
    <3>1. UsersFit(first)
      BY StoredSchemas DEF SchemaInv
    <3> QED
      BY <3>1, LenProperties DEF UsersFit
  <2> QED
    BY <1>2, <1>4, <2>1 DEF TodoFits, DataSame, PeersSame, Sole, SignedIn
<1>8. PICK new : /\ (db' = db /\ new = old) \/ db' = [db EXCEPT !.peers = new]
                 /\ new = old \/ Taken(old, new, t) \/ Added(old, new, t)
                 /\ Sole(s) /\ ~Claimed(s, old) => Taken(old, new, t) \/ Added(old, new, t)
  <2>1. DOMAIN db = DatabaseColumns
    BY DEF SchemaInv, UsersFit
  <2>2. CASE Sole(s) /\ ~Claimed(s, old)
    <3>1. \A r \in DOMAIN old : Awaits(old[r], t)
      <4>1. \A r \in DOMAIN old : Awaits(old[r], u(s))
        BY <1>5, <1>7, <2>2 DEF Awaited, Range
      <4> QED
        BY <1>5, <4>1 DEF Awaits
    <3> QED
      BY <1>1, <1>6, <2>1, <3>1, BindClaims
  <2>3. CASE ~(Sole(s) /\ ~Claimed(s, old))
    <3>1. \/ db' = db
          \/ \E peers : /\ db' = [db EXCEPT !.peers = peers]
                        /\ Taken(old, peers, t) \/ Added(old, peers, t)
      BY <1>1, <2>1, BindOutcome
    <3> QED
      BY <2>3, <3>1
  <2> QED
    BY <2>2, <2>3
<1>9. /\ db'.versions = db.versions /\ db'.users = db.users /\ db'.sessions = db.sessions
      /\ db'.peers = new /\ db'.thirds = db.thirds
  BY <1>8 DEF SchemaInv, UsersFit, DatabaseColumns
<1>10. PeersFit(new) /\ Distinct(new)
  BY <1>6, <1>8, RowsAfter, BindKeeps
\* what is claimed stays claimed
<1>11. ASSUME NEW i \in DOMAIN first.sessions, Sole(i), Claimed(i, old)
       PROVE  Claimed(i, new)
  <2>1. CASE new = old
    BY <1>11, <2>1
  <2>2. CASE Taken(old, new, t) \/ Added(old, new, t)
    <3>1. \E r \in DOMAIN old : Claims(old[r], u(i))
      BY <1>11 DEF Claimed, Range
    <3>2. \E r \in DOMAIN new : Claims(new[r], u(i))
      BY <1>6, <1>7, <1>11, <2>2, <3>1, BindKeeps
    <3> QED
      BY <3>2 DEF Claimed, Range
  <2> QED
    BY <1>8, <2>1, <2>2
\* the session that is bound gets its device
<1>12. Sole(s) => Claimed(s, new)
  <2> SUFFICES ASSUME Sole(s), ~Claimed(s, old)
               PROVE  Claimed(s, new)
    BY <1>5, <1>11
  <2>1. \E r \in DOMAIN new : new[r] = RowOf(t)
    BY <1>6, <1>8, RowsAfter
  <2>2. Claims(RowOf(t), u(s))
    BY <1>5 DEF Claims, RowOf
  <2> QED
    BY <2>1, <2>2 DEF Claimed, Range
\* the others' devices wait on, or are claimed since their turn came first
<1>13. ASSUME NEW i \in DOMAIN first.sessions, Sole(i)
       PROVE  Claimed(i, new) \/ (Awaited(i, new) /\ i \in proc[p].todo \ {s})
  <2>1. CASE Claimed(i, old)
    BY <1>11, <1>13, <2>1
  <2>2. CASE i = s
    BY <1>12, <1>13, <2>2
  <2>3. CASE ~Claimed(i, old) /\ i # s
    <3>1. i \in proc[p].todo /\ Awaited(i, old)
      BY <1>7, <1>13, <2>3
    <3>2. s > i
      <4>1. i <= s /\ i # s
        BY <1>1, <2>3, <3>1
      <4>2. i \in Int /\ s \in Int
        BY <1>5, Positions
      <4> QED
        BY <4>1, <4>2
    <3>3. u(i).id # t.id /\ u(i).uuid # t.uuid
      BY <1>5, <1>13, <3>2, SoleApart
    <3>4. Awaited(i, new)
      <4>1. CASE new = old
        BY <3>1, <4>1
      <4>2. CASE Taken(old, new, t) \/ Added(old, new, t)
        <5>1. \A r \in DOMAIN old : Awaits(old[r], u(i))
          BY <3>1 DEF Awaited, Range
        <5>2. \A r \in DOMAIN new : Awaits(new[r], u(i))
          BY <1>6, <3>3, <4>2, <5>1, BindKeeps
        <5> QED
          BY <5>2 DEF Awaited, Range
      <4> QED
        BY <1>8, <4>1, <4>2
    <3> QED
      BY <2>3, <3>1, <3>4
  <2> QED
    BY <2>1, <2>2, <2>3
<1>14. DataSame(db')
  BY <1>4, <1>9, <1>10, <1>13 DEF DataSame, PeersSame
<1>15. DataAfter(db', Past(w))
  <2>1. Past(w) = Past(proc[p])
    BY <1>2, <1>3, PastNow
  <2>2. PeersAfter(db', Past(w))
    BY <1>4, <1>9, <1>10, <1>11, <2>1, OnePeerDistinct DEF DataAfter, PeersAfter
  <2> QED
    BY <1>4, <1>9, <2>1, <2>2 DEF DataAfter, BindingsAfter, OneBinding, EmailsAfter
<1>16. TodoFits(w, db')
  BY <1>2, <1>3, <1>4, <1>9, <1>13 DEF TodoFits
<1> QED
  BY <1>2, <1>3, <1>9, <1>14, <1>15, <1>16, DataMoved

LEMMA AllSessionsBound ==
  ASSUME SchemaInv, DataInv, NEW p \in Process, SessionsBound(p)
  PROVE  DataInv'
<1>1. /\ Migrate(p, "bind", db) /\ proc[p].todo = {}
      /\ proc[p].pc = "migrating" /\ Order[proc[p].step] = "bind"
  BY DEF SessionsBound, Migrate, At
<1>2. DataAfter(db, Past(proc[p])) /\ DataSame(db) /\ TodoFits(proc[p], db)
  BY <1>1, DoneBefore DEF DataInv, DataSame, DataFits
<1>3. \A i \in DOMAIN first.sessions : Sole(i) => Claimed(i, db.peers)
  BY <1>1, <1>2 DEF TodoFits
<1>4. DataAfter(db, Past(proc[p]) \cup {"bind"})
  BY <1>2, <1>3 DEF DataAfter, TokensAfter, PeersAfter, BindingsAfter, EmailsAfter
<1> QED
  BY <1>1, <1>2, <1>4, DataMigrate

-----------------------------------------------------------------------------
(* The version is recorded, a process stops or begins, a server is used      *)

LEMMA TargetLatest ==
  ASSUME SchemaInv, DataInv, NEW p \in Process, proc[p].pc = "migrating",
         NEW d, d.versions = db.versions \cup {Target}
  PROVE  d.versions # {} /\ Latest(d) = Target
<1>1. \A v \in db.versions : v \in Nat /\ v <= Target
  <2> SUFFICES ASSUME NEW v \in db.versions
               PROVE  v \in Nat /\ v <= Target
    OBVIOUS
  <2>1. /\ db.versions \subseteq Nat \ {0}
        /\ \E m \in db.versions : \A x \in db.versions : x <= m
    BY NotRecorded, StoredSchemas DEF SchemaInv
  <2>2. Latest(db) \in db.versions /\ \A x \in db.versions : x <= Latest(db)
    BY <2>1 DEF Latest
  <2>3. Latest(db) < Target
    BY DEF SchemaInv, MigrationFits
  <2> QED
    BY <2>1, <2>2, <2>3, TargetAssumption
<1>2. Target \in d.versions /\ \A v \in d.versions : v \in Nat /\ v <= Target
  BY <1>1, TargetAssumption
<1>3. \A v \in d.versions : (\A x \in d.versions : x <= v) => v = Target
  BY <1>2
<1> QED
  BY <1>2, <1>3 DEF Latest

LEMMA DataRecorded ==
  ASSUME SchemaInv, DataInv, NEW p \in Process, NEW d, Migrate(p, "record", d),
         d.versions = db.versions \cup {Target},
         d.sessions = db.sessions, d.peers = db.peers, d.thirds = db.thirds,
         UsersSame(d.users), d.users = db.users \/ ~Early(first)
  PROVE  DataInv'
<1>1. /\ db' = d /\ first' = first /\ proc[p].pc = "migrating" /\ Order[proc[p].step] = "record"
      /\ proc[p].step \in 1..22
  BY Numbers DEF Migrate, At, SchemaInv, MigrationFits
<1>2. PICK w : Moved(proc[p], w) /\ w.pc = "verifying" /\ proc' = [proc EXCEPT ![p] = w]
  BY LastMove
<1>3. DataSame(d)
  BY DEF DataInv, DataSame
<1>4. DataAfter(db, Past(proc[p]))
  BY <1>1, DoneBefore
<1>5. DataAfter(d, Past(proc[p]) \cup {"record"})
  <2>1. EmailsAfter(d, Past(proc[p]) \cup {"record"})
    BY <1>4 DEF DataAfter, EmailsAfter
  <2> QED
    BY <1>4, <2>1 DEF DataAfter, TokensAfter, PeersAfter, OnePeer, BindingsAfter, OneBinding
<1>6. Range(Order) \subseteq Past(proc[p]) \cup {"record"}
  <2> SUFFICES ASSUME NEW i \in 1..22
               PROVE  Order[i] \in Past(proc[p]) \cup {"record"}
    BY Numbers DEF Range
  <2>1. proc[p].step = 22
    BY <1>1, Numbers
  <2>2. i < 22 \/ i = 22
    OBVIOUS
  <2> QED
    BY <1>1, <2>1, <2>2, InPast, Numbers
<1>7. DataAfter(d, Range(Order)) /\ DataAfter(d, Past(w))
  <2>1. DataAfter(d, Range(Order))
    BY <1>5, <1>6, LessDone
  <2>2. Past(w) \subseteq Range(Order)
    BY DEF Past
  <2> QED
    BY <2>1, <2>2, LessDone
<1>8. /\ \A past : DataAfter(d, past) => DataAfter(db, past)'
      /\ UsersSame(db.users)' /\ TokensSame(db.sessions)' /\ PeersSame(db.peers)' /\ BindingsSame(db.thirds)'
  BY <1>1, <1>3, DataOf DEF DataSame
<1>9. DataAfter(db, Range(Order))' /\ DataAfter(db, Past(w))'
  BY <1>7, <1>8
<1>10. \A q \in Process : DataFits(proc[q])'
  <2> SUFFICES ASSUME NEW q \in Process PROVE DataFits(proc[q])'
    OBVIOUS
  <2>1. \A x \in Process : proc'[x] = IF x = p THEN w ELSE proc[x]
    BY <1>2 DEF SchemaInv
  <2>2. CASE q = p
    <3>1. proc'[q] = w
      BY <2>1, <2>2
    <3> QED
      BY <1>2, <1>9, <3>1 DEF DataFits
  <2>3. CASE q # p
    <3>1. proc[q].pc \notin {"migrating", "verifying"}
      BY <1>1, <2>3 DEF SchemaInv, LockHeld
    <3> QED
      BY <2>1, <2>3, <3>1 DEF DataFits
  <2> QED
    BY <2>2, <2>3
<1>11. db'.versions # {} /\ Latest(db)' = Target
  BY <1>1, TargetLatest DEF Latest
<1> QED
  BY <1>8, <1>9, <1>10, <1>11 DEF DataInv

LEMMA RecordedData ==
  ASSUME SchemaInv, DataInv, NEW p \in Process, RecordVersion(p) \/ BootstrapInitialDatabase(p)
  PROVE  DataInv'
<1>1. DOMAIN db = DatabaseColumns /\ UsersSame(db.users)
  BY DEF SchemaInv, UsersFit, DataInv
<1>2. CASE RecordVersion(p)
  <2> DEFINE d == Recorded(db)
  <2>1. Migrate(p, "record", d)
    BY <1>2 DEF RecordVersion
  <2>2. /\ d.versions = db.versions \cup {Target} /\ d.users = db.users
        /\ d.sessions = db.sessions /\ d.peers = db.peers /\ d.thirds = db.thirds
    BY <1>1 DEF Recorded, DatabaseColumns
  <2> HIDE DEF d
  <2> QED
    BY <1>1, <2>1, <2>2, DataRecorded
<1>3. CASE BootstrapInitialDatabase(p)
  <2> DEFINE e == [db EXCEPT !.users = IF \E u \in Range(db.users) : u.name = "admin"
                                       THEN @ ELSE Append(@, Builtin)]
             d == Recorded(e)
  <2>1. Migrate(p, "record", d) /\ proc[p].initial /\ proc[p].pc = "migrating"
    BY <1>3 DEF BootstrapInitialDatabase, Migrate, At
  <2>2. /\ d.versions = db.versions \cup {Target}
        /\ d.sessions = db.sessions /\ d.peers = db.peers /\ d.thirds = db.thirds
    BY <1>1 DEF Recorded, DatabaseColumns
  <2> HIDE DEF d
  <2>3. db.versions = {} /\ first.versions = {} /\ InspectSchema(first) # "invalid"
    BY <2>1, NotRecorded DEF SchemaInv, MigrationFits
  <2>4. first.users = <<>>
    BY <2>3, StoredSchemas DEF SchemaInv, InspectSchema
  <2>5. UsersSame(d.users) /\ ~Early(first)
    BY <2>3, <2>4 DEF UsersSame, Early
  <2> QED
    BY <2>1, <2>2, <2>5, DataRecorded
<1> QED
  BY <1>2, <1>3

\* A process does something while the database stays.
LEMMA DataKept ==
  ASSUME SchemaInv, DataInv, db' = db, first' = first, NEW p \in Process, NEW w,
         proc' = [proc EXCEPT ![p] = w], DataFits(w)
  PROVE  DataInv'
<1>1. \A q \in Process : proc'[q] = IF q = p THEN w ELSE proc[q]
  BY DEF SchemaInv
<1>2. \A q \in Process : DataFits(proc'[q])
  BY <1>1 DEF DataInv
<1>3. /\ UsersSame(db.users)' /\ TokensSame(db.sessions)' /\ PeersSame(db.peers)' /\ BindingsSame(db.thirds)'
      /\ \A past : DataAfter(db, past) => DataAfter(db, past)'
      /\ \A v : TodoFits(v, db) => TodoFits(v, db)'
  BY DataOf DEF DataInv
<1>4. \A q \in Process : DataFits(proc[q])'
  BY <1>2, <1>3 DEF DataFits, Latest
<1> QED
  BY <1>3, <1>4 DEF DataInv

LEMMA DataHalting ==
  ASSUME SchemaInv, DataInv, NEW p \in Process,
         \/ Start(p) \/ Restart(p) \/ LockTimesOut(p) \/ Refused(p) \/ NotRequired(p)
         \/ Verify(p) \/ UnlockFails(p) \/ Fails(p) \/ Killed(p) \/ RejectDuplicates(p)
         \/ Acquire(p)
  PROVE  DataInv'
<1>1. db' = db /\ first' = first
  BY DEF Start, Restart, LockTimesOut, Refused, NotRequired, Verify, UnlockFails, Fails, Killed,
         RejectDuplicates, Acquire
<1>2. \E w : proc' = [proc EXCEPT ![p] = w] /\ w.pc \notin {"migrating", "verifying"}
  <2>1. CASE Acquire(p)
    <3> DEFINE w == [proc[p] EXCEPT !.pc = "inspecting"]
    <3>1. proc' = [proc EXCEPT ![p] = w] /\ w.pc = "inspecting"
      BY <2>1 DEF Acquire, SchemaInv
    <3> HIDE DEF w
    <3> QED
      BY <3>1
  <2>2. CASE ~Acquire(p)
    <3>1. PICK pc \in {"waiting", "failed", "killed", "finished", "serving"} :
            proc' = [proc EXCEPT ![p] = Stopped(pc)]
      BY <2>2 DEF Start, Restart, LockTimesOut, Refused, NotRequired, Verify, UnlockFails, Fails,
                  Killed, RejectDuplicates, End, Ready
    <3>2. Stopped(pc).pc = pc
      BY DEF Stopped
    <3> QED
      BY <3>1, <3>2
  <2> QED
    BY <2>1, <2>2
<1>3. \A w : w.pc \notin {"migrating", "verifying"} => DataFits(w)
  BY DEF DataFits
<1> QED
  BY <1>1, <1>2, <1>3, DataKept

LEMMA DataBegun ==
  ASSUME SchemaInv, DataInv, NEW p \in Process, BeginMigration(p)
  PROVE  DataInv'
<1> DEFINE initial == db.versions = {}
           w == [pc |-> "migrating", step |-> 1, initial |-> initial, todo |-> {},
                 legacy |-> IF initial THEN 0 ELSE Latest(db)]
<1>1. /\ w.pc = "migrating" /\ w.step = 1 /\ w.legacy = (IF w.initial THEN 0 ELSE Latest(db))
      /\ proc' = [proc EXCEPT ![p] = w] /\ db' = db /\ first' = first
  BY DEF BeginMigration
<1> HIDE DEF w
<1>2. Past(w) = {}
  BY <1>1, Numbers DEF Past, Passed
<1>3. DataAfter(db, {})
  BY DEF DataAfter, TokensAfter, PeersAfter, BindingsAfter, EmailsAfter
<1>4. TodoFits(w, db)
  BY <1>1, StepNames DEF TodoFits
<1>5. DataFits(w)
  BY <1>1, <1>2, <1>3, <1>4 DEF DataFits
<1> QED
  BY <1>1, <1>5, DataKept

LEMMA DataRenamed ==
  ASSUME SchemaInv, DataInv, NEW s \in Server, RenameAdmin(s)
  PROVE  DataInv'
<1>1. PICK k \in DOMAIN db.users : db' = [db EXCEPT !.users[k].name = "renamed"]
  BY DEF RenameAdmin
<1>2. proc' = proc /\ first' = first /\ Served
  BY DEF RenameAdmin, Served, Process
<1>3. /\ InspectSchema(db) = "current"
      /\ \A p \in Process : proc[p].pc \notin {"migrating", "verifying"}
  BY <1>2 DEF SchemaInv, ServedIsCurrent
<1> DEFINE Cell(u) == [u EXCEPT !.name = "renamed"]
           users == [db.users EXCEPT ![k] = Cell(db.users[k])]
           d == [db EXCEPT !.users = users]
<1>4. /\ db' = d /\ d.users = users /\ d.versions = db.versions /\ d.sessions = db.sessions
      /\ d.peers = db.peers /\ d.thirds = db.thirds
  BY <1>1 DEF SchemaInv, UsersFit, DatabaseColumns
<1>5. \A i \in DOMAIN db.users : Row(db.users[i])
  BY DEF SchemaInv, UsersFit, Row
<1>6. /\ DOMAIN users = DOMAIN db.users
      /\ \A i \in DOMAIN db.users : users[i] = IF i = k THEN Cell(db.users[i]) ELSE db.users[i]
  OBVIOUS
<1>7. \A u : Row(u) => SameAccount(u, Cell(u)) /\ Cell(u).email = u.email /\ SameAccount(u, u)
  BY RowSame
<1> HIDE DEF Cell, users, d
<1>8. AccountsSame(users)
  BY <1>5, <1>6, <1>7 DEF AccountsSame
<1>9. DataSame(d)
  BY <1>4, <1>8, RowsSame DEF AccountsSame
<1>10. DataAfter(d, Range(Order))
  <2>1. DataAfter(db, Range(Order))
    BY <1>3 DEF DataInv
  <2>2. DataAfter(d, Range(Order) \cup {"rename"})
    BY <1>4, <1>8, <2>1, UnwatchedStay DEF Watched
  <2> QED
    BY <2>2, LessDone
<1>11. /\ UsersSame(db.users)' /\ TokensSame(db.sessions)' /\ PeersSame(db.peers)' /\ BindingsSame(db.thirds)'
       /\ DataAfter(db, Range(Order))'
  BY <1>2, <1>4, <1>9, <1>10, DataOf DEF DataSame
<1>12. \A p \in Process : DataFits(proc[p])'
  BY <1>2, <1>3 DEF DataFits
<1>13. db'.versions = first'.versions \/ (db'.versions # {} /\ Latest(db)' = Target)
  BY <1>2, <1>4 DEF DataInv, Latest
<1> QED
  BY <1>11, <1>12, <1>13 DEF DataInv

LEMMA DataStep ==
  ASSUME SchemaInv, DataInv, SchemaNext
  PROVE  DataInv'
<1>1. CASE \E s \in Server : RenameAdmin(s)
  BY <1>1, DataRenamed
<1>2. ASSUME NEW p \in Process,
             Start(p) \/ Restart(p) \/ Work(p) \/ UnlockFails(p) \/ Fails(p) \/ Killed(p)
      PROVE  DataInv'
  <2>1. CASE Step(p)
    BY <2>1, UnwatchedSteps, IdentitiesPrepared, IdentitiesValidated, EmailsTaken, SettingsMoved,
       TokensFilled, InventoryFilled, SessionsRead, OneSessionBound, AllSessionsBound, TokensRead,
       OneTokenHashed, AllTokensHashed, RecordedData, DataHalting DEF Step
  <2> QED
    BY <1>2, <2>1, DataHalting, DataBegun DEF Work
<1> QED
  BY <1>1, <1>2 DEF SchemaNext

LEMMA DataStart ==
  ASSUME SchemaInit
  PROVE  DataInv
<1>1. db \in Stored /\ first = db /\ \A p \in Process : proc[p].pc = "off"
  BY DEF SchemaInit, Stopped
<1>2. \A p \in Process : DataFits(proc[p])
  BY <1>1 DEF DataFits
<1>3. UsersSame(db.users) /\ TokensSame(db.sessions)
  BY <1>1, StoredSchemas DEF UsersSame, SameAccount, TokensSame, SameToken
<1>4. PeersSame(db.peers)
  <2>1. \A i \in DOMAIN first.sessions : Sole(i) => Awaited(i, db.peers)
    BY <1>1 DEF Sole, Awaited
  <2> QED
    BY <1>1, <2>1, StoredSchemas DEF PeersSame
<1>5. BindingsSame(db.thirds)
  BY <1>1, StoredSchemas DEF BindingsSame
<1>6. InspectSchema(db) = "current" => DataAfter(db, Range(Order))
  <2> SUFFICES ASSUME InspectSchema(db) = "current"
               PROVE  DataAfter(db, Range(Order))
    OBVIOUS
  <2>1. /\ \A i \in DOMAIN db.sessions : db.sessions[i].auth > 0 /\ db.sessions[i].hashed
        /\ \A i \in DOMAIN db.thirds : ~Linuxdo(db.thirds[i])
        /\ OneBinding(db) /\ OnePeer(db)
    BY <1>1, StoredSchemas
  <2>2. Latest(db) = Target
    BY DEF InspectSchema
  <2>3. ~Early(first)
    BY <1>1, <2>2, TargetAssumption DEF Early
  <2> QED
    BY <1>1, <2>1, <2>3 DEF DataAfter, TokensAfter, PeersAfter, BindingsAfter, EmailsAfter
<1> QED
  BY <1>1, <1>2, <1>3, <1>4, <1>5, <1>6 DEF DataInv

\* Whatever attempts have failed before: bindings, sessions and devices tell
\* what they told at first, a device waits for the newest session on it or
\* belongs to its account, and a step that is done stays done.
THEOREM DataInvariant == SchemaSpec => []DataInv
<1>1. SchemaInv /\ DataInv /\ UNCHANGED schemaVars => DataInv'
  <2> SUFFICES ASSUME SchemaInv, DataInv, UNCHANGED schemaVars
               PROVE  DataInv'
    OBVIOUS
  <2>1. db' = db /\ first' = first /\ proc' = proc
    BY DEF schemaVars
  <2>2. /\ UsersSame(db.users)' /\ TokensSame(db.sessions)' /\ PeersSame(db.peers)' /\ BindingsSame(db.thirds)'
        /\ \A past : DataAfter(db, past) => DataAfter(db, past)'
        /\ \A v : TodoFits(v, db) => TodoFits(v, db)'
    BY <2>1, DataOf DEF DataInv
  <2>3. \A q \in Process : DataFits(proc[q])'
    BY <2>1, <2>2 DEF DataInv, DataFits, Latest
  <2> QED
    BY <2>1, <2>2, <2>3 DEF DataInv, Latest
<1>2. SchemaInv /\ DataInv /\ [SchemaNext]_schemaVars => DataInv'
  BY <1>1, DataStep
<1> QED
  BY <1>2, DataStart, SchemaInvariant, PTL DEF SchemaSpec

LEMMA ServedData ==
  ASSUME SchemaInv, DataInv, Serving
  PROVE  /\ InspectSchema(db) = "current"
         /\ AccountsMigrated /\ IdentitiesMigrated /\ SessionsMigrated /\ DevicesMigrated
<1>1. InspectSchema(db) = "current" /\ AccountsMigrated
  BY DEF SchemaInv, ServedIsCurrent, Serving, Served, Process
<1>2. DataAfter(db, Range(Order))
  BY <1>1 DEF DataInv
<1>3. {"identities", "validate", "emails", "settings", "tokens", "inventory", "bind", "hash"} \subseteq Range(Order)
  BY Numbers, StepNames DEF Range
<1>4. IdentitiesMigrated
  <2>1. OneBinding(db) /\ OnePeer(db)
    BY <1>2, <1>3 DEF DataAfter, BindingsAfter, PeersAfter
  <2>2. \A i \in DOMAIN db.thirds : ~Linuxdo(db.thirds[i]) /\ db.thirds[i].op # ""
    BY <1>2, <1>3 DEF DataAfter, BindingsAfter, DataInv, BindingsSame, EarlyBinding
  <2>3. \A i \in DOMAIN db.thirds :
          db.thirds[i].type = "google" /\ Early(first) /\ db.thirds[i].user \in DOMAIN db.users
            => db.users[db.thirds[i].user].email = db.thirds[i].subject
    BY <1>2, <1>3 DEF DataAfter, EmailsAfter
  <2> QED
    BY <2>1, <2>2, <2>3 DEF IdentitiesMigrated, Range
<1>5. SessionsMigrated
  BY <1>2, <1>3 DEF DataAfter, TokensAfter, SessionsMigrated
<1>6. DevicesMigrated
  <2> SUFFICES ASSUME NEW i \in DOMAIN db.sessions, Eligible(db, i), Unclaimed(i),
                      InspectSchema(first) # "current"
               PROVE  \E r \in Range(db.peers) :
                        r.uuid = db.sessions[i].uuid /\ r.user = db.sessions[i].user
    BY DEF DevicesMigrated
  <2>1. \A j \in DOMAIN db.sessions : Eligible(db, j) <=> SignedIn(first, j)
    <3>1. \A j \in DOMAIN db.sessions :
            db.sessions[j].auth > 0 /\ db.sessions[j].client = Old(db.sessions[j].client, db.sessions[j].log)
      BY <1>2, <1>3 DEF DataAfter, TokensAfter
    <3>2. \A u \in DOMAIN db.users : Generated(db.users[u])
      BY <1>1 DEF AccountsMigrated, Generated
    <3> QED
      BY <3>1, <3>2, EligibleSignedIn
  <2>2. /\ DOMAIN db.sessions = DOMAIN first.sessions
        /\ \A j \in DOMAIN db.sessions :
             /\ db.sessions[j].id = first.sessions[j].id /\ db.sessions[j].uuid = first.sessions[j].uuid
             /\ db.sessions[j].user = first.sessions[j].user
    BY DEF DataInv, TokensSame, SameToken
  <2>3. Sole(i)
    BY <2>1, <2>2 DEF Unclaimed, Sole, Awaits
  <2>4. Claimed(i, db.peers)
    BY <1>2, <1>3, <2>2, <2>3 DEF DataAfter, PeersAfter
  <2> QED
    BY <2>2, <2>4 DEF Claimed, Claims
<1> QED
  BY <1>1, <1>4, <1>5, <1>6

\* A server that serves has the current schema, in which every account has a
\* generation, the role its first row was due and the flag that says so and none
\* is lost, nothing is bound twice, Google's emails are their accounts', every
\* token is hashed, and every device of a signed-in client that nobody else
\* claims belongs to its newest session's account: migrateUsingGlobals, whatever
\* attempts failed before and wherever they stopped.
THEOREM DatabaseServed == SchemaSpec => []ServesMigrated
<1>1. SchemaInv /\ DataInv => ServesMigrated
  BY ServedData DEF ServesMigrated
<1> QED
  BY <1>1, SchemaInvariant, DataInvariant, PTL
=============================================================================
