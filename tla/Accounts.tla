------------------------------ MODULE Accounts ------------------------------
(* User accounts, roles and access tokens of the API server, as kept in the *)
(* users, user_tokens and security_invariant_locks tables by                *)
(* service/user.go, service/maintenance.go and service/ldap.go.             *)
(*                                                                          *)
(* A handler is a process that works on private copies of rows between its  *)
(* statements: a login holds a copy of the user it authenticated, a request *)
(* reads the token row and then the user row, an administrative update reads*)
(* the current row and the number of administrators before it writes.  Each *)
(* statement or committed group of statements that holds the row locks it   *)
(* needs is one step; other processes may step in between.                  *)
EXTENDS Naturals, FiniteSets

CONSTANTS
  User, Token, Proc,          \* ids of user rows, token rows and handlers
  NoUser, NoToken, NoProc,
  Form,                       \* role fields an update form may carry
  MaxVersion,                 \* bound: auth_version stays at or below it
  LdapUser                    \* users of the directory, when ldap.user.sync is on

VARIABLES
  user,                       \* the users table
  token,                      \* the user_tokens table
  op,                         \* what each handler is doing, and its copies
  invariantLock               \* holder of the "enabled-admin" row lock

vars == <<user, token, op, invariantLock>>

Role == {"user", "admin", "super"}
RoleForm == [role : Role \cup {"none"}, isAdmin : {"unset", "yes", "no"}]

ASSUME AccountsAssumption ==
  /\ IsFiniteSet(User)
  /\ NoUser \notin User /\ NoToken \notin Token /\ NoProc \notin Proc
  /\ MaxVersion \in Nat \ {0}
  /\ LdapUser \subseteq User
  /\ Form \subseteq RoleForm

-----------------------------------------------------------------------------
(* Rows.  Ids are not reused, so a deleted user never returns.              *)
UserRow == [state : {"absent", "present", "deleted"}, enabled : BOOLEAN,
            role : Role, version : 1..MaxVersion]
TokenRow == [state : {"free", "live", "revoked"},
             user : User \cup {NoUser}, version : 0..MaxVersion]

(* A handler's copies.  version is 0 in a form that carries no auth_version;*)
(* seenRole and seenEnabled are the row the transaction read; wasEnabled is *)
(* the status an LDAP login falls back to when its sync fails.              *)
OpKind == {"none", "login", "request", "update", "sync", "delete"}
OpPC == {"idle", "issue", "checked", "accepted", "wait", "read", "counted"}
Op == [kind : OpKind, pc : OpPC,
       user : User \cup {NoUser}, token : Token \cup {NoToken},
       version : 0..MaxVersion, form : RoleForm, enabled : BOOLEAN,
       wasEnabled : BOOLEAN, seenRole : Role, seenEnabled : BOOLEAN]

Idle == [kind |-> "none", pc |-> "idle", user |-> NoUser, token |-> NoToken,
         version |-> 0, form |-> [role |-> "none", isAdmin |-> "unset"],
         enabled |-> FALSE, wasEnabled |-> FALSE,
         seenRole |-> "user", seenEnabled |-> FALSE]

\* A row that is not there has no fields.
NoRow(state) == [state |-> state, enabled |-> FALSE, role |-> "user", version |-> 1]
DeletedRow == NoRow("deleted")

Present(u) == user[u].state = "present"

\* role = super_admin AND status = enabled, as getAdminUserCountTx counts them.
EnabledSupers == {u \in User : /\ Present(u)
                               /\ user[u].enabled
                               /\ user[u].role = "super"}

\* Any table with at least one enabled super administrator and no session yet.
Init ==
  /\ user \in [User -> {r \in UserRow : r.version = 1 /\ r.state # "deleted"}]
  /\ \A u \in User : user[u].state = "absent" => user[u] = NoRow("absent")
  /\ EnabledSupers # {}
  /\ token = [k \in Token |->
                [state |-> "free", user |-> NoUser, version |-> 0]]
  /\ op = [p \in Proc |-> Idle]
  /\ invariantLock = NoProc

-----------------------------------------------------------------------------
(* Revocation                                                               *)

LiveTokens(u) == {k \in Token : token[k].state = "live" /\ token[k].user = u}

Revoke(ks) ==
  token' = [k \in Token |-> IF k \in ks
                            THEN [token[k] EXCEPT !.state = "revoked"]
                            ELSE token[k]]

\* The version bumpAuthVersionAndRevokeCount writes.
NextVersion(v) == v + 1

\* Global logout, password change, two-factor change and local two-factor reset:
\* one transaction increments the version and revokes the user's tokens.
BumpAuthVersionAndRevoke(u) ==
  /\ Present(u)
  /\ user[u].version < MaxVersion
  /\ user' = [user EXCEPT ![u].version = NextVersion(@)]
  /\ Revoke(LiveTokens(u))
  /\ UNCHANGED <<op, invariantLock>>

\* The local recovery command: it locks the user row, not the invariant row.
RecoverAdministrator(u) ==
  /\ Present(u)
  /\ user[u].version < MaxVersion
  /\ user' = [user EXCEPT ![u].enabled = TRUE, ![u].role = "super",
                          ![u].version = NextVersion(@)]
  /\ Revoke(LiveTokens(u))
  /\ UNCHANGED <<op, invariantLock>>

\* Logout, revocation of listed sessions, and removal of a device's sessions.  A
\* passing expired_at has the same effect on every later reader.
RevokeTokens(ks) ==
  /\ ks # {}
  /\ \A k \in ks : token[k].state = "live"
  /\ Revoke(ks)
  /\ UNCHANGED <<user, op, invariantLock>>

\* Registration, creation by an administrator, first OAuth or LDAP login.
CreateUser(u, role, enabled) ==
  /\ user[u].state = "absent"
  /\ user' = [user EXCEPT ![u] = [state |-> "present", enabled |-> enabled,
                                  role |-> role, version |-> 1]]
  /\ UNCHANGED <<token, op, invariantLock>>

-----------------------------------------------------------------------------
(* Login: copy the user, then issue and store a token with the copy's       *)
(* version.                                                                 *)

LoginOp(u, version) ==
  [Idle EXCEPT !.kind = "login", !.pc = "issue", !.user = u,
               !.version = version]

\* Password or second factor, with the CheckUserEnable of the controllers.
PasswordLogin(p, u) ==
  /\ op[p].pc = "idle"
  /\ Present(u)
  /\ user[u].enabled
  /\ op' = [op EXCEPT ![p] = LoginOp(u, user[u].version)]
  /\ UNCHANGED <<user, token, invariantLock>>

\* A completed OAuth state: OidcAuthQueryPre does not look at the status.
OauthLogin(p, u) ==
  /\ op[p].pc = "idle"
  /\ Present(u)
  /\ op' = [op EXCEPT ![p] = LoginOp(u, user[u].version)]
  /\ UNCHANGED <<user, token, invariantLock>>

\* With sync on, an LDAP login copies the whole user, merges the directory's
\* role and status and hands the copy to UpdateContext before it logs in.
LdapLogin(p, u, isAdmin, enabled) ==
  /\ u \in LdapUser
  /\ op[p].pc = "idle"
  /\ Present(u)
  /\ op' = [op EXCEPT ![p] =
              [Idle EXCEPT !.kind = "sync", !.pc = "wait", !.user = u,
                           !.version = user[u].version,
                           !.form = [role |-> IF isAdmin THEN "super" ELSE "user",
                                     isAdmin |-> IF isAdmin THEN "yes" ELSE "no"],
                           !.enabled = enabled,
                           !.wasEnabled = user[u].enabled]]
  /\ UNCHANGED <<user, token, invariantLock>>

\* Mutant: the stored row takes the user's version at the time of the insert.
IssuedVersionNow(p) == IF Present(op[p].user) THEN user[op[p].user].version
                                              ELSE op[p].version

\* The version signed into the token and stored: that of the login's copy.
IssuedVersion(p) == op[p].version

PersistIssuedToken(p, k) ==
  /\ op[p].pc = "issue"
  /\ token[k].state = "free"
  /\ token' = [token EXCEPT ![k] = [state |-> "live", user |-> op[p].user,
                                    version |-> IssuedVersion(p)]]
  /\ op' = [op EXCEPT ![p] = Idle]
  /\ UNCHANGED <<user, invariantLock>>

-----------------------------------------------------------------------------
(* Authentication of a request: the token row, then the user row.           *)

ReadToken(p, k) ==
  /\ op[p].pc = "idle"
  /\ token[k].state = "live"
  /\ op' = [op EXCEPT ![p] = [Idle EXCEPT !.kind = "request", !.pc = "checked",
                                          !.token = k, !.user = token[k].user,
                                          !.version = token[k].version]]
  /\ UNCHANGED <<user, token, invariantLock>>

Authenticates(p) ==
  /\ Present(op[p].user)
  /\ user[op[p].user].enabled
  /\ op[p].version = user[op[p].user].version

ReadUser(p) ==
  /\ op[p].pc = "checked"
  /\ op' = [op EXCEPT ![p] = IF Authenticates(p)
                             THEN [op[p] EXCEPT !.pc = "accepted"] ELSE Idle]
  /\ UNCHANGED <<user, token, invariantLock>>

Respond(p) ==
  /\ op[p].pc = "accepted"
  /\ op' = [op EXCEPT ![p] = Idle]
  /\ UNCHANGED <<user, token, invariantLock>>

-----------------------------------------------------------------------------
(* Administrative updates and deletion                                      *)

RequestUpdate(p, u, form, enabled) ==
  /\ op[p].pc = "idle"
  /\ Present(u)
  /\ op' = [op EXCEPT ![p] = [Idle EXCEPT !.kind = "update", !.pc = "wait",
                                          !.user = u, !.form = form,
                                          !.enabled = enabled]]
  /\ UNCHANGED <<user, token, invariantLock>>

RequestDelete(p, u) ==
  /\ op[p].pc = "idle"
  /\ Present(u)
  /\ op' = [op EXCEPT ![p] = [Idle EXCEPT !.kind = "delete", !.pc = "wait",
                                          !.user = u]]
  /\ UNCHANGED <<user, token, invariantLock>>

\* Mutant: the invariant row is not waited for.
LockFreeAlways == TRUE

LockFree == invariantLock = NoProc

\* acquireEnabledAdminInvariant, then the transaction's read of the user.
AcquireAndRead(p) ==
  /\ op[p].pc = "wait"
  /\ LockFree
  /\ Present(op[p].user)
  /\ invariantLock' = p
  /\ op' = [op EXCEPT ![p].pc = "read",
                      ![p].seenRole = user[op[p].user].role,
                      ![p].seenEnabled = user[op[p].user].enabled]
  /\ UNCHANGED <<user, token>>

\* Mutant: the form's role is taken without asking whether it is a role.
RequestedRoleUnchecked(p) ==
  LET f == op[p].form
  IN CASE f.isAdmin = "yes" /\ f.role = "user"             -> "super"
       [] f.isAdmin = "no" /\ f.role \in {"admin", "super"} -> "user"
       [] OTHER                                            -> f.role

\* The role an update asks for, with the is_admin flag of version 2 clients.
RequestedRole(p) ==
  LET f == op[p].form
      r == IF f.role = "none" THEN op[p].seenRole ELSE f.role
  IN CASE f.isAdmin = "yes" /\ r = "user" -> "super"
       [] f.isAdmin = "no" /\ r # "user"  -> "user"
       [] OTHER                           -> r

\* Mutant: a demotion is forgotten.
RemovesEnabledSuperOnDisable(p) ==
  /\ op[p].seenRole = "super" /\ op[p].seenEnabled
  /\ op[p].kind = "delete" \/ ~op[p].enabled

\* The change takes the user out of the enabled super administrators.
RemovesEnabledSuper(p) ==
  /\ op[p].seenRole = "super" /\ op[p].seenEnabled
  /\ \/ op[p].kind = "delete"
     \/ RequestedRole(p) # "super"
     \/ ~op[p].enabled

\* Passing the last-super-administrator check; failing it is Abort or SyncFails.
CountAdmins(p) ==
  /\ op[p].pc = "read"
  /\ RemovesEnabledSuper(p) => Cardinality(EnabledSupers) > 1
  /\ op' = [op EXCEPT ![p].pc = "counted"]
  /\ UNCHANGED <<user, token, invariantLock>>

\* willDisable || roleChanged
RevokesSessions(p) ==
  \/ RequestedRole(p) # op[p].seenRole
  \/ op[p].seenEnabled /\ ~op[p].enabled

\* Mutant: the update restores the version its transaction started from.
WrittenVersionReset(p) == 1

\* Updates(u) writes the non-zero fields of the struct it is given: a form has
\* no auth_version, an LDAP login's copy has one.
WrittenVersion(p) == IF op[p].version = 0 THEN user[op[p].user].version
                                          ELSE op[p].version

AfterUpdate(p) ==
  IF op[p].kind = "sync" /\ op[p].enabled
  THEN LoginOp(op[p].user, op[p].version) ELSE Idle

CommitUpdate(p) ==
  LET u == op[p].user
      v == WrittenVersion(p)
  IN /\ op[p].pc = "counted"
     /\ op[p].kind \in {"update", "sync"}
     /\ RevokesSessions(p) => v < MaxVersion
     /\ user' = [user EXCEPT ![u].role = RequestedRole(p),
                             ![u].enabled = op[p].enabled,
                             ![u].version = IF RevokesSessions(p)
                                            THEN NextVersion(v) ELSE v]
     /\ Revoke(IF RevokesSessions(p) THEN LiveTokens(u) ELSE {})
     /\ op' = [op EXCEPT ![p] = AfterUpdate(p)]
     /\ invariantLock' = NoProc

CommitDelete(p) ==
  /\ op[p].pc = "counted"
  /\ op[p].kind = "delete"
  /\ user' = [user EXCEPT ![op[p].user] = DeletedRow]
  /\ Revoke(LiveTokens(op[p].user))
  /\ op' = [op EXCEPT ![p] = Idle]
  /\ invariantLock' = NoProc

ReleaseIfHeld(p) ==
  invariantLock' = IF invariantLock = p THEN NoProc ELSE invariantLock

\* A failed sync leaves the local row; the login goes on with the old status.
SyncFails(p) ==
  /\ op[p].kind = "sync"
  /\ op[p].pc \in {"wait", "read", "counted"}
  /\ op' = [op EXCEPT ![p] = IF op[p].wasEnabled
                             THEN LoginOp(op[p].user, op[p].version) ELSE Idle]
  /\ ReleaseIfHeld(p)
  /\ UNCHANGED <<user, token>>

\* A rejected check, an error, or the death of the server process: the open
\* transaction rolls back and with it the hold on the invariant row.
Abort(p) ==
  /\ op[p].pc # "idle"
  /\ op' = [op EXCEPT ![p] = Idle]
  /\ ReleaseIfHeld(p)
  /\ UNCHANGED <<user, token>>

-----------------------------------------------------------------------------
LoginStep(p) ==
  \/ \E u \in User : \/ PasswordLogin(p, u)
                     \/ OauthLogin(p, u)
                     \/ \E a, e \in BOOLEAN : LdapLogin(p, u, a, e)
  \/ \E k \in Token : PersistIssuedToken(p, k)

RequestStep(p) ==
  \/ \E k \in Token : ReadToken(p, k)
  \/ ReadUser(p)
  \/ Respond(p)

AdminStep(p) ==
  \/ \E u \in User, f \in Form, e \in BOOLEAN : RequestUpdate(p, u, f, e)
  \/ \E u \in User : RequestDelete(p, u)
  \/ AcquireAndRead(p)
  \/ CountAdmins(p)
  \/ CommitUpdate(p)
  \/ CommitDelete(p)
  \/ SyncFails(p)
  \/ Abort(p)

TableStep ==
  \/ \E u \in User : \/ BumpAuthVersionAndRevoke(u)
                     \/ RecoverAdministrator(u)
                     \/ \E r \in Role, e \in BOOLEAN : CreateUser(u, r, e)
  \/ \E ks \in SUBSET Token : RevokeTokens(ks)

Next ==
  \/ \E p \in Proc : LoginStep(p) \/ RequestStep(p) \/ AdminStep(p)
  \/ TableStep

Spec == Init /\ [][Next]_vars

-----------------------------------------------------------------------------
TypeOK ==
  /\ user \in [User -> UserRow]
  /\ token \in [Token -> TokenRow]
  /\ op \in [Proc -> Op]
  /\ invariantLock \in Proc \cup {NoProc}

\* Whatever updates, deletions, directory syncs and recoveries overlap, some
\* enabled super administrator is left (acquireEnabledAdminInvariant and the
\* last-administrator checks of UpdateContext and DeleteContext).
AdminExists == EnabledSupers # {}

(* Why AdminExists is inductive: only the holder of the invariant row can    *)
(* take an administrator away, what it read stays true enough until it      *)
(* writes (the recovery command, which does not queue, only adds one), and  *)
(* after a passed check there is an administrator besides its target.       *)
InTransaction(p) == op[p].pc \in {"read", "counted"}

HolderIsInTransaction ==
  \A p \in Proc : InTransaction(p) <=> invariantLock = p

TargetExists ==
  \A p \in Proc : InTransaction(p) => Present(op[p].user)

\* An operation that will need the invariant row has a target and is one of
\* those that may take it.
AdminOp(o) ==
  o.pc \in {"wait", "read", "counted"} =>
    o.kind \in {"update", "sync", "delete"} /\ o.user \in User

KindsMatch == \A p \in Proc : AdminOp(op[p])

OtherAdmin(u) == \E v \in EnabledSupers : v # u

ReadIsSafe ==
  \A p \in Proc : InTransaction(p) =>
    \/ op[p].seenRole = "super" /\ op[p].seenEnabled
    \/ OtherAdmin(op[p].user)

CountIsSafe ==
  \A p \in Proc : op[p].pc = "counted" =>
    \/ ~RemovesEnabledSuper(p)
    \/ OtherAdmin(op[p].user)

AdminInv ==
  /\ TypeOK
  /\ HolderIsInTransaction
  /\ TargetExists
  /\ KindsMatch
  /\ ReadIsSafe
  /\ CountIsSafe
  /\ AdminExists
=============================================================================
